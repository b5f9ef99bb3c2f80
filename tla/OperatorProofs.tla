--------------------------- MODULE OperatorProofs ---------------------------
(***************************************************************************)
(* The operators the modules are built from, for every value of their      *)
(* arguments.  Sums: SumTo and SumIn are recursive functions, whose        *)
(* equations have to be earned.  StockBatches: the FEFO consumption.       *)
(* Pricing: rounding, and the parts of a Line and of a Bill.               *)
(***************************************************************************)
EXTENDS StockBatches, Pricing, FiniteSetTheorems, WellFoundedInduction, TLAPS

-----------------------------------------------------------------------------
(* Sums                                                                      *)

\* A set of naturals that is not empty has a least element.
LEMMA LeastExists ==
  ASSUME NEW T \in SUBSET Nat, T # {}
  PROVE  \E m \in T : \A k \in T : m <= k
<1>1. PICK m \in T : \A k \in T : ~(<<k, m>> \in OpToRel(<, Nat))
  BY NatLessThanWellFounded, WFMin
<1>2. ASSUME NEW k \in T PROVE m <= k
  <2>1. k \in Nat /\ m \in Nat
    OBVIOUS
  <2>2. k < m => <<k, m>> \in OpToRel(<, Nat)
    BY <2>1 DEF OpToRel
  <2>3. ~(<<k, m>> \in OpToRel(<, Nat))
    BY <1>1
  <2>4. ~(k < m)
    BY <2>2, <2>3
  <2>. QED
    BY <2>1, <2>4
<1>. QED
  BY <1>2

\* Induction, for a set given as a set.
LEMMA SetInduction ==
  ASSUME NEW S \in SUBSET Nat, 0 \in S, \A n \in S : n + 1 \in S
  PROVE  S = Nat
<1> SUFFICES ASSUME S # Nat PROVE FALSE
  OBVIOUS
<1> DEFINE T == Nat \ S
<1>1. T \in SUBSET Nat /\ T # {}
  OBVIOUS
<1> HIDE DEF T
<1>2. PICK m \in T : \A k \in T : m <= k
  BY <1>1, LeastExists
<1>3. m \in Nat /\ m \notin S
  BY <1>1 DEF T
<1>4. m # 0 /\ m - 1 \in Nat
  BY <1>3
<1>5. m - 1 \in T
  BY <1>3, <1>4 DEF T
<1>. QED
  BY <1>2, <1>3, <1>5

\* What the local recursive function of SumTo is, on its domain.
SumFcn(f, n) == CHOOSE s : s = [i \in 0..n |-> IF i = 0 THEN 0 ELSE s[i - 1] + f[i]]

LEMMA SumToIsSumFcn ==
  ASSUME NEW f, NEW n PROVE SumTo(f, n) = SumFcn(f, n)[n]
BY DEF SumTo, SumFcn

LEMMA SumFcnExists ==
  ASSUME NEW f, NEW n \in Nat
  PROVE  \E s : s = [i \in 0..n |-> IF i = 0 THEN 0 ELSE s[i - 1] + f[i]]
<1> DEFINE S == {m \in Nat : \E s : s = [i \in 0..m |-> IF i = 0 THEN 0 ELSE s[i - 1] + f[i]]}
<1>1. 0 \in S
  <2> DEFINE s == [i \in 0..0 |-> 0]
  <2>1. s = [i \in 0..0 |-> IF i = 0 THEN 0 ELSE s[i - 1] + f[i]]
    OBVIOUS
  <2>. QED
    BY <2>1
<1>2. ASSUME NEW m \in S PROVE m + 1 \in S
  <2>1. PICK s : s = [i \in 0..m |-> IF i = 0 THEN 0 ELSE s[i - 1] + f[i]]
    OBVIOUS
  <2> DEFINE t == [i \in 0..(m + 1) |-> IF i = m + 1 THEN s[m] + f[m + 1] ELSE s[i]]
  <2>2. ASSUME NEW i \in 0..(m + 1)
        PROVE  t[i] = IF i = 0 THEN 0 ELSE t[i - 1] + f[i]
    <3>1. CASE i = m + 1
      BY <3>1
    <3>2. CASE i # m + 1
      <4>1. i \in 0..m /\ t[i] = s[i]
        BY <3>2
      <4>2. s[i] = IF i = 0 THEN 0 ELSE s[i - 1] + f[i]
        BY <2>1, <4>1
      <4>3. i # 0 => i - 1 \in 0..(m + 1) /\ i - 1 # m + 1
        BY <4>1
      <4>. QED
        BY <4>1, <4>2, <4>3
    <3>. QED
      BY <3>1, <3>2
  <2>3. t = [i \in 0..(m + 1) |-> IF i = 0 THEN 0 ELSE t[i - 1] + f[i]]
    BY <2>2
  <2> HIDE DEF t
  <2>4. m + 1 \in Nat
    OBVIOUS
  <2>. QED
    BY <2>3, <2>4
<1>3. S \in SUBSET Nat
  OBVIOUS
<1> HIDE DEF S
<1>4. n \in S
  BY <1>1, <1>2, <1>3, SetInduction
<1>. QED
  BY <1>4 DEF S

LEMMA SumFcnDef ==
  ASSUME NEW f, NEW n \in Nat
  PROVE  SumFcn(f, n) = [i \in 0..n |-> IF i = 0 THEN 0 ELSE SumFcn(f, n)[i - 1] + f[i]]
BY SumFcnExists DEF SumFcn

\* A longer sum begins like a shorter one.
LEMMA SumFcnPrefix ==
  ASSUME NEW f, NEW n \in Nat, NEW k \in 0..n
  PROVE  SumFcn(f, n)[k] = SumTo(f, k)
<1> DEFINE S == {m \in Nat : m <= k => SumFcn(f, n)[m] = SumFcn(f, k)[m]}
<1>1. 0 \in S
  BY SumFcnDef
<1>2. ASSUME NEW m \in S PROVE m + 1 \in S
  <2> SUFFICES ASSUME m + 1 <= k PROVE SumFcn(f, n)[m + 1] = SumFcn(f, k)[m + 1]
    OBVIOUS
  <2>1. m + 1 \in 0..n /\ m + 1 \in 0..k /\ k \in Nat /\ (m + 1) - 1 = m /\ m + 1 # 0
    OBVIOUS
  <2>2. SumFcn(f, n)[m + 1] = SumFcn(f, n)[m] + f[m + 1]
    BY <2>1, SumFcnDef
  <2>3. SumFcn(f, k)[m + 1] = SumFcn(f, k)[m] + f[m + 1]
    BY <2>1, SumFcnDef
  <2>. QED
    BY <2>1, <2>2, <2>3
<1>3. S \in SUBSET Nat
  OBVIOUS
<1> HIDE DEF S
<1>4. k \in S
  BY <1>1, <1>2, <1>3, SetInduction
<1>. QED
  BY <1>4, SumToIsSumFcn DEF S

\* The equations of SumTo.
LEMMA SumToZero == ASSUME NEW f PROVE SumTo(f, 0) = 0
BY SumFcnDef, SumToIsSumFcn

LEMMA SumToNext ==
  ASSUME NEW f, NEW n \in Nat
  PROVE  SumTo(f, n + 1) = SumTo(f, n) + f[n + 1]
<1>1. n \in 0..(n + 1) /\ n + 1 \in 0..(n + 1) /\ n + 1 \in Nat /\ n + 1 # 0 /\ (n + 1) - 1 = n
  OBVIOUS
<1>2. SumFcn(f, n + 1)[n + 1] = SumFcn(f, n + 1)[n] + f[n + 1]
  BY <1>1, SumFcnDef
<1>. QED
  BY <1>1, <1>2, SumFcnPrefix

-----------------------------------------------------------------------------
\* A sum of naturals is a natural, a sum of integers an integer.
LEMMA SumTyped ==
  ASSUME NEW n \in Nat, NEW f, NEW T \in {Nat, Int}, \A i \in 1..n : f[i] \in T
  PROVE  SumTo(f, n) \in T
<1> DEFINE S == {m \in Nat : m <= n => SumTo(f, m) \in T}
<1>1. 0 \in S
  BY SumToZero
<1>2. ASSUME NEW m \in S PROVE m + 1 \in S
  <2> SUFFICES ASSUME m + 1 <= n PROVE SumTo(f, m + 1) \in T
    OBVIOUS
  <2>1. m \in Nat /\ m + 1 \in 1..n /\ SumTo(f, m) \in T
    OBVIOUS
  <2>2. SumTo(f, m + 1) = SumTo(f, m) + f[m + 1]
    BY <2>1, SumToNext
  <2>. QED
    BY <2>1, <2>2
<1>3. S \in SUBSET Nat
  OBVIOUS
<1> HIDE DEF S
<1>4. n \in S
  BY <1>1, <1>2, <1>3, SetInduction
<1>. QED
  BY <1>4 DEF S

\* A sum depends only on its terms.
LEMMA SumSame ==
  ASSUME NEW n \in Nat, NEW f, NEW g, \A i \in 1..n : f[i] = g[i]
  PROVE  SumTo(f, n) = SumTo(g, n)
<1> DEFINE S == {m \in Nat : m <= n => SumTo(f, m) = SumTo(g, m)}
<1>1. 0 \in S
  BY SumToZero
<1>2. ASSUME NEW m \in S PROVE m + 1 \in S
  <2> SUFFICES ASSUME m + 1 <= n PROVE SumTo(f, m + 1) = SumTo(g, m + 1)
    OBVIOUS
  <2>1. m \in Nat /\ m + 1 \in 1..n /\ SumTo(f, m) = SumTo(g, m)
    OBVIOUS
  <2>. QED
    BY <2>1, SumToNext
<1>3. S \in SUBSET Nat
  OBVIOUS
<1> HIDE DEF S
<1>4. n \in S
  BY <1>1, <1>2, <1>3, SetInduction
<1>. QED
  BY <1>4 DEF S

\* One row more.
LEMMA SumLonger ==
  ASSUME NEW n \in Nat, NEW f, NEW g, \A i \in 1..n : g[i] = f[i]
  PROVE  SumTo(g, n + 1) = SumTo(f, n) + g[n + 1]
<1>1. SumTo(g, n + 1) = SumTo(g, n) + g[n + 1]
  BY SumToNext
<1>2. SumTo(g, n) = SumTo(f, n)
  BY SumSame
<1>. QED
  BY <1>1, <1>2

\* Sums add term by term.
LEMMA SumAdds ==
  ASSUME NEW n \in Nat, NEW f, NEW g, NEW h,
         \A i \in 1..n : f[i] \in Int /\ g[i] \in Int /\ h[i] = f[i] + g[i]
  PROVE  SumTo(h, n) = SumTo(f, n) + SumTo(g, n)
<1> DEFINE S == {m \in Nat : m <= n => SumTo(h, m) = SumTo(f, m) + SumTo(g, m)}
<1>1. 0 \in S
  BY SumToZero
<1>2. ASSUME NEW m \in S PROVE m + 1 \in S
  <2> SUFFICES ASSUME m + 1 <= n PROVE SumTo(h, m + 1) = SumTo(f, m + 1) + SumTo(g, m + 1)
    OBVIOUS
  <2>1. m \in Nat /\ m + 1 \in 1..n /\ SumTo(h, m) = SumTo(f, m) + SumTo(g, m)
    OBVIOUS
  <2>2. \A i \in 1..m : f[i] \in Int /\ g[i] \in Int
    BY <2>1
  <2>3. SumTo(f, m) \in Int /\ SumTo(g, m) \in Int
    BY <2>1, <2>2, SumTyped
  <2>4. /\ SumTo(f, m + 1) = SumTo(f, m) + f[m + 1]
        /\ SumTo(g, m + 1) = SumTo(g, m) + g[m + 1]
        /\ SumTo(h, m + 1) = SumTo(h, m) + h[m + 1]
    BY <2>1, SumToNext
  <2>5. f[m + 1] \in Int /\ g[m + 1] \in Int /\ h[m + 1] = f[m + 1] + g[m + 1]
    BY <2>1
  <2>. QED
    BY <2>1, <2>3, <2>4, <2>5
<1>3. S \in SUBSET Nat
  OBVIOUS
<1> HIDE DEF S
<1>4. n \in S
  BY <1>1, <1>2, <1>3, SetInduction
<1>. QED
  BY <1>4 DEF S

\* A sum whose terms are all zero.
LEMMA SumZero ==
  ASSUME NEW n \in Nat, NEW f, \A i \in 1..n : f[i] = 0
  PROVE  SumTo(f, n) = 0
<1> DEFINE S == {m \in Nat : m <= n => SumTo(f, m) = 0}
<1>1. 0 \in S
  BY SumToZero
<1>2. ASSUME NEW m \in S PROVE m + 1 \in S
  BY SumToNext
<1>3. S \in SUBSET Nat
  OBVIOUS
<1> HIDE DEF S
<1>4. n \in S
  BY <1>1, <1>2, <1>3, SetInduction
<1>. QED
  BY <1>4 DEF S

\* A sum with a single term that is not zero.
LEMMA SumSingle ==
  ASSUME NEW n \in Nat, NEW f, NEW k \in 1..n, f[k] \in Int,
         \A i \in 1..n : i # k => f[i] = 0
  PROVE  SumTo(f, n) = f[k]
<1> DEFINE S == {m \in Nat : m <= n => SumTo(f, m) = IF m < k THEN 0 ELSE f[k]}
<1>1. 0 \in S
  BY SumToZero
<1>2. ASSUME NEW m \in S PROVE m + 1 \in S
  <2> SUFFICES ASSUME m + 1 <= n
               PROVE  SumTo(f, m + 1) = IF m + 1 < k THEN 0 ELSE f[k]
    OBVIOUS
  <2>1. m \in Nat /\ m + 1 \in 1..n /\ SumTo(f, m) = IF m < k THEN 0 ELSE f[k]
    OBVIOUS
  <2>2. SumTo(f, m + 1) = SumTo(f, m) + f[m + 1]
    BY <2>1, SumToNext
  <2>3. CASE m + 1 = k
    BY <2>1, <2>2, <2>3
  <2>4. CASE m + 1 # k
    <3>1. f[m + 1] = 0
      BY <2>1, <2>4
    <3>. QED
      BY <2>1, <2>2, <2>4, <3>1
  <2>. QED
    BY <2>3, <2>4
<1>3. S \in SUBSET Nat
  OBVIOUS
<1> HIDE DEF S
<1>4. n \in S
  BY <1>1, <1>2, <1>3, SetInduction
<1>. QED
  BY <1>4 DEF S

\* A sum is at least any other whose terms are at most its own.
LEMMA SumMonotone ==
  ASSUME NEW n \in Nat, NEW f, NEW g,
         \A i \in 1..n : f[i] \in Int /\ g[i] \in Int /\ f[i] <= g[i]
  PROVE  SumTo(f, n) <= SumTo(g, n)
<1> DEFINE d == [i \in 1..n |-> g[i] - f[i]]
<1>1. \A i \in 1..n : f[i] \in Int /\ d[i] \in Int /\ g[i] = f[i] + d[i] /\ d[i] \in Nat
  OBVIOUS
<1> HIDE DEF d
<1>2. SumTo(g, n) = SumTo(f, n) + SumTo(d, n)
  BY <1>1, SumAdds
<1>3. SumTo(d, n) \in Nat /\ SumTo(f, n) \in Int
  BY <1>1, SumTyped
<1>. QED
  BY <1>2, <1>3

-----------------------------------------------------------------------------
(* Sums over sets of Batches                                                 *)

LEMMA SumOverTyped ==
  ASSUME NEW n \in Nat, NEW q, \A i \in 1..n : q[i] \in Nat, NEW S
  PROVE  SumOver(q, S, n) \in Nat
<1> DEFINE f == [b \in 1..n |-> IF b \in S THEN q[b] ELSE 0]
<1>1. \A i \in 1..n : f[i] \in Nat
  OBVIOUS
<1> HIDE DEF f
<1>2. SumTo(f, n) \in Nat
  BY <1>1, SumTyped
<1>. QED
  BY <1>2 DEF SumOver, f

LEMMA SumOverEmpty ==
  ASSUME NEW n \in Nat, NEW q PROVE SumOver(q, {}, n) = 0
<1> DEFINE f == [b \in 1..n |-> IF b \in {} THEN q[b] ELSE 0]
<1>1. \A i \in 1..n : f[i] = 0
  OBVIOUS
<1> HIDE DEF f
<1>2. SumTo(f, n) = 0
  BY <1>1, SumZero
<1>. QED
  BY <1>2 DEF SumOver, f

LEMMA SumOverAdd ==
  ASSUME NEW n \in Nat, NEW q, \A i \in 1..n : q[i] \in Nat,
         NEW S, NEW m \in 1..n, m \notin S
  PROVE  SumOver(q, S \cup {m}, n) = SumOver(q, S, n) + q[m]
<1> DEFINE f == [b \in 1..n |-> IF b \in S THEN q[b] ELSE 0]
           g == [b \in 1..n |-> IF b = m THEN q[b] ELSE 0]
           h == [b \in 1..n |-> IF b \in S \cup {m} THEN q[b] ELSE 0]
<1>1. \A i \in 1..n : f[i] \in Int /\ g[i] \in Int /\ h[i] = f[i] + g[i]
  OBVIOUS
<1>2. g[m] = q[m] /\ g[m] \in Int /\ \A i \in 1..n : i # m => g[i] = 0
  OBVIOUS
<1>3. /\ SumOver(q, S \cup {m}, n) = SumTo(h, n)
      /\ SumOver(q, S, n) = SumTo(f, n)
  BY DEF SumOver
<1> HIDE DEF f, g, h
<1>4. SumTo(h, n) = SumTo(f, n) + SumTo(g, n)
  BY <1>1, SumAdds
<1>5. SumTo(g, n) = g[m]
  BY <1>2, SumSingle
<1>. QED
  BY <1>2, <1>3, <1>4, <1>5

-----------------------------------------------------------------------------
(* First expiry first out                                                    *)

\* A bounded set of naturals has a largest element.
LEMMA LargestExists ==
  ASSUME NEW N \in Nat, NEW S \in SUBSET (0..N), S # {}
  PROVE  \E m \in S : \A k \in S : k <= m
<1> DEFINE T == {i \in Nat : i <= N /\ N - i \in S}
<1>1. T \in SUBSET Nat /\ T # {}
  <2>1. PICK s \in S : TRUE
    OBVIOUS
  <2>2. N - s \in Nat /\ N - s <= N /\ N - (N - s) = s
    OBVIOUS
  <2>. QED
    BY <2>1, <2>2
<1>2. \A i \in T : i \in Nat /\ i <= N /\ N - i \in S
  OBVIOUS
<1>3. \A s \in S : N - s \in T
  OBVIOUS
<1> HIDE DEF T
<1>4. PICK i \in T : \A k \in T : i <= k
  BY <1>1, LeastExists
<1>6. \A k \in S : k <= N - i
  <2> TAKE k \in S
  <2>1. N - k \in T /\ i \in Nat
    BY <1>2, <1>3
  <2>2. i <= N - k
    BY <1>4, <2>1
  <2>. QED
    BY <2>1, <2>2
<1>. QED
  BY <1>2, <1>6

\* FEFO is a strict total order of the Batches.
LEMMA FefoOrder ==
  ASSUME NEW n \in Nat, NEW batches, \A b \in 1..n : batches[b].expiry \in Nat,
         NEW a \in 1..n, NEW b \in 1..n
  PROVE  /\ ~FefoBefore(batches, a, a)
         /\ a # b => FefoBefore(batches, a, b) \/ FefoBefore(batches, b, a)
         /\ ~(FefoBefore(batches, a, b) /\ FefoBefore(batches, b, a))
BY DEF FefoBefore

\* Any Batches have a last one in FEFO order.
LEMMA FefoLast ==
  ASSUME NEW n \in Nat, NEW X \in Nat, NEW batches,
         \A b \in 1..n : batches[b].expiry \in 0..X,
         NEW D \in SUBSET (1..n), D # {}
  PROVE  \E m \in D : \A a \in D : a # m => FefoBefore(batches, a, m)
<1> DEFINE E == {batches[b].expiry : b \in D}
<1>1. E \in SUBSET (0..X) /\ E # {}
  OBVIOUS
<1>2. PICK e \in E : \A k \in E : k <= e
  BY <1>1, LargestExists
<1> DEFINE I == {b \in D : batches[b].expiry = e}
<1>3. I \in SUBSET (0..n) /\ I # {}
  <2>1. PICK b \in D : batches[b].expiry = e
    OBVIOUS
  <2>2. D \in SUBSET (0..n)
    OBVIOUS
  <2>. QED
    BY <2>1, <2>2
<1>4. PICK m \in I : \A k \in I : k <= m
  BY <1>3, LargestExists
<1>5. m \in D /\ batches[m].expiry = e /\ m \in 1..n
  OBVIOUS
<1>6. ASSUME NEW a \in D, a # m PROVE FefoBefore(batches, a, m)
  <2>1. batches[a].expiry \in Nat /\ e \in Nat /\ batches[a].expiry <= e /\ a \in 1..n
    BY <1>1, <1>2
  <2>2. CASE batches[a].expiry = e
    <3>1. a <= m
      BY <1>4, <2>2
    <3>. QED
      BY <3>1, <1>5, <1>6, <2>1, <2>2 DEF FefoBefore
  <2>3. CASE batches[a].expiry # e
    BY <1>5, <2>1, <2>3 DEF FefoBefore
  <2>. QED
    BY <2>2, <2>3
<1>. QED
  BY <1>5, <1>6

\* What the FEFO loop takes from a Batch is there.
LEMMA FefoTakeBounds ==
  ASSUME NEW batches, Len(batches) \in Nat,
         NEW qty, \A b \in 1..Len(batches) : qty[b] \in Nat,
         NEW p, NEW asOf, NEW need \in Nat, NEW b \in 1..Len(batches)
  PROVE  /\ FefoTake(batches, qty, p, asOf, need, b) \in Nat
         /\ FefoTake(batches, qty, p, asOf, need, b) <= qty[b]
<1> DEFINE earlier == {a \in SellableBatches(batches, p, asOf) : FefoBefore(batches, a, b)}
           before  == SumOver(qty, earlier, Len(batches))
<1>1. before \in Nat /\ qty[b] \in Nat
  BY SumOverTyped
<1>2. FefoTake(batches, qty, p, asOf, need, b) =
        IF b \notin SellableBatches(batches, p, asOf) \/ need - before <= 0 THEN 0
        ELSE IF qty[b] < need - before THEN qty[b] ELSE need - before
  BY DEF FefoTake
<1> HIDE DEF before
<1>. QED
  BY <1>1, <1>2

\* Every expiry day is in the calendar, which ends with "no expiry".
ExpiriesWithin(X, batches) == \A b \in 1..Len(batches) : batches[b].expiry \in 0..X

\* What the loop takes from every Batch.
FefoTakes(batches, qty, p, asOf, need) ==
  [b \in 1..Len(batches) |-> FefoTake(batches, qty, p, asOf, need, b)]

\* The Batches up to some point of the FEFO order.
IsFefoPrefix(D, batches, sellable) ==
  D \subseteq sellable /\ \A b \in D : \A a \in sellable : FefoBefore(batches, a, b) => a \in D

\* From the Batches up to some point of the FEFO order the loop takes what is
\* needed, or all there is.
LEMMA FefoTakesFromPrefix ==
  ASSUME NEW batches, Len(batches) \in Nat, NEW X \in Nat,
         ExpiriesWithin(X, batches),
         NEW qty, \A b \in 1..Len(batches) : qty[b] \in Nat,
         NEW p, NEW asOf, NEW need \in Nat,
         NEW D, IsFefoPrefix(D, batches, SellableBatches(batches, p, asOf))
  PROVE  SumOver(FefoTakes(batches, qty, p, asOf, need), D, Len(batches)) =
           IF SumOver(qty, D, Len(batches)) < need THEN SumOver(qty, D, Len(batches)) ELSE need
<1> DEFINE n == Len(batches)
           take == FefoTakes(batches, qty, p, asOf, need)
           sellable == SellableBatches(batches, p, asOf)
           all(C) == SumOver(qty, C, n)
           Ok(C) == SumOver(take, C, n) = IF all(C) < need THEN all(C) ELSE need
           Prefix(C) == /\ C \in SUBSET sellable
                        /\ \A b \in C : \A a \in sellable : FefoBefore(batches, a, b) => a \in C
<1>0. n \in Nat /\ \A b \in 1..n : batches[b].expiry \in Nat /\ batches[b].expiry \in 0..X
  BY DEF ExpiriesWithin
<1>1. sellable \subseteq 1..n
  BY DEF SellableBatches
<1>2. \A b \in 1..n : /\ take[b] = FefoTake(batches, qty, p, asOf, need, b)
                    /\ take[b] \in Nat /\ take[b] <= qty[b] /\ qty[b] \in Nat
  BY FefoTakeBounds DEF FefoTakes
<1> HIDE DEF take
<1>3. \A C : all(C) \in Nat /\ SumOver(take, C, n) \in Nat
  BY <1>2, SumOverTyped
<1>4. Ok({})
  BY SumOverEmpty
<1>5. ASSUME NEW C, Prefix(C), C # {},
             \A B \in SUBSET C : B # C /\ Prefix(B) => Ok(B)
      PROVE  Ok(C)
  <2>1. C \in SUBSET (1..n)
    BY <1>1, <1>5
  <2>2. PICK m \in C : \A a \in C : a # m => FefoBefore(batches, a, m)
    BY <1>0, <1>5, <2>1, FefoLast
  <2> DEFINE B == C \ {m}
  <2>3. m \in 1..n /\ m \in sellable /\ m \notin B /\ C = B \cup {m} /\ B # C
    BY <1>5, <2>1
  <2>4. \A a \in 1..n : ~(FefoBefore(batches, a, m) /\ FefoBefore(batches, m, a))
    BY <1>0, <2>3, FefoOrder
  <2>5. ~FefoBefore(batches, m, m)
    BY <2>3, <2>4
  <2>6. {a \in sellable : FefoBefore(batches, a, m)} = B
    BY <1>5, <2>2, <2>5
  <2>7. Prefix(B)
    <3>1. ASSUME NEW b \in B, NEW a \in sellable, FefoBefore(batches, a, b) PROVE a \in B
      <4>1. a \in C
        BY <1>5, <3>1
      <4>2. a # m
        BY <2>1, <2>2, <2>4, <3>1
      <4>. QED
        BY <4>1, <4>2
    <3>. QED
      BY <1>5, <3>1
  <2>8. Ok(B)
    BY <1>5, <2>3, <2>7
  <2>9. take[m] = IF need - all(B) <= 0 THEN 0
                  ELSE IF qty[m] < need - all(B) THEN qty[m] ELSE need - all(B)
    BY <1>2, <2>3, <2>6 DEF FefoTake
  <2>10. /\ SumOver(take, C, n) = SumOver(take, B, n) + take[m]
         /\ all(C) = all(B) + qty[m]
    <3> HIDE DEF n, B
    <3>1. n \in Nat /\ m \in 1..n /\ m \notin B
      BY <1>0, <2>3
    <3>2. \A i \in 1..n : take[i] \in Nat
      BY <1>2
    <3>3. \A i \in 1..n : qty[i] \in Nat
      BY <1>2
    <3>4. SumOver(take, B \cup {m}, n) = SumOver(take, B, n) + take[m]
      BY ONLY <3>1, <3>2, SumOverAdd
    <3>5. SumOver(qty, B \cup {m}, n) = SumOver(qty, B, n) + qty[m]
      BY ONLY <3>1, <3>3, SumOverAdd
    <3>. QED
      BY <2>3, <3>4, <3>5
  <2> HIDE DEF B
  <2>11. all(B) \in Nat /\ qty[m] \in Nat /\ all(C) \in Nat /\ take[m] \in Nat
    BY <1>2, <1>3, <2>3
  <2> HIDE DEF all
  <2>. QED
    BY <2>8, <2>9, <2>10, <2>11
<1>6. IsFiniteSet(sellable)
  <2>1. IsFiniteSet(1..n)
    BY <1>0, 1 \in Int, n \in Int, FS_Interval
  <2>. QED
    BY <1>1, <2>1, FS_Subset
<1> DEFINE Bad == {C \in SUBSET sellable : Prefix(C) /\ ~Ok(C)}
<1>7. Bad \subseteq FiniteSubsetsOf(sellable)
  BY <1>6, FS_FiniteSubsetsOfFinite
<1>8. D \in SUBSET sellable /\ Prefix(D)
  BY DEF IsFefoPrefix
<1>9. Bad = {}
  <2> SUFFICES ASSUME Bad # {} PROVE FALSE
    OBVIOUS
  <2> HIDE DEF Ok, Prefix
  <2>1. PICK C \in Bad : \A B \in Bad : ~(<<B, C>> \in StrictSubsetOrdering(sellable))
    <3> HIDE DEF Bad
    <3>. QED
      BY <1>7, FS_StrictSubsetOrderingWellFounded, WFMin
  <2>2. C \in SUBSET sellable /\ Prefix(C) /\ ~Ok(C)
    BY <2>1
  <2>3. C # {}
    BY <1>4, <2>2
  <2>4. ASSUME NEW B \in SUBSET C, B # C, Prefix(B) PROVE Ok(B)
    <3>1. B \in SUBSET sellable /\ <<B, C>> \in StrictSubsetOrdering(sellable)
      BY <2>2, <2>4 DEF StrictSubsetOrdering
    <3>. QED
      BY <2>1, <2>4, <3>1
  <2>. QED
    BY <1>5, <2>2, <2>3, <2>4
<1>10. Ok(D)
  <2> HIDE DEF Ok, Prefix
  <2>. QED
    BY <1>9, <1>8
<1>. QED
  BY <1>10 DEF take

\* When the sellable Batches cover a Line, the FEFO loop takes exactly the Line:
\* the RuntimeError after the loop is unreachable.
LEMMA FefoTakesNeed ==
  ASSUME NEW batches, Len(batches) \in Nat, NEW X \in Nat,
         ExpiriesWithin(X, batches),
         NEW qty, \A b \in 1..Len(batches) : qty[b] \in Nat,
         NEW p, NEW asOf, NEW need \in Nat,
         need <= SellableQuantity(batches, qty, p, asOf)
  PROVE  SumTo(FefoTakes(batches, qty, p, asOf, need), Len(batches)) = need
<1> DEFINE n == Len(batches)
           take == FefoTakes(batches, qty, p, asOf, need)
           D == SellableBatches(batches, p, asOf)
           all == SumOver(qty, D, n)
           g == [b \in 1..n |-> IF b \in D THEN take[b] ELSE 0]
<1>1. all \in Nat /\ need <= all
  BY SumOverTyped DEF SellableQuantity
<1>2. SumOver(take, D, n) = IF all < need THEN all ELSE need
  <2>1. IsFefoPrefix(D, batches, D)
    BY DEF IsFefoPrefix
  <2>2. D = SellableBatches(batches, p, asOf)
    OBVIOUS
  <2> HIDE DEF D
  <2>. QED
    BY <2>1, <2>2, FefoTakesFromPrefix
<1>3. \A b \in 1..n : take[b] = g[b]
  BY DEF FefoTake, FefoTakes
<1>4. SumTo(take, n) = SumTo(g, n)
  <2> HIDE DEF g
  <2>. QED
    BY <1>3, SumSame
<1>5. SumOver(take, D, n) = SumTo(g, n)
  BY DEF SumOver
<1> HIDE DEF all, g, D, take
<1>6. SumTo(take, n) = need
  BY <1>1, <1>2, <1>4, <1>5
<1>. QED
  BY <1>6 DEF take

-----------------------------------------------------------------------------
(* Rounding, and the parts of a Line                                         *)


\* Rounding to the nearest integer, ties upward.
LEMMA RoundHalfUpBounds ==
  ASSUME NEW n \in Nat, NEW d \in Nat \ {0}
  PROVE  /\ RoundHalfUp(n, d) \in Nat
         /\ d * RoundHalfUp(n, d) * 2 <= 2 * n + d
         /\ 2 * n + d < d * RoundHalfUp(n, d) * 2 + 2 * d
<1>1. 2 * n + d \in Nat /\ 2 * d \in Nat /\ 2 * d > 0
  OBVIOUS
<1>2. ASSUME NEW a \in Nat, NEW b \in Nat, b > 0
      PROVE a \div b \in Nat /\ b * (a \div b) <= a /\ a < b * (a \div b) + b
  BY <1>2
<1>3. /\ RoundHalfUp(n, d) \in Nat
      /\ (2 * d) * RoundHalfUp(n, d) <= 2 * n + d
      /\ 2 * n + d < (2 * d) * RoundHalfUp(n, d) + 2 * d
  BY <1>1, <1>2 DEF RoundHalfUp
<1>. QED
  BY <1>3

\* Half of an amount, rounded up: what is left of it is that or one less.
LEMMA HalfIsHalf ==
  ASSUME NEW g \in Nat
  PROVE  /\ RoundHalfUp(g, 2) \in Nat /\ RoundHalfUp(g, 2) <= g
         /\ RoundHalfUp(g, 2) - (g - RoundHalfUp(g, 2)) \in 0..1
<1>1. RoundHalfUp(g, 2) \in Nat /\ 4 * RoundHalfUp(g, 2) <= 2 * g + 2
        /\ 2 * g + 2 < 4 * RoundHalfUp(g, 2) + 4
  BY RoundHalfUpBounds, 2 \in Nat \ {0}
<1>. QED
  BY <1>1

\* A unit's MRP is its taxable value plus its tax, and the tax is its halves.
LEMMA UnitTaxParts ==
  ASSUME NEW mrp \in Nat, NEW slab \in GstSlabs
  PROVE  LET u == UnitTax(mrp, slab)
         IN  /\ u.taxable \in Nat /\ u.gst \in Nat /\ u.cgst \in Nat /\ u.sgst \in Nat
             /\ u.taxable + u.gst = mrp
             /\ u.gst = u.cgst + u.sgst
             /\ u.cgst - u.sgst \in 0..1
<1> DEFINE taxable == IF slab = 0 THEN mrp ELSE RoundHalfUp(100 * mrp, 100 + slab)
           gst     == mrp - taxable
<1>1. taxable \in Nat /\ taxable <= mrp
  <2>1. CASE slab = 0
    BY <2>1
  <2>2. CASE slab # 0
    <3>1. slab \in {5, 12, 18} /\ 100 * mrp \in Nat
      BY <2>2 DEF GstSlabs
    <3>2. ASSUME NEW d \in {105, 112, 118}
          PROVE  RoundHalfUp(100 * mrp, d) \in Nat /\ RoundHalfUp(100 * mrp, d) <= mrp
      <4> DEFINE n == 100 * mrp
      <4>1. n \in Nat /\ d \in Nat \ {0}
        BY <3>1
      <4> HIDE DEF n
      <4>2. RoundHalfUp(n, d) \in Nat /\ d * RoundHalfUp(n, d) * 2 <= 2 * n + d
        BY <4>1, RoundHalfUpBounds
      <4>. QED
        BY <4>2 DEF n
    <3>. QED
      BY <2>2, <3>1, <3>2
  <2>. QED
    BY <2>1, <2>2
<1>2. gst \in Nat
  BY <1>1
<1>3. UnitTax(mrp, slab) = [taxable |-> taxable, gst |-> gst, cgst |-> RoundHalfUp(gst, 2),
                            sgst |-> gst - RoundHalfUp(gst, 2)]
  BY DEF UnitTax
<1> HIDE DEF taxable
<1>4. RoundHalfUp(gst, 2) \in Nat /\ RoundHalfUp(gst, 2) <= gst
        /\ RoundHalfUp(gst, 2) - (gst - RoundHalfUp(gst, 2)) \in 0..1
  BY <1>2, HalfIsHalf
<1> HIDE DEF gst
<1>5. taxable + gst = mrp
  BY <1>1 DEF gst
<1>. QED
  BY <1>1, <1>2, <1>3, <1>4, <1>5

\* A packaged Line: every amount is the unit's, times the units.
LEMMA PackagedLineParts ==
  ASSUME NEW mrp \in Nat, NEW units \in Nat, NEW slab \in GstSlabs
  PROVE  LET line == PackagedLine(mrp, units, slab)
         IN  /\ line.total \in Nat /\ line.taxable \in Nat
             /\ line.gst \in Nat /\ line.cgst \in Nat /\ line.sgst \in Nat
             /\ line.total = mrp * units
             /\ line.total = line.taxable + line.gst
             /\ line.gst = line.cgst + line.sgst
             /\ line.cgst - line.sgst \in 0..units
<1> DEFINE u == UnitTax(mrp, slab)
<1>1. /\ u.taxable \in Nat /\ u.gst \in Nat /\ u.cgst \in Nat /\ u.sgst \in Nat
      /\ u.taxable + u.gst = mrp /\ u.gst = u.cgst + u.sgst
      /\ u.cgst - u.sgst \in 0..1
  BY UnitTaxParts
<1>2. PackagedLine(mrp, units, slab) =
        [total |-> mrp * units, taxable |-> u.taxable * units, gst |-> u.gst * units,
         cgst |-> u.cgst * units, sgst |-> u.sgst * units]
  BY DEF PackagedLine
<1> HIDE DEF u
<1>3. ASSUME NEW a \in Nat, NEW b \in Nat
      PROVE  a * units \in Nat /\ (a + b) * units = a * units + b * units
  OBVIOUS
<1>4. /\ mrp * units \in Nat /\ u.taxable * units \in Nat /\ u.gst * units \in Nat
      /\ u.cgst * units \in Nat /\ u.sgst * units \in Nat
      /\ mrp * units = u.taxable * units + u.gst * units
      /\ u.gst * units = u.cgst * units + u.sgst * units
  <2>1. /\ mrp * units \in Nat /\ u.taxable * units \in Nat /\ u.gst * units \in Nat
        /\ u.cgst * units \in Nat /\ u.sgst * units \in Nat
    BY <1>1, <1>3
  <2>2. (u.taxable + u.gst) * units = u.taxable * units + u.gst * units
    BY <1>1, <1>3
  <2>3. (u.cgst + u.sgst) * units = u.cgst * units + u.sgst * units
    BY <1>1, <1>3
  <2>. QED
    BY <1>1, <2>1, <2>2, <2>3
<1>5. u.cgst * units - u.sgst * units \in 0..units
  <2>1. u.cgst = u.sgst \/ u.cgst = u.sgst + 1
    BY <1>1
  <2>2. u.cgst * units = u.sgst * units \/ u.cgst * units = u.sgst * units + 1 * units
    BY <2>1, <1>1, <1>3
  <2>. QED
    BY <2>2, <1>4
<1>. QED
  BY <1>2, <1>4, <1>5

\* A loose Line: its total is its two parts, each rounded, and so within one
\* paisa of MRP times quantity.
LEMMA LooseLineParts ==
  ASSUME NEW mrp \in Nat, NEW milli \in Nat, NEW slab \in GstSlabs
  PROVE  LET line == LooseLine(mrp, milli, slab)
         IN  /\ line.total \in Nat /\ line.taxable \in Nat
             /\ line.gst \in Nat /\ line.cgst \in Nat /\ line.sgst \in Nat
             /\ Milli * line.total - mrp * milli \in -Milli..Milli
             /\ line.total = line.taxable + line.gst
             /\ line.gst = line.cgst + line.sgst
             /\ line.cgst - line.sgst \in 0..1
<1> DEFINE u == UnitTax(mrp, slab)
           taxable == RoundHalfUp(u.taxable * milli, Milli)
           gst     == RoundHalfUp(u.gst * milli, Milli)
<1>1. u.taxable \in Nat /\ u.gst \in Nat /\ u.taxable + u.gst = mrp
  BY UnitTaxParts
<1>2. LooseLine(mrp, milli, slab) =
        [total |-> taxable + gst, taxable |-> taxable, gst |-> gst,
         cgst |-> RoundHalfUp(gst, 2), sgst |-> gst - RoundHalfUp(gst, 2)]
  BY DEF LooseLine
<1> HIDE DEF u
<1>3. u.taxable * milli \in Nat /\ u.gst * milli \in Nat
        /\ u.taxable * milli + u.gst * milli = mrp * milli
  <2>1. ASSUME NEW a \in Nat, NEW b \in Nat
        PROVE  a * milli \in Nat /\ (a + b) * milli = a * milli + b * milli
    OBVIOUS
  <2>2. (u.taxable + u.gst) * milli = u.taxable * milli + u.gst * milli
    BY <1>1, <2>1
  <2>3. u.taxable * milli \in Nat /\ u.gst * milli \in Nat
    BY <1>1, <2>1
  <2>. QED
    BY <1>1, <2>2, <2>3
<1>4. Milli \in Nat \ {0}
  BY DEF Milli
<1>5. ASSUME NEW n \in Nat
      PROVE  /\ RoundHalfUp(n, Milli) \in Nat
             /\ Milli * RoundHalfUp(n, Milli) * 2 <= 2 * n + Milli
             /\ 2 * n + Milli < Milli * RoundHalfUp(n, Milli) * 2 + 2 * Milli
  BY <1>4, RoundHalfUpBounds
<1>6. taxable \in Nat /\ gst \in Nat
  BY <1>3, <1>5
<1>7. Milli * (taxable + gst) - mrp * milli \in -Milli..Milli
  <2>1. /\ Milli * taxable * 2 <= 2 * (u.taxable * milli) + Milli
        /\ 2 * (u.taxable * milli) + Milli < Milli * taxable * 2 + 2 * Milli
    BY <1>3, <1>5
  <2>2. /\ Milli * gst * 2 <= 2 * (u.gst * milli) + Milli
        /\ 2 * (u.gst * milli) + Milli < Milli * gst * 2 + 2 * Milli
    BY <1>3, <1>5
  <2> HIDE DEF taxable, gst
  <2>. QED
    BY <2>1, <2>2, <1>3, <1>6 DEF Milli
<1> HIDE DEF taxable, gst
<1>8. RoundHalfUp(gst, 2) \in Nat /\ RoundHalfUp(gst, 2) <= gst
        /\ RoundHalfUp(gst, 2) - (gst - RoundHalfUp(gst, 2)) \in 0..1
  BY <1>6, HalfIsHalf
<1>. QED
  BY <1>2, <1>6, <1>7, <1>8

\* The round-off of a Bill is at most half a rupee.
LEMMA RoundOffBounds ==
  ASSUME NEW subtotal \in Nat
  PROVE  /\ RoundedTotal(subtotal) \in Nat
         /\ RoundedTotal(subtotal) % PaisePerRupee = 0
         /\ RoundedTotal(subtotal) = subtotal + RoundOff(subtotal)
         /\ RoundOff(subtotal) \in -49..50
<1>1. /\ RoundHalfUp(subtotal, 100) \in Nat
      /\ 100 * RoundHalfUp(subtotal, 100) * 2 <= 2 * subtotal + 100
      /\ 2 * subtotal + 100 < 100 * RoundHalfUp(subtotal, 100) * 2 + 2 * 100
  <2>1. 100 \in Nat \ {0}
    OBVIOUS
  <2>. QED
    BY <2>1, RoundHalfUpBounds
<1>. QED
  BY <1>1 DEF RoundedTotal, RoundOff, PaisePerRupee

-----------------------------------------------------------------------------
(* Sums over finite sets                                                     *)

LEMMA CardEmpty == IsFiniteSet({}) /\ Cardinality({}) = 0
BY FS_EmptySet

LEMMA CardZero ==
  ASSUME NEW T, IsFiniteSet(T)
  PROVE  Cardinality(T) = 0 <=> T = {}
BY FS_EmptySet

LEMMA CardLess ==
  ASSUME NEW T, IsFiniteSet(T), NEW x \in T
  PROVE  /\ IsFiniteSet(T \ {x}) /\ Cardinality(T) \in Nat /\ Cardinality(T \ {x}) \in Nat
         /\ Cardinality(T \ {x}) = Cardinality(T) - 1
<1>1. IsFiniteSet(T \ {x}) /\ Cardinality(T \ {x}) = Cardinality(T) - 1
  BY FS_RemoveElement
<1>2. Cardinality(T) \in Nat /\ Cardinality(T \ {x}) \in Nat
  BY <1>1, FS_CardinalityType
<1> QED
  BY <1>1, <1>2

LEMMA CardParts ==
  ASSUME NEW S, IsFiniteSet(S), NEW T \in SUBSET S
  PROVE  /\ IsFiniteSet(T) /\ Cardinality(T) \in Nat
         /\ Cardinality(S) \in Nat /\ Cardinality(T) <= Cardinality(S)
BY FS_Subset, FS_CardinalityType

\* Induction over the subsets of a finite set, for a property given as a set.
LEMMA SubsetInduction ==
  ASSUME NEW S, IsFiniteSet(S), NEW P, {} \in P,
         \A T \in SUBSET S : \A x \in S \ T : T \in P => T \cup {x} \in P
  PROVE  S \in P
<1> DEFINE N == {n \in Nat : \A T \in SUBSET S : Cardinality(T) = n => T \in P}
<1>1. \A T \in SUBSET S : IsFiniteSet(T) /\ Cardinality(T) \in Nat
  BY FS_Subset, FS_CardinalityType
<1>2. 0 \in N
  BY <1>1, FS_EmptySet
<1>3. ASSUME NEW n \in N
      PROVE  n + 1 \in N
  <2>1. n \in Nat /\ \A T \in SUBSET S : Cardinality(T) = n => T \in P
    OBVIOUS
  <2> SUFFICES ASSUME NEW T \in SUBSET S, Cardinality(T) = n + 1
               PROVE  T \in P
    BY <2>1
  <2>2. T # {}
    <3>1. n + 1 # 0
      BY <2>1
    <3> QED
      BY <3>1, CardEmpty
  <2>3. PICK x \in T : TRUE
    BY <2>2
  <2>4. Cardinality(T \ {x}) = n
    <3>1. IsFiniteSet(T)
      BY <1>1
    <3>2. Cardinality(T \ {x}) = Cardinality(T) - 1
      BY <2>3, <3>1, CardLess
    <3> QED
      BY <2>1, <3>2
  <2>5. T \ {x} \in P /\ T \ {x} \in SUBSET S /\ x \in S \ (T \ {x})
    BY <2>1, <2>3, <2>4
  <2>6. (T \ {x}) \cup {x} \in P
    BY <2>5
  <2>7. (T \ {x}) \cup {x} = T
    BY <2>3
  <2> QED
    BY <2>6, <2>7
<1>4. N \in SUBSET Nat
  OBVIOUS
<1> HIDE DEF N
<1>5. N = Nat
  BY <1>2, <1>3, <1>4, SetInduction
<1>6. Cardinality(S) \in N
  BY <1>1, <1>5
<1> QED
  BY <1>6 DEF N

\* What the local recursive function of SumIn is.
IsInFcn(s, f, S) ==
  s = [T \in SUBSET S |-> IF T = {} THEN 0 ELSE f[AnyOf(T)] + s[T \ {AnyOf(T)}]]

InFcn(f, S) == CHOOSE s : IsInFcn(s, f, S)

LEMMA SumInIsInFcn ==
  ASSUME NEW f, NEW S PROVE SumIn(f, S) = InFcn(f, S)[S]
BY DEF SumIn, InFcn, IsInFcn

LEMMA AnyOfIn == ASSUME NEW T, T # {} PROVE AnyOf(T) \in T
BY DEF AnyOf

LEMMA InFcnExists ==
  ASSUME NEW f, NEW S, IsFiniteSet(S)
  PROVE  \E s : IsInFcn(s, f, S)
<1> DEFINE Small(n) == {T \in SUBSET S : Cardinality(T) <= n}
           N == {n \in Nat : \E s : s = [T \in Small(n) |->
                               IF T = {} THEN 0 ELSE f[AnyOf(T)] + s[T \ {AnyOf(T)}]]}
<1>1. \A T \in SUBSET S : IsFiniteSet(T) /\ Cardinality(T) \in Nat /\ Cardinality(T) <= Cardinality(S)
  BY FS_Subset, FS_CardinalityType
<1>2. \A T \in SUBSET S : T # {} => /\ T \ {AnyOf(T)} \in SUBSET S
                                    /\ Cardinality(T \ {AnyOf(T)}) = Cardinality(T) - 1
                                    /\ Cardinality(T) # 0
  BY <1>1, AnyOfIn, FS_RemoveElement, FS_EmptySet
<1>3. 0 \in N
  <2> DEFINE s == [T \in Small(0) |-> 0]
  <2>1. ASSUME NEW T \in Small(0)
        PROVE  T = {}
    <3>1. T \in SUBSET S /\ Cardinality(T) <= 0
      OBVIOUS
    <3>2. IsFiniteSet(T) /\ Cardinality(T) \in Nat
      BY <1>1, <3>1
    <3>3. Cardinality(T) = 0
      BY <3>1, <3>2
    <3> QED
      BY <3>2, <3>3, CardZero
  <2>2. s = [T \in Small(0) |-> IF T = {} THEN 0 ELSE f[AnyOf(T)] + s[T \ {AnyOf(T)}]]
    BY <2>1
  <2> HIDE DEF s, Small
  <2> QED
    BY <2>2
<1>4. ASSUME NEW n \in N
      PROVE  n + 1 \in N
  <2>0. n \in Nat
    OBVIOUS
  <2>1. PICK s : s = [T \in Small(n) |-> IF T = {} THEN 0 ELSE f[AnyOf(T)] + s[T \ {AnyOf(T)}]]
    OBVIOUS
  <2> DEFINE t == [T \in Small(n + 1) |-> IF T \in Small(n) THEN s[T]
                                          ELSE f[AnyOf(T)] + s[T \ {AnyOf(T)}]]
  <2>2. ASSUME NEW T \in Small(n + 1)
        PROVE  t[T] = IF T = {} THEN 0 ELSE f[AnyOf(T)] + t[T \ {AnyOf(T)}]
    <3>1. T = {} => T \in Small(n)
      BY <1>1, <2>0, FS_EmptySet
    <3>2. T # {} => T \ {AnyOf(T)} \in Small(n) /\ T \ {AnyOf(T)} \in Small(n + 1)
      BY <1>1, <1>2, <2>0
    <3>3. T \in Small(n) => s[T] = IF T = {} THEN 0 ELSE f[AnyOf(T)] + s[T \ {AnyOf(T)}]
      BY <2>1
    <3> HIDE DEF Small
    <3>4. T # {} => t[T \ {AnyOf(T)}] = s[T \ {AnyOf(T)}]
      BY <3>2
    <3>5. t[T] = IF T \in Small(n) THEN s[T] ELSE f[AnyOf(T)] + s[T \ {AnyOf(T)}]
      OBVIOUS
    <3> HIDE DEF t
    <3> QED
      BY <3>1, <3>3, <3>4, <3>5
  <2> HIDE DEF Small
  <2>3. t = [T \in Small(n + 1) |-> IF T = {} THEN 0 ELSE f[AnyOf(T)] + t[T \ {AnyOf(T)}]]
    BY <2>2
  <2> HIDE DEF t
  <2> QED
    BY <2>0, <2>3
<1>5. N \in SUBSET Nat
  OBVIOUS
<1> HIDE DEF N
<1>6. Cardinality(S) \in N
  BY <1>1, <1>3, <1>4, <1>5, SetInduction
<1>7. Small(Cardinality(S)) = SUBSET S
  BY <1>1
<1> HIDE DEF Small
<1> QED
  BY <1>6, <1>7 DEF N, IsInFcn

LEMMA InFcnDef ==
  ASSUME NEW f, NEW S, IsFiniteSet(S), NEW T \in SUBSET S
  PROVE  /\ T = {} => InFcn(f, S)[T] = 0
         /\ T # {} => InFcn(f, S)[T] = f[AnyOf(T)] + InFcn(f, S)[T \ {AnyOf(T)}]
<1> DEFINE s == InFcn(f, S)
<1>1. IsInFcn(s, f, S)
  BY InFcnExists DEF InFcn
<1> HIDE DEF s
<1>2. s[T] = IF T = {} THEN 0 ELSE f[AnyOf(T)] + s[T \ {AnyOf(T)}]
  BY <1>1 DEF IsInFcn
<1> QED
  BY <1>2 DEF s

\* The sum over a subset is a value on the way to the sum over the set.
LEMMA InFcnPart ==
  ASSUME NEW f, NEW S, IsFiniteSet(S), NEW U \in SUBSET S
  PROVE  InFcn(f, S)[U] = SumIn(f, U)
<1> DEFINE N == {n \in Nat : \A T \in SUBSET U : Cardinality(T) = n =>
                               InFcn(f, S)[T] = InFcn(f, U)[T]}
<1>1. IsFiniteSet(U) /\ \A T \in SUBSET U : IsFiniteSet(T) /\ Cardinality(T) \in Nat
  BY FS_Subset, FS_CardinalityType
<1>2. 0 \in N
  <2>1. ASSUME NEW T \in SUBSET U, Cardinality(T) = 0
        PROVE  T = {}
    BY <1>1, <2>1, FS_EmptySet
  <2>2. InFcn(f, S)[{}] = 0 /\ InFcn(f, U)[{}] = 0
    BY <1>1, InFcnDef
  <2> QED
    BY <2>1, <2>2
<1>3. ASSUME NEW n \in N
      PROVE  n + 1 \in N
  <2>1. n \in Nat /\ \A T \in SUBSET U : Cardinality(T) = n => InFcn(f, S)[T] = InFcn(f, U)[T]
    OBVIOUS
  <2> SUFFICES ASSUME NEW T \in SUBSET U, Cardinality(T) = n + 1
               PROVE  InFcn(f, S)[T] = InFcn(f, U)[T]
    BY <2>1
  <2>2. T # {}
    <3>1. n + 1 # 0
      BY <2>1
    <3> QED
      BY <3>1, CardEmpty
  <2>3. AnyOf(T) \in T
    BY <2>2, AnyOfIn
  <2>4. Cardinality(T \ {AnyOf(T)}) = n
    <3>1. IsFiniteSet(T)
      BY <1>1
    <3>2. Cardinality(T \ {AnyOf(T)}) = Cardinality(T) - 1
      BY <2>3, <3>1, CardLess
    <3> QED
      BY <2>1, <3>2
  <2>5. InFcn(f, S)[T \ {AnyOf(T)}] = InFcn(f, U)[T \ {AnyOf(T)}]
    BY <2>1, <2>4
  <2>6. InFcn(f, S)[T] = f[AnyOf(T)] + InFcn(f, S)[T \ {AnyOf(T)}]
    BY <2>2, InFcnDef
  <2>7. InFcn(f, U)[T] = f[AnyOf(T)] + InFcn(f, U)[T \ {AnyOf(T)}]
    <3>1. IsFiniteSet(U)
      BY <1>1
    <3> QED
      BY <2>2, <3>1, InFcnDef
  <2> QED
    BY <2>5, <2>6, <2>7
<1>4. N \in SUBSET Nat
  OBVIOUS
<1> HIDE DEF N
<1>5. Cardinality(U) \in N
  BY <1>1, <1>2, <1>3, <1>4, SetInduction
<1> QED
  BY <1>5, SumInIsInFcn DEF N

LEMMA SumInEmpty == ASSUME NEW f PROVE SumIn(f, {}) = 0
BY InFcnDef, SumInIsInFcn, FS_EmptySet

LEMMA SumInNext ==
  ASSUME NEW f, NEW S, IsFiniteSet(S), S # {}
  PROVE  SumIn(f, S) = f[AnyOf(S)] + SumIn(f, S \ {AnyOf(S)})
<1>1. InFcn(f, S)[S] = f[AnyOf(S)] + InFcn(f, S)[S \ {AnyOf(S)}]
  BY InFcnDef
<1>2. InFcn(f, S)[S \ {AnyOf(S)}] = SumIn(f, S \ {AnyOf(S)})
  BY InFcnPart
<1> QED
  BY <1>1, <1>2, SumInIsInFcn

-----------------------------------------------------------------------------
\* A sum of naturals is a natural, a sum of integers an integer.
LEMMA SumInTyped ==
  ASSUME NEW S, IsFiniteSet(S), NEW V \in {Nat, Int}, NEW f, \A x \in S : f[x] \in V
  PROVE  SumIn(f, S) \in V
<1> DEFINE N == {n \in Nat : \A T \in SUBSET S : Cardinality(T) = n => SumIn(f, T) \in V}
<1>0. \A a, b \in V : a + b \in V
  OBVIOUS
<1>1. 0 \in N
  <2>1. ASSUME NEW T \in SUBSET S, Cardinality(T) = 0
        PROVE  SumIn(f, T) \in V
    <3>1. T = {}
      BY <2>1, CardParts, CardZero
    <3>2. 0 \in V
      OBVIOUS
    <3> QED
      BY <3>1, <3>2, SumInEmpty
  <2> QED
    BY <2>1
<1>2. ASSUME NEW n \in N
      PROVE  n + 1 \in N
  <2>1. n \in Nat /\ n + 1 # 0 /\ \A T \in SUBSET S : Cardinality(T) = n => SumIn(f, T) \in V
    OBVIOUS
  <2> SUFFICES ASSUME NEW T \in SUBSET S, Cardinality(T) = n + 1
               PROVE  SumIn(f, T) \in V
    BY <2>1
  <2>2. IsFiniteSet(T) /\ T # {}
    BY <2>1, CardParts, CardEmpty
  <2> DEFINE x == AnyOf(T)
  <2>3. x \in T
    BY <2>2, AnyOfIn
  <2>4. SumIn(f, T) = f[x] + SumIn(f, T \ {x})
    BY <2>2, SumInNext
  <2> HIDE DEF x
  <2>5. Cardinality(T \ {x}) = n
    BY <2>1, <2>2, <2>3, CardLess
  <2>6. SumIn(f, T \ {x}) \in V /\ f[x] \in V
    BY <2>1, <2>3, <2>5
  <2> QED
    BY <1>0, <2>4, <2>6
<1>3. N \in SUBSET Nat
  OBVIOUS
<1> HIDE DEF N
<1>4. Cardinality(S) \in N
  BY <1>1, <1>2, <1>3, SetInduction, CardParts
<1> QED
  BY <1>4 DEF N

\* Addition commutes: any element may be added last.
LEMMA SumInAny ==
  ASSUME NEW S, IsFiniteSet(S), NEW f, \A x \in S : f[x] \in Int, NEW y \in S
  PROVE  SumIn(f, S) = f[y] + SumIn(f, S \ {y})
<1> DEFINE N == {n \in Nat : \A T \in SUBSET S : Cardinality(T) = n =>
                               \A x \in T : SumIn(f, T) = f[x] + SumIn(f, T \ {x})}
<1>0. \A T \in SUBSET S : IsFiniteSet(T) /\ SumIn(f, T) \in Int
  <2>1. ASSUME NEW T \in SUBSET S
        PROVE  IsFiniteSet(T) /\ SumIn(f, T) \in Int
    BY CardParts, SumInTyped
  <2> QED
    BY <2>1
<1>1. 0 \in N
  <2>1. ASSUME NEW T \in SUBSET S, Cardinality(T) = 0
        PROVE  T = {}
    BY <2>1, CardParts, CardZero
  <2> QED
    BY <2>1
<1>2. ASSUME NEW n \in N
      PROVE  n + 1 \in N
  <2>1. n \in Nat
    OBVIOUS
  <2>2. \A T \in SUBSET S : Cardinality(T) = n =>
          \A x \in T : SumIn(f, T) = f[x] + SumIn(f, T \ {x})
    OBVIOUS
  <2> HIDE DEF N
  <2>9. ASSUME NEW T \in SUBSET S, Cardinality(T) = n + 1, NEW x \in T
        PROVE  SumIn(f, T) = f[x] + SumIn(f, T \ {x})
    <3>1. IsFiniteSet(T) /\ T # {}
      BY <1>0
    <3> DEFINE p == AnyOf(T)
    <3>2. p \in T
      BY <3>1, AnyOfIn
    <3>3. SumIn(f, T) = f[p] + SumIn(f, T \ {p})
      BY <3>1, SumInNext
    <3> HIDE DEF p
    <3>4. CASE x = p
      BY <3>3, <3>4
    <3>5. CASE x # p
      <4>1. Cardinality(T \ {p}) = n /\ Cardinality(T \ {x}) = n
        <5>1. Cardinality(T \ {p}) = Cardinality(T) - 1 /\ Cardinality(T \ {x}) = Cardinality(T) - 1
          BY <3>1, <3>2, CardLess
        <5> QED
          BY <2>1, <2>9, <5>1
      <4>2. T \ {p} \in SUBSET S /\ T \ {x} \in SUBSET S /\ x \in T \ {p} /\ p \in T \ {x}
        BY <3>2, <3>5
      <4>3. SumIn(f, T \ {p}) = f[x] + SumIn(f, (T \ {p}) \ {x})
        BY <2>2, <4>1, <4>2
      <4>4. SumIn(f, T \ {x}) = f[p] + SumIn(f, (T \ {x}) \ {p})
        BY <2>2, <4>1, <4>2
      <4>5. (T \ {p}) \ {x} = (T \ {x}) \ {p}
        OBVIOUS
      <4> DEFINE r == SumIn(f, (T \ {x}) \ {p})
                 u == SumIn(f, T \ {x})
                 v == SumIn(f, T \ {p})
                 w == SumIn(f, T)
      <4>6. r \in Int /\ f[x] \in Int /\ f[p] \in Int
        BY <1>0, <3>2
      <4>7. v = f[x] + r /\ u = f[p] + r /\ w = f[p] + v
        BY <3>3, <4>3, <4>4, <4>5
      <4> HIDE DEF r, u, v, w
      <4>8. w = f[x] + u
        BY <4>6, <4>7
      <4> QED
        BY <4>8 DEF u, w
    <3> QED
      BY <3>4, <3>5
  <2> QED
    BY <2>1, <2>9 DEF N
<1>3. N \in SUBSET Nat
  OBVIOUS
<1> HIDE DEF N
<1>4. Cardinality(S) \in N
  BY <1>1, <1>2, <1>3, SetInduction, CardParts
<1> QED
  BY <1>4 DEF N

LEMMA SumInAdd ==
  ASSUME NEW S, IsFiniteSet(S), NEW x, x \notin S, NEW f, f[x] \in Int, \A y \in S : f[y] \in Int
  PROVE  IsFiniteSet(S \cup {x}) /\ SumIn(f, S \cup {x}) = f[x] + SumIn(f, S)
<1>1. IsFiniteSet(S \cup {x}) /\ (S \cup {x}) \ {x} = S
  BY FS_AddElement
<1>2. \A y \in S \cup {x} : f[y] \in Int
  OBVIOUS
<1>3. SumIn(f, S \cup {x}) = f[x] + SumIn(f, (S \cup {x}) \ {x})
  BY <1>1, <1>2, SumInAny
<1> QED
  BY <1>1, <1>3

\* Two functions that agree on the set have the same sum.
LEMMA SumInSame ==
  ASSUME NEW S, IsFiniteSet(S), NEW f, NEW g, \A x \in S : f[x] \in Int,
         \A x \in S : g[x] = f[x]
  PROVE  SumIn(g, S) = SumIn(f, S)
<1> DEFINE P == {T \in SUBSET S : SumIn(g, T) = SumIn(f, T)}
<1>1. {} \in P
  BY SumInEmpty
<1>2. ASSUME NEW T \in SUBSET S, NEW x \in S \ T, T \in P
      PROVE  T \cup {x} \in P
  <2>1. IsFiniteSet(T) /\ SumIn(g, T) = SumIn(f, T)
    BY <1>2, CardParts
  <2>2. /\ f[x] \in Int /\ g[x] = f[x]
        /\ \A y \in T : f[y] \in Int /\ g[y] \in Int
    OBVIOUS
  <2>3. SumIn(f, T \cup {x}) = f[x] + SumIn(f, T)
    BY <2>1, <2>2, SumInAdd
  <2>4. SumIn(g, T \cup {x}) = g[x] + SumIn(g, T)
    BY <2>1, <2>2, SumInAdd
  <2> QED
    BY <2>1, <2>2, <2>3, <2>4
<1> HIDE DEF P
<1>3. S \in P
  BY <1>1, <1>2, SubsetInduction
<1> QED
  BY <1>3 DEF P

\* The sum of sums.
LEMMA SumInAdds ==
  ASSUME NEW S, IsFiniteSet(S), NEW f, NEW g, NEW h,
         \A x \in S : f[x] \in Int, \A x \in S : g[x] \in Int,
         \A x \in S : h[x] = f[x] + g[x]
  PROVE  SumIn(h, S) = SumIn(f, S) + SumIn(g, S)
<1> DEFINE P == {T \in SUBSET S : SumIn(h, T) = SumIn(f, T) + SumIn(g, T)}
<1>1. {} \in P
  <2>1. SumIn(h, {}) = 0 /\ SumIn(f, {}) = 0 /\ SumIn(g, {}) = 0
    BY SumInEmpty
  <2> QED
    BY <2>1
<1>2. ASSUME NEW T \in SUBSET S, NEW x \in S \ T, T \in P
      PROVE  T \cup {x} \in P
  <2>1. IsFiniteSet(T) /\ SumIn(h, T) = SumIn(f, T) + SumIn(g, T)
    BY <1>2, CardParts
  <2>2. /\ f[x] \in Int /\ g[x] \in Int /\ h[x] \in Int /\ h[x] = f[x] + g[x]
        /\ \A y \in T : f[y] \in Int /\ g[y] \in Int /\ h[y] \in Int
    OBVIOUS
  <2>3. SumIn(f, T \cup {x}) = f[x] + SumIn(f, T) /\ SumIn(f, T) \in Int
    BY <2>1, <2>2, SumInAdd, SumInTyped
  <2>4. SumIn(g, T \cup {x}) = g[x] + SumIn(g, T) /\ SumIn(g, T) \in Int
    BY <2>1, <2>2, SumInAdd, SumInTyped
  <2>5. SumIn(h, T \cup {x}) = h[x] + SumIn(h, T)
    BY <2>1, <2>2, SumInAdd
  <2> DEFINE a == SumIn(f, T)
             b == SumIn(g, T)
  <2>6. SumIn(h, T \cup {x}) = f[x] + g[x] + (a + b) /\ a \in Int /\ b \in Int
    BY <2>1, <2>2, <2>3, <2>4, <2>5
  <2>7. SumIn(f, T \cup {x}) + SumIn(g, T \cup {x}) = (f[x] + a) + (g[x] + b)
    BY <2>3, <2>4
  <2> HIDE DEF a, b
  <2> QED
    BY <2>2, <2>6, <2>7
<1> HIDE DEF P
<1>3. S \in P
  BY <1>1, <1>2, SubsetInduction
<1> QED
  BY <1>3 DEF P

\* Two sets that share nothing.
LEMMA SumInUnion ==
  ASSUME NEW A, NEW B, IsFiniteSet(A), IsFiniteSet(B), A \cap B = {},
         NEW f, \A x \in A \cup B : f[x] \in Int
  PROVE  SumIn(f, A \cup B) = SumIn(f, A) + SumIn(f, B)
<1> DEFINE P == {T \in SUBSET B : SumIn(f, A \cup T) = SumIn(f, A) + SumIn(f, T)}
<1>0. SumIn(f, A) \in Int
  BY SumInTyped
<1>1. {} \in P
  <2>1. A \cup {} = A /\ SumIn(f, {}) = 0
    BY SumInEmpty
  <2> QED
    BY <1>0, <2>1
<1>2. ASSUME NEW T \in SUBSET B, NEW x \in B \ T, T \in P
      PROVE  T \cup {x} \in P
  <2>1. IsFiniteSet(T) /\ SumIn(f, A \cup T) = SumIn(f, A) + SumIn(f, T)
    BY <1>2, CardParts
  <2>2. /\ f[x] \in Int /\ x \notin A \cup T /\ IsFiniteSet(A \cup T)
        /\ \A y \in A \cup T : f[y] \in Int
        /\ A \cup (T \cup {x}) = (A \cup T) \cup {x}
    BY <2>1, FS_Union
  <2>3. SumIn(f, T \cup {x}) = f[x] + SumIn(f, T) /\ SumIn(f, T) \in Int
    BY <2>1, <2>2, SumInAdd, SumInTyped
  <2>4. SumIn(f, (A \cup T) \cup {x}) = f[x] + SumIn(f, A \cup T)
    BY <2>2, SumInAdd
  <2> DEFINE a == SumIn(f, A)
             b == SumIn(f, T)
  <2>5. SumIn(f, A \cup (T \cup {x})) = f[x] + (a + b) /\ SumIn(f, T \cup {x}) = f[x] + b
        /\ a \in Int /\ b \in Int
    BY <1>0, <2>1, <2>2, <2>3, <2>4
  <2>6. f[x] + (a + b) = a + (f[x] + b)
    <3> HIDE DEF a, b
    <3> QED
      BY <2>2, <2>5
  <2> QED
    BY <2>5, <2>6
<1> HIDE DEF P
<1>3. B \in P
  BY <1>1, <1>2, SubsetInduction
<1> QED
  BY <1>3 DEF P

LEMMA SumInZero ==
  ASSUME NEW S, IsFiniteSet(S), NEW f, \A x \in S : f[x] = 0
  PROVE  SumIn(f, S) = 0
<1> DEFINE P == {T \in SUBSET S : SumIn(f, T) = 0}
<1>1. {} \in P
  BY SumInEmpty
<1>2. ASSUME NEW T \in SUBSET S, NEW x \in S \ T, T \in P
      PROVE  T \cup {x} \in P
  <2>1. IsFiniteSet(T) /\ SumIn(f, T) = 0 /\ f[x] = 0 /\ f[x] \in Int /\ \A y \in T : f[y] \in Int
    BY <1>2, CardParts
  <2>2. SumIn(f, T \cup {x}) = f[x] + SumIn(f, T)
    BY <2>1, SumInAdd
  <2> QED
    BY <2>1, <2>2
<1> HIDE DEF P
<1>3. S \in P
  BY <1>1, <1>2, SubsetInduction
<1> QED
  BY <1>3 DEF P

\* A larger function has a larger sum.
LEMMA SumInMonotone ==
  ASSUME NEW S, IsFiniteSet(S), NEW f, NEW g,
         \A x \in S : f[x] \in Int, \A x \in S : g[x] \in Int, \A x \in S : f[x] <= g[x]
  PROVE  SumIn(f, S) <= SumIn(g, S)
<1> DEFINE h == [x \in S |-> g[x] - f[x]]
<1>1. \A x \in S : h[x] \in Nat /\ g[x] = f[x] + h[x]
  OBVIOUS
<1> HIDE DEF h
<1>2. SumIn(h, S) \in Nat /\ SumIn(f, S) \in Int
  BY <1>1, SumInTyped
<1>3. \A x \in S : h[x] \in Int
  BY <1>1
<1>4. SumIn(g, S) = SumIn(f, S) + SumIn(h, S)
  BY <1>1, <1>3, SumInAdds
<1> QED
  BY <1>2, <1>4

\* A larger set has a larger sum of naturals.
LEMMA SumInSubset ==
  ASSUME NEW B, IsFiniteSet(B), NEW A \in SUBSET B, NEW f, \A x \in B : f[x] \in Nat
  PROVE  SumIn(f, A) <= SumIn(f, B) /\ SumIn(f, A) \in Nat
<1> DEFINE C == B \ A
<1>1. IsFiniteSet(A) /\ IsFiniteSet(C) /\ A \cap C = {} /\ A \cup C = B
  BY CardParts
<1>2. /\ \A x \in A : f[x] \in Nat
      /\ \A x \in C : f[x] \in Nat
      /\ \A x \in A \cup C : f[x] \in Int
  OBVIOUS
<1> HIDE DEF C
<1>3. SumIn(f, A) \in Nat /\ SumIn(f, C) \in Nat
  BY <1>1, <1>2, SumInTyped
<1>4. SumIn(f, A \cup C) = SumIn(f, A) + SumIn(f, C)
  BY <1>1, <1>2, SumInUnion
<1>5. SumIn(f, B) = SumIn(f, A) + SumIn(f, C)
  BY <1>1, <1>4
<1> QED
  BY <1>3, <1>5

\* What is zero need not be added.
LEMMA SumInSupport ==
  ASSUME NEW B, IsFiniteSet(B), NEW A \in SUBSET B, NEW f, \A x \in B : f[x] \in Int,
         \A x \in B \ A : f[x] = 0
  PROVE  SumIn(f, A) = SumIn(f, B)
<1> DEFINE C == B \ A
<1>1. IsFiniteSet(A) /\ IsFiniteSet(C) /\ A \cap C = {} /\ A \cup C = B
  BY CardParts
<1>2. /\ \A x \in A : f[x] \in Int
      /\ \A x \in C : f[x] = 0
      /\ \A x \in A \cup C : f[x] \in Int
  OBVIOUS
<1> HIDE DEF C
<1>3. SumIn(f, A) \in Int
  BY <1>1, <1>2, SumInTyped
<1>4. SumIn(f, C) = 0
  BY <1>1, <1>2, SumInZero
<1>5. SumIn(f, A \cup C) = SumIn(f, A) + SumIn(f, C)
  BY <1>1, <1>2, SumInUnion
<1>6. SumIn(f, B) = SumIn(f, A) + 0
  BY <1>1, <1>4, <1>5
<1> QED
  BY <1>3, <1>6

\* The sum over the elements is the sum over their classes.
LEMMA SumInPartition ==
  ASSUME NEW S, IsFiniteSet(S), NEW f, \A x \in S : f[x] \in Int,
         NEW K, IsFiniteSet(K), NEW class, \A x \in S : class[x] \in K
  PROVE  SumIn([k \in K |-> SumIn(f, {x \in S : class[x] = k})], K) = SumIn(f, S)
<1> DEFINE Of(k)  == {x \in S : class[x] = k}
           In(T)  == {x \in S : class[x] \in T}
           row    == [k \in K |-> SumIn(f, Of(k))]
           P == {T \in SUBSET K : SumIn(row, T) = SumIn(f, In(T))}
<1>1. \A k \in K : Of(k) \in SUBSET S /\ IsFiniteSet(Of(k))
  BY CardParts
<1>2. \A T \in SUBSET K : In(T) \in SUBSET S /\ IsFiniteSet(In(T))
  BY CardParts
<1>3. \A k \in K : row[k] = SumIn(f, Of(k)) /\ row[k] \in Int
  <2>1. ASSUME NEW k \in K
        PROVE  SumIn(f, Of(k)) \in Int
    <3>1. IsFiniteSet(Of(k)) /\ \A x \in Of(k) : f[x] \in Int
      BY <1>1
    <3> QED
      BY <3>1, SumInTyped
  <2> QED
    BY <2>1
<1>4. In({}) = {} /\ In(K) = S
  OBVIOUS
<1>5. ASSUME NEW T \in SUBSET K, NEW k \in K \ T
      PROVE  In(T \cup {k}) = Of(k) \cup In(T) /\ Of(k) \cap In(T) = {}
  OBVIOUS
<1>6. {} \in P
  BY <1>4, SumInEmpty
<1> HIDE DEF Of, In, row
<1>7. ASSUME NEW T \in SUBSET K, NEW k \in K \ T, T \in P
      PROVE  T \cup {k} \in P
  <2>1. IsFiniteSet(T) /\ SumIn(row, T) = SumIn(f, In(T)) /\ row[k] \in Int
        /\ \A j \in T : row[j] \in Int
    BY <1>3, <1>7, CardParts
  <2>2. SumIn(row, T \cup {k}) = row[k] + SumIn(row, T)
    BY <2>1, SumInAdd
  <2>3. \A x \in Of(k) \cup In(T) : f[x] \in Int
    BY <1>1, <1>2
  <2>4. SumIn(f, Of(k) \cup In(T)) = SumIn(f, Of(k)) + SumIn(f, In(T))
    BY <1>1, <1>2, <1>5, <2>3, SumInUnion
  <2>5. T \cup {k} \in SUBSET K
    OBVIOUS
  <2> QED
    BY <1>3, <1>5, <2>1, <2>2, <2>4, <2>5
<1> HIDE DEF P
<1>8. K \in P
  BY <1>6, <1>7, SubsetInduction
<1>9. SumIn(row, K) = SumIn(f, S)
  BY <1>4, <1>8 DEF P
<1> QED
  BY <1>9 DEF row, Of

\* Rows and columns may be added in either order.
LEMMA SumInSwap ==
  ASSUME NEW A, IsFiniteSet(A), NEW B, IsFiniteSet(B), NEW f,
         \A a \in A, b \in B : f[<<a, b>>] \in Int
  PROVE  SumIn([a \in A |-> SumIn([b \in B |-> f[<<a, b>>]], B)], A)
           = SumIn([b \in B |-> SumIn([a \in A |-> f[<<a, b>>]], A)], B)
<1> DEFINE Row(a)    == SumIn([b \in B |-> f[<<a, b>>]], B)
           Col(b, T) == SumIn([a \in A |-> f[<<a, b>>]], T)
           rows      == [a \in A |-> Row(a)]
           cols(T)   == [b \in B |-> Col(b, T)]
           P == {T \in SUBSET A : SumIn(rows, T) = SumIn(cols(T), B)}
<1>1. \A a \in A : rows[a] = Row(a) /\ Row(a) \in Int
  <2>1. ASSUME NEW a \in A
        PROVE  Row(a) \in Int
    <3>1. \A b \in B : [c \in B |-> f[<<a, c>>]][b] \in Int
      OBVIOUS
    <3> QED
      BY <3>1, SumInTyped
  <2> QED
    BY <2>1
<1>2. ASSUME NEW T \in SUBSET A, NEW b \in B
      PROVE  Col(b, T) \in Int
  <2>1. IsFiniteSet(T) /\ \A a \in T : [c \in A |-> f[<<c, b>>]][a] \in Int
    BY CardParts
  <2> QED
    BY <2>1, SumInTyped
<1>3. {} \in P
  <2>1. \A b \in B : cols({})[b] = 0
    BY SumInEmpty
  <2>2. SumIn(cols({}), B) = 0
    BY <2>1, SumInZero
  <2> QED
    BY <2>2, SumInEmpty
<1>4. ASSUME NEW T \in SUBSET A, NEW x \in A \ T, T \in P
      PROVE  T \cup {x} \in P
  <2> DEFINE new == [b \in B |-> f[<<x, b>>]]
             U == T \cup {x}
  <2>1. IsFiniteSet(T) /\ SumIn(rows, T) = SumIn(cols(T), B) /\ U \in SUBSET A
    BY <1>4, CardParts
  <2>2. ASSUME NEW b \in B
        PROVE  Col(b, U) = f[<<x, b>>] + Col(b, T)
    <3> DEFINE g == [a \in A |-> f[<<a, b>>]]
    <3>1. g[x] = f[<<x, b>>] /\ g[x] \in Int /\ \A y \in T : g[y] \in Int
      OBVIOUS
    <3> HIDE DEF g
    <3>2. SumIn(g, T \cup {x}) = g[x] + SumIn(g, T)
      BY <2>1, <3>1, SumInAdd
    <3> QED
      BY <3>1, <3>2 DEF g
  <2>3. /\ \A b \in B : new[b] \in Int
        /\ \A b \in B : cols(T)[b] \in Int
        /\ \A b \in B : cols(U)[b] = new[b] + cols(T)[b]
    <3>1. \A b \in B : cols(T)[b] = Col(b, T) /\ cols(U)[b] = Col(b, U) /\ new[b] = f[<<x, b>>]
      OBVIOUS
    <3> HIDE DEF Col, cols, new, U
    <3> QED
      BY <1>2, <2>2, <3>1
  <2>4. SumIn(new, B) = Row(x) /\ rows[x] = Row(x)
    OBVIOUS
  <2>5. \A a \in T \cup {x} : rows[a] \in Int
    BY <1>1
  <2> HIDE DEF new, cols, rows, Row, Col
  <2>6. SumIn(cols(U), B) = SumIn(new, B) + SumIn(cols(T), B)
    BY <2>3, SumInAdds
  <2>7. SumIn(rows, T \cup {x}) = rows[x] + SumIn(rows, T)
    BY <2>1, <2>5, SumInAdd
  <2> QED
    BY <2>1, <2>4, <2>6, <2>7
<1> HIDE DEF P
<1>5. A \in P
  BY <1>3, <1>4, SubsetInduction
<1> QED
  BY <1>5 DEF P

\* A list without repetition adds up like the set of its elements.
LEMMA SumInImage ==
  ASSUME NEW I, IsFiniteSet(I), NEW e, \A i, j \in I : e[i] = e[j] => i = j,
         NEW f, \A i \in I : f[e[i]] \in Int
  PROVE  LET R == {e[i] : i \in I}
         IN  IsFiniteSet(R) /\ SumIn([i \in I |-> f[e[i]]], I) = SumIn(f, R)
<1> DEFINE Img(T) == {e[i] : i \in T}
           g == [i \in I |-> f[e[i]]]
           P == {T \in SUBSET I : IsFiniteSet(Img(T)) /\ SumIn(g, T) = SumIn(f, Img(T))}
<1>1. {} \in P
  <2>1. Img({}) = {}
    OBVIOUS
  <2> QED
    BY <2>1, SumInEmpty, CardEmpty
<1>2. ASSUME NEW T \in SUBSET I, NEW x \in I \ T, T \in P
      PROVE  T \cup {x} \in P
  <2>1. IsFiniteSet(T) /\ IsFiniteSet(Img(T)) /\ SumIn(g, T) = SumIn(f, Img(T))
    BY <1>2, CardParts
  <2>2. Img(T \cup {x}) = Img(T) \cup {e[x]} /\ e[x] \notin Img(T)
    OBVIOUS
  <2>3. /\ g[x] = f[e[x]] /\ g[x] \in Int
        /\ \A i \in T : g[i] \in Int
        /\ \A r \in Img(T) : f[r] \in Int
    OBVIOUS
  <2>4. T \cup {x} \in SUBSET I
    OBVIOUS
  <2> HIDE DEF Img, g
  <2>5. SumIn(g, T \cup {x}) = g[x] + SumIn(g, T)
    BY <2>1, <2>3, SumInAdd
  <2>6. IsFiniteSet(Img(T) \cup {e[x]})
        /\ SumIn(f, Img(T) \cup {e[x]}) = f[e[x]] + SumIn(f, Img(T))
    BY <2>1, <2>2, <2>3, SumInAdd
  <2> QED
    BY <2>1, <2>2, <2>3, <2>4, <2>5, <2>6
<1> HIDE DEF P
<1>3. I \in P
  BY <1>1, <1>2, SubsetInduction
<1> QED
  BY <1>3 DEF P
=============================================================================
