-------------------------- MODULE FleetStatusProofs --------------------------
(***************************************************************************)
(* Theorems about FleetStatus, for every number of agents, sessions,       *)
(* outcomes and scores, and for all weights that interlace.                *)
(***************************************************************************)
EXTENDS FleetStatus, FiniteSetTheorems, SequenceTheorems, WellFoundedInduction, TLAPS

(* The library has no induction over numbers that can be used with a named *)
(* set: here it is, from a least element.                                  *)
LEMMA LeastExists ==
    ASSUME NEW S \in SUBSET Nat, S # {}
    PROVE  \E m \in S : \A n \in S : m <= n
<1>1. PICK m \in S : \A n \in S : <<n, m>> \notin OpToRel(<, Nat)
  BY NatLessThanWellFounded, WFMin
<1>2. \A n \in S : ~(n < m)
  BY <1>1 DEF OpToRel
<1> QED BY <1>2

LEMMA Inductive ==
    ASSUME NEW S, NEW n \in Nat, 0 \in S,
           \A i \in 0..(n - 1) : i \in S => i + 1 \in S
    PROVE  0..n \subseteq S
<1> SUFFICES ASSUME (0..n) \ S # {} PROVE FALSE
  OBVIOUS
<1>1. PICK m \in (0..n) \ S : \A k \in (0..n) \ S : m <= k
  <2>1. (0..n) \ S \in SUBSET Nat
    OBVIOUS
  <2> QED BY <2>1, LeastExists
<1>2. m - 1 \in 0..(n - 1) /\ m - 1 \notin S
  BY <1>1
<1> QED BY <1>1, <1>2

-----------------------------------------------------------------------------
(* Total is a sum: there is a function of partial sums that ends in it.    *)

Sums(f, s, n) ==
    /\ f \in [0..n -> Int]
    /\ f[0] = 0
    /\ \A i \in 1..n : f[i] = f[i - 1] + s[i]

LEMMA SumsAsFunction ==
    ASSUME NEW n \in Nat, NEW s, NEW f \in [0..n -> Int]
    PROVE  Sums(f, s, n) <=> f = [i \in 0..n |-> IF i = 0 THEN 0 ELSE f[i - 1] + s[i]]
<1>1. Sums(f, s, n) => f = [i \in 0..n |-> IF i = 0 THEN 0 ELSE f[i - 1] + s[i]]
  BY DEF Sums
<1>2. ASSUME f = [i \in 0..n |-> IF i = 0 THEN 0 ELSE f[i - 1] + s[i]]
      PROVE  Sums(f, s, n)
  <2>1. \A i \in 0..n : f[i] = IF i = 0 THEN 0 ELSE f[i - 1] + s[i]
    BY <1>2
  <2> QED BY <2>1 DEF Sums
<1> QED BY <1>1, <1>2

LEMMA SumsExist ==
    ASSUME NEW n \in Nat, NEW s, \A i \in 1..n : s[i] \in Int
    PROVE  \E f : Sums(f, s, n)
<1> DEFINE S == {m \in 0..n : \E f : Sums(f, s, m)}
<1>1. 0 \in S
  <2>1. Sums([i \in 0..0 |-> 0], s, 0)
    BY DEF Sums
  <2> QED BY <2>1
<1>2. ASSUME NEW m \in 0..(n - 1), m \in S PROVE m + 1 \in S
  <2>1. PICK f : Sums(f, s, m)
    BY <1>2
  <2> DEFINE g == [i \in 0..(m + 1) |-> IF i = m + 1 THEN f[m] + s[m + 1] ELSE f[i]]
  <2>2. Sums(g, s, m + 1)
    BY <2>1 DEF Sums
  <2> QED BY <2>2
<1>3. 0..n \subseteq S
  <2> HIDE DEF S
  <2> QED BY <1>1, <1>2, Inductive
<1> QED BY <1>3

LEMMA TotalIsSum ==
    ASSUME NEW s \in Seq(Int)
    PROVE  \E f : Sums(f, s, Len(s)) /\ Total(s) = f[Len(s)]
<1> DEFINE n == Len(s)
           R(f) == f = [i \in 0..n |-> IF i = 0 THEN 0 ELSE f[i - 1] + s[i]]
           sum == CHOOSE f : R(f)
<1>1. PICK f : Sums(f, s, n)
  BY SumsExist
<1>2. R(sum)
  <2>1. R(f)
    BY <1>1, SumsAsFunction DEF Sums
  <2> HIDE DEF R
  <2> QED BY <2>1
<1>3. Total(s) = sum[n]
  BY DEF Total
<1> HIDE DEF sum
<1>4. \A i \in 0..n : sum[i] = IF i = 0 THEN 0 ELSE sum[i - 1] + s[i]
  BY <1>2
<1>5. sum \in [0..n -> Int]
  <2>1. sum = [i \in 0..n |-> sum[i]]
    BY <1>2
  <2> DEFINE S == {i \in 0..n : sum[i] \in Int}
  <2>3. 0 \in S /\ \A i \in 0..(n - 1) : i \in S => i + 1 \in S
    BY <1>4
  <2>2. 0..n \subseteq S
    <3>1. n \in Nat
      OBVIOUS
    <3> HIDE DEF S, n
    <3> QED BY <2>3, <3>1, Inductive
  <2> QED BY <2>1, <2>2
<1>6. Sums(sum, s, n)
  BY <1>4, <1>5 DEF Sums
<1> QED BY <1>3, <1>6

(* Sums grow with their summands, whatever multiples are compared.         *)
Dominates(s, t, a, b, n) ==
    \A i \in 1..n : s[i] \in Int /\ t[i] \in Int /\ a * s[i] <= b * t[i]

LEMMA SumsCompare ==
    ASSUME NEW n \in Nat, NEW s, NEW t, NEW f, NEW g, Sums(f, s, n), Sums(g, t, n),
           NEW a \in Int, NEW b \in Int, Dominates(s, t, a, b, n)
    PROVE  \A i \in 0..n : a * f[i] <= b * g[i]
<1> DEFINE S == {i \in 0..n : a * f[i] <= b * g[i]}
<1>1. 0 \in S
  BY DEF Sums
<1>2. ASSUME NEW i \in 0..(n - 1), i \in S PROVE i + 1 \in S
  <2>1. f[i + 1] = f[i] + s[i + 1] /\ g[i + 1] = g[i] + t[i + 1]
    BY DEF Sums
  <2>2. f[i] \in Int /\ g[i] \in Int /\ s[i + 1] \in Int /\ t[i + 1] \in Int
    BY DEF Sums, Dominates
  <2>3. a * s[i + 1] <= b * t[i + 1]
    BY DEF Dominates
  <2>4. a * f[i] <= b * g[i]
    BY <1>2
  <2>5. /\ a * (f[i] + s[i + 1]) = a * f[i] + a * s[i + 1]
        /\ b * (g[i] + t[i + 1]) = b * g[i] + b * t[i + 1]
    BY <2>2
  <2>6. /\ a * f[i] \in Int /\ a * s[i + 1] \in Int
        /\ b * g[i] \in Int /\ b * t[i + 1] \in Int
    BY <2>2
  <2> QED BY <2>1, <2>3, <2>4, <2>5, <2>6
<1>3. 0..n \subseteq S
  <2> HIDE DEF S
  <2> QED BY <1>1, <1>2, Inductive
<1> QED BY <1>3

-----------------------------------------------------------------------------
(* Weighted averages of percents.                                          *)

LEMMA WeightsType ==
    ASSUME NEW n \in 1..Len(Weights)
    PROVE  /\ Weights[n] \in Seq(Int) /\ Len(Weights[n]) = n
           /\ n \in Nat
           /\ \A i \in 1..n : Weights[n][i] \in Nat /\ Weights[n][i] > 0
<1>1. Weights[n] \in Seq(Nat \ {0}) /\ Len(Weights[n]) = n
  BY WeightsInterlace
<1>2. n \in Nat
  BY WeightsInterlace
<1>3. \A i \in 1..n : Weights[n][i] \in Nat \ {0}
  BY <1>1
<1>4. Weights[n] \in Seq(Int)
  <2> DEFINE w == Weights[n]
  <2>1. w \in Seq(Nat \ {0})
    BY <1>1
  <2> HIDE DEF w
  <2>2. w \in Seq(Int)
    BY <2>1
  <2> QED BY <2>2 DEF w
<1> QED BY <1>1, <1>2, <1>3, <1>4

(* The weights of n scores rise: those of n - 1 scores lie between them.   *)
LEMMA WeightsRise ==
    ASSUME NEW n \in 1..Len(Weights), NEW i \in 1..(n - 1)
    PROVE  Weights[n][i] <= Weights[n][i + 1]
<1>1. n \in Nat /\ Len(Weights) \in Nat
  BY WeightsInterlace
<1>2. PICK m \in 1..(Len(Weights) - 1) : n = m + 1 /\ i \in 1..m
  BY <1>1
<1>3. Weights[m + 1][i] <= Weights[m][i] /\ Weights[m][i] <= Weights[m + 1][i + 1]
  BY <1>2, WeightsInterlace
<1>4. m \in 1..Len(Weights) /\ i \in 1..n /\ i + 1 \in 1..n
  BY <1>1, <1>2
<1>5. Weights[m][i] \in Nat /\ Weights[n][i] \in Nat /\ Weights[n][i + 1] \in Nat
  BY <1>2, <1>4, WeightsType
<1> QED BY <1>2, <1>3, <1>5

Weighted(s, w) == [i \in 1..Len(s) |-> s[i] * w[i]]

LEMMA PercentOf ==
    ASSUME NEW a \in 0..100, NEW b \in Nat
    PROVE  0 <= a * b /\ a * b <= 100 * b /\ a * b \in Int
OBVIOUS

LEMMA WeightedType ==
    ASSUME NEW n \in 1..Len(Weights), NEW s \in Seq(0..100), Len(s) = n
    PROVE  /\ Weighted(s, Weights[n]) \in Seq(Int)
           /\ Len(Weighted(s, Weights[n])) = n
           /\ \A i \in 1..n : /\ Weighted(s, Weights[n])[i] = s[i] * Weights[n][i]
                              /\ s[i] \in 0..100
                              /\ Weighted(s, Weights[n])[i] \in Int
<1> DEFINE w == Weights[n]
<1>1. n \in Nat /\ \A i \in 1..n : w[i] \in Nat
  BY WeightsType
<1>2. \A i \in 1..n : s[i] \in 0..100
  BY ElementOfSeq
<1> HIDE DEF w
<1>3. \A i \in 1..n : s[i] * w[i] \in Int
  <2> TAKE i \in 1..n
  <2>1. s[i] \in 0..100
    BY <1>2
  <2>2. w[i] \in Nat
    BY <1>1
  <2> QED BY <2>1, <2>2, PercentOf
<1>4. [i \in 1..n |-> s[i] * w[i]] \in Seq(Int)
  BY <1>1, <1>3
<1>5. Weighted(s, w) = [i \in 1..n |-> s[i] * w[i]]
  BY DEF Weighted
<1>6. /\ Weighted(s, w) \in Seq(Int) /\ Len(Weighted(s, w)) = n
      /\ \A i \in 1..n : Weighted(s, w)[i] = s[i] * w[i]
  BY <1>1, <1>4, <1>5
<1> QED BY <1>2, <1>3, <1>6 DEF w

(* Both sums of an average as the ends of partial sums.                    *)
LEMMA AverageIsSums ==
    ASSUME NEW n \in 1..Len(Weights), NEW s \in Seq(0..100), Len(s) = n
    PROVE  \E f, g : /\ Sums(f, Weighted(s, Weights[n]), n)
                     /\ Sums(g, Weights[n], n)
                     /\ WeightedSum(s) = f[n]
                     /\ WeightSum(s) = g[n]
<1>1. PICK f : Sums(f, Weighted(s, Weights[n]), n) /\ Total(Weighted(s, Weights[n])) = f[n]
  BY WeightedType, TotalIsSum
<1>2. PICK g : Sums(g, Weights[n], n) /\ Total(Weights[n]) = g[n]
  BY WeightsType, TotalIsSum
<1>3. WeightSum(s) = Total(Weights[n])
  BY DEF WeightSum, Weight
<1>4. WeightedSum(s) = Total(Weighted(s, Weights[n]))
  BY DEF WeightedSum, Weight, Weighted
<1> QED BY <1>1, <1>2, <1>3, <1>4

LEMMA Product ==
    ASSUME NEW a \in 0..100, NEW b \in Int, NEW c \in Int, b <= c
    PROVE  /\ a * b \in Int /\ a * c \in Int
           /\ a * b <= a * c
           /\ a * c - a * b <= 100 * c - 100 * b
<1>1. PICK d \in Nat : c = b + d
  <2>1. c - b \in Nat /\ c = b + (c - b)
    OBVIOUS
  <2> QED BY <2>1
<1>2. a * c = a * b + a * d
  BY <1>1
<1>3. 0 <= a * d /\ a * d <= 100 * d
  OBVIOUS
<1> QED BY <1>1, <1>2, <1>3

LEMMA AverageIsPercent ==
    ASSUME NEW n \in 1..Len(Weights), NEW s \in Seq(0..100), Len(s) = n
    PROVE  /\ WeightedSum(s) \in Nat
           /\ WeightSum(s) \in Nat \ {0}
           /\ WeightedSum(s) <= 100 * WeightSum(s)
<1>1. PICK f, g : /\ Sums(f, Weighted(s, Weights[n]), n)
                  /\ Sums(g, Weights[n], n)
                  /\ WeightedSum(s) = f[n]
                  /\ WeightSum(s) = g[n]
  BY AverageIsSums
<1> DEFINE w == Weights[n]
           p == Weighted(s, w)
           S == {i \in 0..n : 0 <= f[i] /\ f[i] <= 100 * g[i] /\ (i = 0 \/ g[i] > 0) /\ g[i] >= 0}
<1>2. 0 \in S
  BY <1>1, WeightsType DEF Sums
<1>3. ASSUME NEW i \in 0..(n - 1), i \in S PROVE i + 1 \in S
  <2>1. i + 1 \in 1..n /\ i + 1 \in 0..n
    BY WeightsType
  <2>2. f[i + 1] = f[i] + p[i + 1] /\ g[i + 1] = g[i] + w[i + 1]
    <3>1. \A j \in 1..n : f[j] = f[j - 1] + p[j] /\ g[j] = g[j - 1] + w[j]
      BY <1>1 DEF Sums
    <3> HIDE DEF w, p
    <3>2. (i + 1) - 1 = i
      OBVIOUS
    <3> QED BY <2>1, <3>1, <3>2
  <2>3. f[i] \in Int /\ g[i] \in Int
    BY <1>1 DEF Sums
  <2>4. p[i + 1] = s[i + 1] * w[i + 1] /\ s[i + 1] \in 0..100
    BY <2>1, WeightedType
  <2>5. w[i + 1] \in Nat /\ w[i + 1] > 0
    BY <2>1, WeightsType
  <2>6. 0 <= p[i + 1] /\ p[i + 1] <= 100 * w[i + 1] /\ p[i + 1] \in Int
    <3> HIDE DEF w, p
    <3> QED BY <2>4, <2>5, PercentOf
  <2>7. 0 <= f[i] /\ f[i] <= 100 * g[i] /\ g[i] >= 0
    BY <1>3
  <2>8. 0 <= f[i + 1] /\ f[i + 1] <= 100 * g[i + 1] /\ g[i + 1] > 0
    <3> DEFINE a == f[i]
               b == g[i]
               c == f[i + 1]
               d == g[i + 1]
               x == p[i + 1]
               y == w[i + 1]
    <3>1. /\ a \in Int /\ b \in Int /\ c = a + x /\ d = b + y
          /\ y \in Nat /\ y > 0 /\ x \in Int /\ 0 <= x /\ x <= 100 * y
          /\ 0 <= a /\ a <= 100 * b /\ b >= 0
      BY <2>2, <2>3, <2>5, <2>6, <2>7
    <3>2. 0 <= c /\ c <= 100 * d /\ d > 0
      <4> HIDE DEF a, b, c, d, x, y
      <4> QED BY <3>1
    <3> QED BY <3>2
  <2>9. i + 1 \in 0..n /\ 0 <= f[i + 1] /\ f[i + 1] <= 100 * g[i + 1]
        /\ (i + 1 = 0 \/ g[i + 1] > 0) /\ g[i + 1] >= 0
    <3>1. g[i + 1] \in Int
      BY <1>1, <2>1 DEF Sums
    <3> QED BY <2>1, <2>8, <3>1
  <2> HIDE DEF w, p
  <2> QED BY <2>9
<1>4. n \in S
  <2>1. n \in Nat
    BY WeightsType
  <2>2. 0..n \subseteq S
    <3> HIDE DEF S
    <3> QED BY <1>2, <1>3, <2>1, Inductive
  <2> QED BY <2>1, <2>2
<1>5. f[n] \in Int /\ g[n] \in Int /\ n # 0
  BY <1>1, WeightsType DEF Sums
<1>6. 0 <= f[n] /\ f[n] <= 100 * g[n] /\ g[n] > 0
  BY <1>4, <1>5
<1> QED BY <1>1, <1>5, <1>6

LEMMA SumsStep ==
    ASSUME NEW n \in Nat, NEW s, NEW f, Sums(f, s, n), NEW i \in 0..(n - 1)
    PROVE  /\ f[i + 1] = f[i] + s[i + 1]
           /\ f[0] = 0
           /\ f[i] \in Int /\ f[i + 1] \in Int
           /\ i + 1 \in 1..n
<1>1. \A j \in 1..n : f[j] = f[j - 1] + s[j]
  BY DEF Sums
<1>2. i + 1 \in 1..n /\ (i + 1) - 1 = i /\ i \in 0..n /\ i + 1 \in 0..n
  OBVIOUS
<1> QED BY <1>1, <1>2 DEF Sums

(* A full window: every score but the first moves to a smaller weight, and *)
(* what is lost by that is made up for by the best score at the end.       *)
LEMMA SlideSums ==
    ASSUME NEW n \in 1..Len(Weights),
           NEW h \in Seq(0..100), Len(h) = n, NEW g \in Seq(0..100), Len(g) = n,
           \A i \in 1..(n - 1) : g[i] = h[i + 1],
           NEW f, Sums(f, Weighted(h, Weights[n]), n),
           NEW e, Sums(e, Weighted(g, Weights[n]), n)
    PROVE  \A i \in 0..(n - 1) : /\ e[i] <= f[i + 1]
                                 /\ f[i + 1] - e[i] <= 100 * Weights[n][i + 1]
<1> DEFINE w == Weights[n]
           p == Weighted(h, w)
           q == Weighted(g, w)
           S == {i \in 0..(n - 1) : e[i] <= f[i + 1] /\ f[i + 1] - e[i] <= 100 * w[i + 1]}
<1>0. n \in Nat /\ n > 0 /\ \A i \in 1..n : w[i] \in Nat
  BY WeightsType
<1>1. /\ \A i \in 1..n : p[i] = h[i] * w[i] /\ h[i] \in 0..100
      /\ \A i \in 1..n : q[i] = g[i] * w[i] /\ g[i] \in 0..100
  BY WeightedType
<1>2. \A i \in 0..(n - 1) : /\ f[i + 1] = f[i] + p[i + 1] /\ f[i] \in Int /\ f[i + 1] \in Int
                            /\ e[i + 1] = e[i] + q[i + 1] /\ e[i] \in Int /\ e[i + 1] \in Int
                            /\ f[0] = 0 /\ e[0] = 0
  BY <1>0, SumsStep
<1>3. \A i \in 1..(n - 1) : w[i] <= w[i + 1]
  BY WeightsRise
<1>4. \A i \in 1..(n - 1) : g[i] = h[i + 1]
  OBVIOUS
<1> HIDE DEF w, p, q
<1>5. 0 \in S
  <2> PICK d \in Nat : d = 0
    OBVIOUS
  <2>1. d \in 0..(n - 1) /\ d + 1 = 1 /\ 1 \in 1..n
    BY <1>0
  <2>2. f[1] = p[1] /\ e[0] = 0 /\ f[1] \in Int
    <3>1. f[d + 1] = f[d] + p[d + 1] /\ f[d + 1] \in Int /\ f[d] = 0 /\ e[d] = 0
      BY <1>2, <2>1
    <3>2. f[d + 1] = p[d + 1] \/ p[d + 1] \notin Int
      BY <3>1
    <3>3. h[1] * w[1] \in Int
      BY <1>0, <1>1, <2>1, PercentOf
    <3>4. p[1] \in Int
      BY <1>1, <2>1, <3>3
    <3> QED BY <2>1, <3>1, <3>2, <3>4
  <2>3. 0 <= p[1] /\ p[1] <= 100 * w[1] /\ p[1] \in Int
    <3> DEFINE a == h[1]
               b == w[1]
    <3>1. a \in 0..100 /\ b \in Nat /\ p[1] = a * b
      BY <1>0, <1>1, <2>1
    <3>2. 0 <= a * b /\ a * b <= 100 * b /\ a * b \in Int
      <4> HIDE DEF a, b
      <4> QED BY <3>1, PercentOf
    <3> QED BY <3>1, <3>2
  <2> QED BY <2>1, <2>2, <2>3
<1>6. ASSUME NEW i \in 0..((n - 1) - 1), i \in S PROVE i + 1 \in S
  <2>1. /\ i \in 0..(n - 1) /\ i + 1 \in 0..(n - 1) /\ i + 1 \in 1..(n - 1)
        /\ i + 1 \in 1..n /\ (i + 1) + 1 \in 1..n
    BY <1>0
  <2> DEFINE j == i + 1
             k == j + 1
  <2>2. f[k] = f[j] + p[k] /\ e[j] = e[i] + q[j]
    BY <1>2, <2>1
  <2>3. f[k] \in Int /\ f[j] \in Int /\ e[i] \in Int /\ e[j] \in Int
    BY <1>2, <2>1
  <2>4. q[j] = h[k] * w[j] /\ p[k] = h[k] * w[k] /\ h[k] \in 0..100
    BY <1>1, <1>4, <2>1
  <2>5. w[j] \in Int /\ w[k] \in Int /\ w[j] <= w[k]
    BY <1>0, <1>3, <2>1
  <2>6. e[i] <= f[j] /\ f[j] - e[i] <= 100 * w[j]
    BY <1>6
  <2> HIDE DEF j, k
  <2>7. q[j] <= p[k] /\ p[k] - q[j] <= 100 * w[k] - 100 * w[j] /\ p[k] \in Int /\ q[j] \in Int
    <3> DEFINE a == h[k]
               b == w[j]
               c == w[k]
    <3>1. a \in 0..100 /\ b \in Int /\ c \in Int /\ b <= c /\ q[j] = a * b /\ p[k] = a * c
      BY <2>4, <2>5
    <3>2. /\ a * b \in Int /\ a * c \in Int /\ a * b <= a * c
          /\ a * c - a * b <= 100 * c - 100 * b
      <4> HIDE DEF a, b, c
      <4> QED BY <3>1, Product
    <3> QED BY <3>1, <3>2
  <2>8. e[j] <= f[k] /\ f[k] - e[j] <= 100 * w[k]
    <3> DEFINE a == f[j]
               b == e[i]
               c == f[k]
               d == e[j]
               dp == p[k]
               dq == q[j]
               v1 == w[j]
               w1 == w[k]
    <3>1. /\ a \in Int /\ b \in Int /\ c \in Int /\ d \in Int
          /\ dp \in Int /\ dq \in Int /\ v1 \in Int /\ w1 \in Int
          /\ c = a + dp /\ d = b + dq /\ b <= a /\ a - b <= 100 * v1
          /\ dq <= dp /\ dp - dq <= 100 * w1 - 100 * v1
      BY <2>2, <2>3, <2>5, <2>6, <2>7
    <3>2. d <= c /\ c - d <= 100 * w1
      <4> HIDE DEF a, b, c, d, dp, dq, v1, w1
      <4> QED BY <3>1
    <3> QED BY <3>2
  <2> QED BY <2>1, <2>8 DEF j, k
<1>7. 0..(n - 1) \subseteq S
  <2>1. n - 1 \in Nat
    BY <1>0
  <2> HIDE DEF S
  <2> QED BY <1>5, <1>6, <2>1, Inductive
<1> QED BY <1>7 DEF w

(* A window that grows: every weight falls, and so does what each score    *)
(* lacks to the best.                                                      *)
LEMMA GrowSums ==
    ASSUME NEW n \in 1..(Len(Weights) - 1),
           NEW h \in Seq(0..100), Len(h) = n,
           NEW g \in Seq(0..100), Len(g) = n + 1,
           \A i \in 1..n : g[i] = h[i],
           NEW f, Sums(f, Weighted(h, Weights[n]), n),
           NEW x, Sums(x, Weights[n], n),
           NEW e, Sums(e, Weighted(g, Weights[n + 1]), n + 1),
           NEW y, Sums(y, Weights[n + 1], n + 1)
    PROVE  \A i \in 0..n : /\ e[i] <= f[i]
                           /\ 100 * y[i] - e[i] <= 100 * x[i] - f[i]
                           /\ x[i] <= y[i + 1]
<1> DEFINE w == Weights[n]
           v == Weights[n + 1]
           p == Weighted(h, w)
           q == Weighted(g, v)
           S == {i \in 0..n : /\ e[i] <= f[i]
                              /\ 100 * y[i] - e[i] <= 100 * x[i] - f[i]
                              /\ x[i] <= y[i + 1]}
<1>0. n \in 1..Len(Weights) /\ n + 1 \in 1..Len(Weights) /\ n \in Nat
  BY WeightsInterlace
<1>1. /\ \A i \in 1..n : w[i] \in Nat
      /\ \A i \in 1..(n + 1) : v[i] \in Nat
  BY <1>0, WeightsType
<1>2. /\ \A i \in 1..n : p[i] = h[i] * w[i] /\ h[i] \in 0..100
      /\ \A i \in 1..(n + 1) : q[i] = g[i] * v[i]
  BY <1>0, WeightedType
<1>3. \A i \in 0..(n - 1) : /\ f[i + 1] = f[i] + p[i + 1] /\ f[i] \in Int /\ f[i + 1] \in Int
                            /\ x[i + 1] = x[i] + w[i + 1] /\ x[i] \in Int /\ x[i + 1] \in Int
                            /\ f[0] = 0 /\ x[0] = 0
  BY <1>0, SumsStep
<1>4. \A i \in 0..n : /\ e[i + 1] = e[i] + q[i + 1] /\ e[i] \in Int /\ e[i + 1] \in Int
                      /\ y[i + 1] = y[i] + v[i + 1] /\ y[i] \in Int /\ y[i + 1] \in Int
                      /\ e[0] = 0 /\ y[0] = 0
  <2>1. n + 1 \in Nat /\ (n + 1) - 1 = n
    BY <1>0
  <2> DEFINE m == n + 1
  <2>2. \A i \in 0..(m - 1) :
                      /\ e[i + 1] = e[i] + q[i + 1] /\ e[i] \in Int /\ e[i + 1] \in Int
                      /\ y[i + 1] = y[i] + v[i + 1] /\ y[i] \in Int /\ y[i + 1] \in Int
                      /\ e[0] = 0 /\ y[0] = 0
    <3>1. m \in Nat /\ Sums(e, q, m) /\ Sums(y, v, m)
      BY <2>1
    <3> HIDE DEF m, q, v
    <3> TAKE i \in 0..(m - 1)
    <3>2. e[i + 1] = e[i] + q[i + 1] /\ e[i] \in Int /\ e[i + 1] \in Int /\ e[0] = 0
      BY <3>1, SumsStep
    <3>3. y[i + 1] = y[i] + v[i + 1] /\ y[i] \in Int /\ y[i + 1] \in Int /\ y[0] = 0
      BY <3>1, SumsStep
    <3> QED BY <3>2, <3>3
  <2> QED BY <2>1, <2>2
<1>5. \A i \in 1..n : v[i] <= w[i] /\ w[i] <= v[i + 1] /\ g[i] = h[i]
  BY WeightsInterlace
<1> HIDE DEF w, v, p, q
<1>6. 0 \in S
  <2> PICK d \in Nat : d = 0
    OBVIOUS
  <2>1. d \in 0..n /\ d \in 0..(n - 1) /\ d + 1 \in 1..(n + 1)
    BY <1>0
  <2>2. y[d + 1] = y[d] + v[d + 1] /\ y[d] = 0 /\ e[d] = 0 /\ f[d] = 0 /\ x[d] = 0
    BY <1>3, <1>4, <2>1
  <2>3. v[d + 1] \in Nat
    BY <1>1, <2>1
  <2>4. x[d] <= y[d + 1]
    BY <2>2, <2>3
  <2>5. d \in S
    BY <2>1, <2>2, <2>4
  <2> QED BY <2>5
<1>7. ASSUME NEW i \in 0..(n - 1), i \in S PROVE i + 1 \in S
  <2> DEFINE j == i + 1
             k == j + 1
  <2>1. /\ i \in 0..n /\ j \in 0..n /\ j \in 1..n /\ j \in 1..(n + 1) /\ k \in 1..(n + 1)
    BY <1>0
  <2>2. f[j] = f[i] + p[j] /\ e[j] = e[i] + q[j] /\ x[j] = x[i] + w[j] /\ y[j] = y[i] + v[j]
    BY <1>3, <1>4, <2>1
  <2>3. y[k] = y[j] + v[k]
    BY <1>4, <2>1
  <2>4. /\ f[i] \in Int /\ f[j] \in Int /\ x[i] \in Int /\ x[j] \in Int
        /\ e[i] \in Int /\ e[j] \in Int /\ y[i] \in Int /\ y[j] \in Int /\ y[k] \in Int
    BY <1>3, <1>4, <2>1
  <2>5. q[j] = h[j] * v[j] /\ p[j] = h[j] * w[j] /\ h[j] \in 0..100
    BY <1>2, <1>5, <2>1
  <2>6. w[j] \in Int /\ v[j] \in Int /\ v[k] \in Int /\ v[j] <= w[j] /\ w[j] <= v[k]
    BY <1>1, <1>5, <2>1
  <2>7. e[i] <= f[i] /\ 100 * y[i] - e[i] <= 100 * x[i] - f[i] /\ x[i] <= y[j]
    BY <1>7
  <2> HIDE DEF j, k
  <2>8. q[j] <= p[j] /\ p[j] - q[j] <= 100 * w[j] - 100 * v[j] /\ p[j] \in Int /\ q[j] \in Int
    <3>1. /\ h[j] * v[j] \in Int /\ h[j] * w[j] \in Int
          /\ h[j] * v[j] <= h[j] * w[j]
          /\ h[j] * w[j] - h[j] * v[j] <= 100 * w[j] - 100 * v[j]
      BY <2>5, <2>6, Product
    <3> QED BY <2>5, <3>1
  <2>9. /\ e[j] <= f[j] /\ 100 * y[j] - e[j] <= 100 * x[j] - f[j]
        /\ x[j] <= y[k]
    <3> DEFINE fi == f[i]
               ei == e[i]
               xi == x[i]
               yi == y[i]
               yj == y[j]
               pj == p[j]
               qj == q[j]
               wj == w[j]
               vj == v[j]
               vk == v[k]
    <3>1. /\ fi \in Int /\ ei \in Int /\ xi \in Int /\ yi \in Int /\ yj \in Int
          /\ pj \in Int /\ qj \in Int /\ wj \in Int /\ vj \in Int /\ vk \in Int
          /\ ei <= fi /\ 100 * yi - ei <= 100 * xi - fi /\ xi <= yj /\ yj = yi + vj
          /\ qj <= pj /\ pj - qj <= 100 * wj - 100 * vj /\ wj <= vk
      BY <2>2, <2>4, <2>6, <2>7, <2>8
    <3>2. /\ f[j] = fi + pj /\ e[j] = ei + qj /\ x[j] = xi + wj
          /\ y[j] = yi + vj /\ y[k] = yj + vk
      BY <2>2, <2>3
    <3>3. /\ ei + qj <= fi + pj
          /\ 100 * (yi + vj) - (ei + qj) <= 100 * (xi + wj) - (fi + pj)
          /\ xi + wj <= yj + vk
      <4> HIDE DEF fi, ei, xi, yi, yj, pj, qj, wj, vj, vk
      <4> QED BY <3>1
    <3> HIDE DEF fi, ei, xi, yi, yj, pj, qj, wj, vj, vk
    <3> QED BY <3>2, <3>3
  <2> QED BY <2>1, <2>9 DEF j, k
<1>8. 0..n \subseteq S
  <2> HIDE DEF S
  <2> QED BY <1>0, <1>6, <1>7, Inductive
<1> QED BY <1>8

-----------------------------------------------------------------------------
(* The newest score.                                                       *)

LEMMA LastNIs ==
    ASSUME NEW V, NEW s \in Seq(V), NEW k \in Nat \ {0}
    PROVE  /\ LastN(s, k) \in Seq(V)
           /\ Len(s) <= k => Len(LastN(s, k)) = Len(s)
           /\ Len(s) > k => Len(LastN(s, k)) = k
           /\ \A i \in 1..Len(LastN(s, k)) :
                LastN(s, k)[i] = s[i + (Len(s) - Len(LastN(s, k)))]
<1> DEFINE n == Len(s)
           d == IF n > k THEN n - k ELSE 0
           m == 1 + d
           t == SubSeq(s, m, n)
<1>1. /\ n \in Nat /\ d \in Nat /\ d <= n /\ m = 1 + d /\ m \in Int
      /\ n <= k => d = 0
      /\ n > k => d = n - k
  OBVIOUS
<1>2. \A i \in m..n : s[i] \in V
  BY <1>1, ElementOfSeq
<1>3. LastN(s, k) = t
  BY DEF LastN
<1> HIDE DEF n, d, m
<1>4. /\ t \in Seq(V)
      /\ Len(t) = n - d
      /\ \A i \in 1..(n - d) : t[i] = s[i + d]
  <2>1. /\ t \in Seq(V)
        /\ Len(t) = IF m <= n THEN n - m + 1 ELSE 0
        /\ \A i \in 1..(n - m + 1) : t[i] = s[m + i - 1]
    BY <1>1, <1>2, SubSeqProperties
  <2> HIDE DEF t
  <2>2. Len(t) = n - d /\ n - m + 1 = n - d
    BY <1>1, <2>1
  <2>3. \A i \in 1..(n - d) : m + i - 1 = i + d
    BY <1>1
  <2> QED BY <2>1, <2>2, <2>3
<1>5. n - Len(t) = d
  <2> HIDE DEF t
  <2> QED BY <1>1, <1>4
<1>6. Len(s) = n
  BY DEF n
<1> HIDE DEF t
<1>7. (n <= k => Len(t) = n) /\ (n > k => Len(t) = k)
  BY <1>1, <1>4
<1> QED BY <1>3, <1>4, <1>5, <1>6, <1>7

LEMMA Times ==
    ASSUME NEW a \in Nat, NEW b \in Nat, NEW c \in Nat, NEW d \in Nat, a <= b, c <= d
    PROVE  a * c <= b * d
<1>1. PICK p \in Nat : b = a + p
  <2>1. b - a \in Nat /\ b = a + (b - a)
    OBVIOUS
  <2> QED BY <2>1
<1>2. PICK q \in Nat : d = c + q
  <2>1. d - c \in Nat /\ d = c + (d - c)
    OBVIOUS
  <2> QED BY <2>1
<1>3. b * d = a * c + a * q + p * c + p * q
  BY <1>1, <1>2
<1>4. a * q >= 0 /\ p * c >= 0 /\ p * q >= 0 /\ a * c \in Nat
  OBVIOUS
<1> QED BY <1>3, <1>4

(* One weighted average is no higher than another.                         *)
Cross(g, h) == WeightedSum(g) * WeightSum(h) <= WeightedSum(h) * WeightSum(g)

(* g is h, one place on.                                                   *)
Slides(h, g, n) == \A i \in 1..(n - 1) : g[i] = h[i + 1]

LEMMA FullWindow ==
    ASSUME NEW n \in 1..Len(Weights),
           NEW h \in Seq(0..100), Len(h) = n, NEW g \in Seq(0..100), Len(g) = n,
           Slides(h, g, n)
    PROVE  /\ g[n] = 0 => Cross(g, h)
           /\ g[n] = 100 => Cross(h, g)
<1>1. PICK f : Sums(f, Weighted(h, Weights[n]), n) /\ WeightedSum(h) = f[n]
  BY AverageIsSums
<1>2. PICK e : Sums(e, Weighted(g, Weights[n]), n) /\ WeightedSum(g) = e[n]
  BY AverageIsSums
<1>3. n \in Nat /\ n > 0 /\ Weights[n][n] \in Nat
  BY WeightsType
<1>4. PICK m \in 0..(n - 1) : m + 1 = n
  <2>1. n - 1 \in 0..(n - 1) /\ (n - 1) + 1 = n
    BY <1>3
  <2> QED BY <2>1
<1>5. e[m] <= f[n] /\ f[n] - e[m] <= 100 * Weights[n][n]
  <2>1. \A i \in 0..(n - 1) : e[i] <= f[i + 1] /\ f[i + 1] - e[i] <= 100 * Weights[n][i + 1]
    BY <1>1, <1>2, SlideSums DEF Slides
  <2> QED BY <1>4, <2>1
<1>6. /\ e[n] = e[m] + Weighted(g, Weights[n])[n]
      /\ e[m] \in Int /\ e[n] \in Int /\ f[n] \in Int
  <2>1. e[m + 1] = e[m] + Weighted(g, Weights[n])[m + 1] /\ e[m] \in Int /\ e[m + 1] \in Int
    BY <1>2, <1>3, SumsStep
  <2>2. f[n] \in Int
    BY <1>1, <1>3 DEF Sums
  <2> QED BY <1>4, <2>1, <2>2
<1>7. Weighted(g, Weights[n])[n] = g[n] * Weights[n][n]
  BY <1>3, WeightedType
<1>8. /\ g[n] = 0 => e[n] <= f[n]
      /\ g[n] = 100 => f[n] <= e[n]
  <2> DEFINE w == Weights[n][n]
             a == e[m]
             b == e[n]
             c == f[n]
  <2>1. w \in Nat /\ a \in Int /\ b \in Int /\ c \in Int /\ a <= c /\ c - a <= 100 * w
    BY <1>3, <1>5, <1>6
  <2>2. b = a + g[n] * w
    BY <1>6, <1>7
  <2>3. (g[n] = 0 => b <= c) /\ (g[n] = 100 => c <= b)
    <3> HIDE DEF w, a, b, c
    <3> QED BY <2>1, <2>2
  <2> QED BY <2>3
<1>9. WeightSum(g) = WeightSum(h)
  BY DEF WeightSum, Weight
<1>10. WeightedSum(g) \in Nat /\ WeightedSum(h) \in Nat /\ WeightSum(h) \in Nat
  BY AverageIsPercent
<1>11. /\ WeightedSum(g) <= WeightedSum(h) => Cross(g, h)
       /\ WeightedSum(h) <= WeightedSum(g) => Cross(h, g)
  <2> DEFINE a == WeightedSum(g)
             b == WeightedSum(h)
             c == WeightSum(h)
  <2>1. a \in Nat /\ b \in Nat /\ c \in Nat /\ WeightSum(g) = c
    BY <1>9, <1>10
  <2>2. (a <= b => a * c <= b * c) /\ (b <= a => b * c <= a * c)
    <3> HIDE DEF a, b, c
    <3>1. c <= c
      BY <2>1
    <3> QED BY <2>1, <3>1, Times
  <2>3. (Cross(g, h) <=> a * c <= b * c) /\ (Cross(h, g) <=> b * c <= a * c)
    BY <2>1 DEF Cross
  <2> QED BY <2>2, <2>3
<1> QED BY <1>1, <1>2, <1>8, <1>11

LEMMA CrossWithBest ==
    ASSUME NEW f \in Nat, NEW x \in Nat, NEW e \in Nat, NEW y \in Nat,
           e <= 100 * y, 100 * y - e <= 100 * x - f, x <= y
    PROVE  f * y <= e * x
<1> DEFINE a == 100 * y - e
           b == 100 * x - f
<1>1. a \in Nat /\ b \in Nat /\ a <= b
  OBVIOUS
<1>2. a * x <= b * y
  <2> HIDE DEF a, b
  <2> QED BY <1>1, Times
<1>3. a * x = 100 * (y * x) - e * x /\ b * y = 100 * (y * x) - f * y
  OBVIOUS
<1>4. y * x \in Int /\ e * x \in Int /\ f * y \in Int
  OBVIOUS
<1> QED BY <1>2, <1>3, <1>4

LEMMA GrowingWindow ==
    ASSUME NEW n \in 1..(Len(Weights) - 1),
           NEW h \in Seq(0..100), Len(h) = n,
           NEW g \in Seq(0..100), Len(g) = n + 1,
           \A i \in 1..n : g[i] = h[i]
    PROVE  /\ g[n + 1] = 0 => Cross(g, h)
           /\ g[n + 1] = 100 => Cross(h, g)
<1>0. n \in 1..Len(Weights) /\ n + 1 \in 1..Len(Weights) /\ n \in Nat /\ n + 1 \in Nat
  BY WeightsInterlace
<1>1. PICK f, x : /\ Sums(f, Weighted(h, Weights[n]), n) /\ WeightedSum(h) = f[n]
                  /\ Sums(x, Weights[n], n) /\ WeightSum(h) = x[n]
  BY <1>0, AverageIsSums
<1>2. PICK e, y : /\ Sums(e, Weighted(g, Weights[n + 1]), n + 1) /\ WeightedSum(g) = e[n + 1]
                  /\ Sums(y, Weights[n + 1], n + 1) /\ WeightSum(g) = y[n + 1]
  BY <1>0, AverageIsSums
<1>3. e[n] <= f[n] /\ 100 * y[n] - e[n] <= 100 * x[n] - f[n] /\ x[n] <= y[n + 1]
  <2>1. n \in 0..n
    BY <1>0
  <2> QED BY <1>1, <1>2, <2>1, GrowSums
<1>4. /\ e[n + 1] = e[n] + Weighted(g, Weights[n + 1])[n + 1] /\ e[n] \in Int
      /\ y[n + 1] = y[n] + Weights[n + 1][n + 1] /\ y[n] \in Int
  <2> DEFINE m == n + 1
             p == Weighted(g, Weights[m])
             w == Weights[m]
  <2>1. m \in Nat /\ n \in 0..(m - 1) /\ Sums(e, p, m) /\ Sums(y, w, m)
    BY <1>0, <1>2
  <2>2. e[n + 1] = e[n] + p[n + 1] /\ e[n] \in Int /\ y[n + 1] = y[n] + w[n + 1] /\ y[n] \in Int
    <3> HIDE DEF m, p, w
    <3> QED BY <2>1, SumsStep
  <2> QED BY <2>2
<1>5. /\ Weighted(g, Weights[n + 1])[n + 1] = g[n + 1] * Weights[n + 1][n + 1]
      /\ Weights[n + 1][n + 1] \in Nat
  <2>1. n + 1 \in 1..(n + 1)
    BY <1>0
  <2> QED BY <1>0, <2>1, WeightedType, WeightsType
<1>6. /\ WeightedSum(g) \in Nat /\ WeightSum(g) \in Nat /\ WeightedSum(g) <= 100 * WeightSum(g)
      /\ WeightedSum(h) \in Nat /\ WeightSum(h) \in Nat
  BY <1>0, AverageIsPercent
<1> DEFINE fn == f[n]
           xn == x[n]
           en == e[n]
           yn == y[n]
           em == e[n + 1]
           ym == y[n + 1]
           wm == Weights[n + 1][n + 1]
<1>7. /\ fn \in Nat /\ xn \in Nat /\ em \in Nat /\ ym \in Nat /\ em <= 100 * ym
      /\ en \in Int /\ yn \in Int /\ wm \in Nat
      /\ em = en + g[n + 1] * wm /\ ym = yn + wm
      /\ en <= fn /\ 100 * yn - en <= 100 * xn - fn /\ xn <= ym
  BY <1>1, <1>2, <1>3, <1>4, <1>5, <1>6
<1>8. ASSUME g[n + 1] = 0 PROVE em * xn <= fn * ym
  <2> HIDE DEF fn, xn, en, yn, em, ym, wm
  <2>1. em <= fn
    BY <1>7, <1>8
  <2> QED BY <1>7, <2>1, Times
<1>9. ASSUME g[n + 1] = 100 PROVE fn * ym <= em * xn
  <2> HIDE DEF fn, xn, en, yn, em, ym, wm
  <2>1. 100 * ym - em <= 100 * xn - fn
    BY <1>7, <1>9
  <2> QED BY <1>7, <2>1, CrossWithBest
<1>10. /\ Cross(g, h) <=> em * xn <= fn * ym
       /\ Cross(h, g) <=> fn * ym <= em * xn
  BY <1>1, <1>2 DEF Cross
<1> QED BY <1>8, <1>9, <1>10

(* What is compared with the bounds of health rises with the average.      *)
LEMMA Ratio ==
    ASSUME NEW a \in Nat, NEW b \in Nat, NEW x \in Nat \ {0}, NEW y \in Nat \ {0},
           NEW d \in Nat, a * y <= b * x, a >= d * x
    PROVE  b >= d * y
<1> SUFFICES ASSUME b + 1 <= d * y PROVE FALSE
  <2>1. d * y \in Nat
    OBVIOUS
  <2> QED BY <2>1
<1>1. (b + 1) * x <= (d * y) * x
  <2>1. d * y \in Nat /\ b + 1 \in Nat /\ x <= x
    OBVIOUS
  <2> DEFINE p == d * y
             q == b + 1
  <2>2. q * x <= p * x
    <3> HIDE DEF p, q
    <3> QED BY <2>1, Times DEF p, q
  <2> QED BY <2>2
<1>2. (d * x) * y <= a * y
  <2>1. d * x \in Nat /\ y <= y
    OBVIOUS
  <2> DEFINE p == d * x
  <2>2. p * y <= a * y
    <3> HIDE DEF p
    <3> QED BY <2>1, Times DEF p
  <2> QED BY <2>2
<1>3. (d * y) * x = (d * x) * y /\ (b + 1) * x = b * x + x
  OBVIOUS
<1>4. b * x \in Int /\ a * y \in Int /\ (d * x) * y \in Int
  OBVIOUS
<1> QED BY <1>1, <1>2, <1>3, <1>4

LEMMA HealthFollows ==
    ASSUME NEW g \in Seq(0..100), Len(g) \in 1..Len(Weights),
           NEW h \in Seq(0..100), Len(h) \in 1..Len(Weights), Cross(g, h)
    PROVE  Rank(Health(g)) <= Rank(Health(h))
<1>1. /\ WeightedSum(g) \in Nat /\ WeightSum(g) \in Nat \ {0}
      /\ WeightedSum(h) \in Nat /\ WeightSum(h) \in Nat \ {0}
  BY AverageIsPercent
<1>2. Degraded \in Nat /\ Critical \in Nat
  BY FleetAssumption
<1>3. \A d \in {Degraded, Critical} :
        WeightedSum(g) >= d * WeightSum(g) => WeightedSum(h) >= d * WeightSum(h)
  BY <1>1, <1>2, Ratio DEF Cross
<1>4. g # <<>> /\ h # <<>>
  BY WeightsInterlace
<1>5. /\ Rank("critical") = 0 /\ Rank("degraded") = 1 /\ Rank("healthy") = 2
  BY DEF Rank
<1> QED BY <1>3, <1>4, <1>5 DEF Health

(* One more score at the end of the window moves the average its way.      *)
LEMMA NewestMoves ==
    ASSUME NEW window \in 1..Len(Weights), NEW n \in 1..window,
           NEW h \in Seq(0..100), Len(h) = n, NEW x \in 0..100
    PROVE  /\ LastN(h, window) \in Seq(0..100)
           /\ Len(LastN(h, window)) \in 1..Len(Weights)
           /\ LastN(Append(h, x), window) \in Seq(0..100)
           /\ Len(LastN(Append(h, x), window)) \in 1..Len(Weights)
           /\ x = 0 => Cross(LastN(Append(h, x), window), LastN(h, window))
           /\ x = 100 => Cross(LastN(h, window), LastN(Append(h, x), window))
<1> DEFINE old == LastN(h, window)
           more == Append(h, x)
           new == LastN(more, window)
<1>0. /\ Len(Weights) \in Nat /\ window \in Nat \ {0} /\ window \in 1..Len(Weights)
      /\ n \in Nat \ {0} /\ n <= window
  BY WeightsInterlace
<1>1. /\ more \in Seq(0..100) /\ Len(more) = n + 1
      /\ \A i \in 1..n : more[i] = h[i]
      /\ more[n + 1] = x
  BY AppendProperties
<1> HIDE DEF more
<1>2. /\ old \in Seq(0..100) /\ Len(old) = n
      /\ \A i \in 1..n : old[i] = h[i]
  <2>1. /\ old \in Seq(0..100) /\ (Len(h) <= window => Len(old) = Len(h))
        /\ \A i \in 1..Len(old) : old[i] = h[i + (Len(h) - Len(old))]
    BY <1>0, LastNIs
  <2> HIDE DEF old
  <2>2. Len(old) = n /\ Len(h) - Len(old) = 0
    BY <1>0, <2>1
  <2>3. \A i \in 1..n : i + 0 = i
    OBVIOUS
  <2> QED BY <2>1, <2>2, <2>3
<1>3. /\ new \in Seq(0..100)
      /\ Len(more) <= window => Len(new) = Len(more)
      /\ Len(more) > window => Len(new) = window
      /\ \A i \in 1..Len(new) : new[i] = more[i + (Len(more) - Len(new))]
  BY <1>0, <1>1, LastNIs
<1> HIDE DEF old, new
<1>4. CASE n = window
  <2>1. Len(new) = n /\ Len(more) - Len(new) = 1
    BY <1>0, <1>1, <1>3, <1>4
  <2>2. \A i \in 1..n : new[i] = more[i + 1]
    BY <1>3, <2>1
  <2>3. new[n] = x /\ \A i \in 1..(n - 1) : new[i] = old[i + 1]
    <3>1. n \in 1..n /\ \A i \in 1..(n - 1) : i \in 1..n /\ i + 1 \in 1..n
      BY <1>0
    <3>2. \A i \in 1..(n - 1) : new[i] = more[i + 1] /\ more[i + 1] = h[i + 1] /\ old[i + 1] = h[i + 1]
      BY <1>1, <1>2, <2>2, <3>1
    <3> QED BY <1>1, <2>2, <3>1, <3>2
  <2>4. n \in 1..Len(Weights)
    BY <1>0
  <2>5. (new[n] = 0 => Cross(new, old)) /\ (new[n] = 100 => Cross(old, new))
    <3>1. /\ old \in Seq(0..100) /\ Len(old) = n /\ new \in Seq(0..100) /\ Len(new) = n
          /\ Slides(old, new, n)
      BY <1>2, <1>3, <2>1, <2>3 DEF Slides
    <3> QED BY <2>4, <3>1, FullWindow
  <2> QED BY <1>2, <1>3, <2>1, <2>3, <2>4, <2>5 DEF old, new, more
<1>5. CASE n < window
  <2>1. Len(new) = n + 1 /\ Len(more) - Len(new) = 0
    BY <1>0, <1>1, <1>3, <1>5
  <2>2. \A i \in 1..(n + 1) : new[i] = more[i]
    <3>1. \A i \in 1..(n + 1) : i + 0 = i
      BY <1>0
    <3> QED BY <1>3, <2>1, <3>1
  <2>3. new[n + 1] = x /\ \A i \in 1..n : new[i] = old[i]
    <3>1. n + 1 \in 1..(n + 1) /\ \A i \in 1..n : i \in 1..(n + 1)
      BY <1>0
    <3> QED BY <1>1, <1>2, <2>2, <3>1
  <2>4. n \in 1..(Len(Weights) - 1) /\ n \in 1..Len(Weights) /\ n + 1 \in 1..Len(Weights)
    BY <1>0, <1>5
  <2>5. (new[n + 1] = 0 => Cross(new, old)) /\ (new[n + 1] = 100 => Cross(old, new))
    BY <1>2, <1>3, <2>1, <2>3, <2>4, GrowingWindow
  <2> QED BY <1>2, <1>3, <2>1, <2>3, <2>4, <2>5 DEF old, new, more
<1> QED BY <1>0, <1>4, <1>5

LEMMA Histories0To100 ==
    ASSUME NEW n \in Nat, NEW h \in [1..n -> {0, 50, 100}]
    PROVE  h \in Seq(0..100) /\ Len(h) = n
<1>1. \A i \in 1..n : h[i] \in 0..100
  OBVIOUS
<1> QED BY <1>1

LEMMA NewestScore == NewestScoreMovesTheRightWay
<1> SUFFICES ASSUME NEW window \in DOMAIN Weights, NEW n \in 1..window,
                    NEW h \in [1..n -> {0, 50, 100}]
             PROVE  /\ Cross(LastN(Append(h, 0), window), LastN(h, window))
                    /\ Rank(Health(LastN(Append(h, 0), window))) <= Rank(Health(LastN(h, window)))
                    /\ Cross(LastN(h, window), LastN(Append(h, 100), window))
                    /\ Rank(Health(LastN(h, window))) <= Rank(Health(LastN(Append(h, 100), window)))
  BY DEF NewestScoreMovesTheRightWay, Cross
<1>1. window \in 1..Len(Weights) /\ window \in Nat /\ n \in Nat
  BY WeightsInterlace
<1>2. h \in Seq(0..100) /\ Len(h) = n
  BY <1>1, Histories0To100
<1>3. \A x \in 0..100 :
           /\ LastN(h, window) \in Seq(0..100)
           /\ Len(LastN(h, window)) \in 1..Len(Weights)
           /\ LastN(Append(h, x), window) \in Seq(0..100)
           /\ Len(LastN(Append(h, x), window)) \in 1..Len(Weights)
           /\ x = 0 => Cross(LastN(Append(h, x), window), LastN(h, window))
           /\ x = 100 => Cross(LastN(h, window), LastN(Append(h, x), window))
  BY <1>1, <1>2, NewestMoves
<1> DEFINE old == LastN(h, window)
           Falls(x) == LastN(Append(h, x), window)
           low == Falls(0)
           high == Falls(100)
<1>4. /\ old \in Seq(0..100) /\ Len(old) \in 1..Len(Weights)
      /\ low \in Seq(0..100) /\ Len(low) \in 1..Len(Weights)
      /\ high \in Seq(0..100) /\ Len(high) \in 1..Len(Weights)
      /\ Cross(low, old) /\ Cross(old, high)
  <2>1. 0 \in 0..100 /\ 100 \in 0..100
    OBVIOUS
  <2> HIDE DEF Falls
  <2>2. \A x \in 0..100 : Falls(x) = LastN(Append(h, x), window)
    BY DEF Falls
  <2> QED BY <1>3, <2>1, <2>2
<1> HIDE DEF old, low, high
<1>5. Rank(Health(low)) <= Rank(Health(old)) /\ Rank(Health(old)) <= Rank(Health(high))
  BY <1>4, HealthFollows
<1> QED BY <1>4, <1>5 DEF old, low, high

(* What the newest score does to an agent's average and health holds for   *)
(* every window the weights are known for, not for six scores only.        *)
THEOREM NewestScoreIsHeeded == Spec => []NewestScoreMovesTheRightWay
<1> QED BY NewestScore, PTL

-----------------------------------------------------------------------------
(* The trend.                                                              *)

LEMMA TotalBounds ==
    ASSUME NEW s \in Seq(Int), NEW c \in Int
    PROVE  /\ Total(s) \in Int
           /\ (\A i \in 1..Len(s) : s[i] <= c) => Total(s) <= c * Len(s)
           /\ (\A i \in 1..Len(s) : s[i] >= c) => Total(s) >= c * Len(s)
<1> DEFINE n == Len(s)
           ones == [i \in 1..n |-> 1]
           g == [i \in 0..n |-> i]
<1>1. PICK f : Sums(f, s, n) /\ Total(s) = f[n]
  BY TotalIsSum
<1>2. n \in Nat /\ \A i \in 1..n : s[i] \in Int /\ ones[i] = 1 /\ ones[i] \in Int
  BY ElementOfSeq
<1>3. Sums(g, ones, n) /\ g[n] = n /\ n \in 0..n
  BY <1>2 DEF Sums
<1>4. f[n] \in Int
  BY <1>1, <1>2 DEF Sums
<1> HIDE DEF n, ones, g
<1> PICK u \in Int : u = 1
  OBVIOUS
<1>5. ASSUME \A i \in 1..n : s[i] <= c PROVE f[n] <= c * n
  <2>1. Dominates(s, ones, u, c, n)
    BY <1>2, <1>5 DEF Dominates
  <2>3. \A i \in 0..n : u * f[i] <= c * g[i]
    BY <1>1, <1>2, <1>3, <2>1, SumsCompare
  <2>2. u * f[n] <= c * g[n]
    BY <1>3, <2>3
  <2> QED BY <1>3, <1>4, <2>2
<1>6. ASSUME \A i \in 1..n : s[i] >= c PROVE f[n] >= c * n
  <2>1. Dominates(ones, s, c, u, n)
    BY <1>2, <1>6 DEF Dominates
  <2>3. \A i \in 0..n : c * g[i] <= u * f[i]
    BY <1>1, <1>2, <1>3, <2>1, SumsCompare
  <2>2. c * g[n] <= u * f[n]
    BY <1>3, <2>3
  <2> QED BY <1>3, <1>4, <2>2
<1> QED BY <1>1, <1>4, <1>5, <1>6 DEF n

(* A list that never falls from one place to the next never falls at all.  *)
LEMMA NeverFalls ==
    ASSUME NEW n \in Nat, NEW h, \A i \in 1..n : h[i] \in Int,
           \A i \in 2..n : h[i - 1] <= h[i]
    PROVE  \A i, j \in 1..n : i <= j => h[i] <= h[j]
<1> SUFFICES ASSUME NEW i \in 1..n PROVE \A j \in 1..n : i <= j => h[i] <= h[j]
  OBVIOUS
<1> DEFINE S == {d \in 0..(n - i) : h[i] <= h[i + d]}
<1>1. 0 \in S
  OBVIOUS
<1>2. ASSUME NEW d \in 0..((n - i) - 1), d \in S PROVE d + 1 \in S
  <2>1. i + (d + 1) \in 2..n /\ (i + (d + 1)) - 1 = i + d /\ i + d \in 1..n
        /\ d + 1 \in 0..(n - i)
    OBVIOUS
  <2>2. h[i + d] <= h[i + (d + 1)]
    <3>1. h[(i + (d + 1)) - 1] <= h[i + (d + 1)]
      BY <2>1
    <3> QED BY <2>1, <3>1
  <2>3. h[i] \in Int /\ h[i + d] \in Int /\ h[i + (d + 1)] \in Int /\ h[i] <= h[i + d]
    <3>1. i + (d + 1) \in 1..n
      BY <2>1
    <3> QED BY <1>2, <2>1, <3>1
  <2>4. h[i] <= h[i + (d + 1)]
    BY <2>2, <2>3
  <2> QED BY <2>1, <2>4
<1>3. 0..(n - i) \subseteq S
  <2> HIDE DEF S
  <2>1. n - i \in Nat
    OBVIOUS
  <2> QED BY <1>1, <1>2, <2>1, Inductive
<1> TAKE j \in 1..n
<1> HAVE i <= j
<1>4. j - i \in 0..(n - i) /\ i + (j - i) = j
  OBVIOUS
<1> QED BY <1>3, <1>4

LEMMA NeverRises ==
    ASSUME NEW n \in Nat, NEW h, \A i \in 1..n : h[i] \in Int,
           \A i \in 2..n : h[i - 1] >= h[i]
    PROVE  \A i, j \in 1..n : i <= j => h[i] >= h[j]
<1> DEFINE g == [i \in 1..n |-> -h[i]]
<1>1. \A i \in 1..n : g[i] \in Int /\ g[i] = -h[i]
  OBVIOUS
<1>2. \A i \in 2..n : g[i - 1] <= g[i]
  <2> TAKE i \in 2..n
  <2>1. i \in 1..n /\ i - 1 \in 1..n /\ h[i - 1] >= h[i]
    OBVIOUS
  <2> QED BY <1>1, <2>1
<1>3. \A i, j \in 1..n : i <= j => g[i] <= g[j]
  <2> HIDE DEF g
  <2> QED BY <1>1, <1>2, NeverFalls
<1> QED BY <1>1, <1>3

LEMMA GainSign ==
    ASSUME NEW a \in Nat, NEW b \in Nat, NEW c \in Int, NEW p \in Int, NEW q \in Int
    PROVE  /\ p <= c * a /\ q >= c * b => q * a - p * b >= 0
           /\ p >= c * a /\ q <= c * b => q * a - p * b <= 0
           /\ a * b \in Nat /\ q * a - p * b \in Int
<1> DEFINE x == c * a
           y == c * b
<1>1. y * a = x * b /\ x \in Int /\ y \in Int
  OBVIOUS
<1>2. x * b \in Int /\ y * a \in Int /\ q * a \in Int /\ p * b \in Int /\ a * b \in Nat
  OBVIOUS
<1> HIDE DEF x, y
<1>3. /\ p <= x => p * b <= x * b
      /\ p >= x => p * b >= x * b
      /\ q <= y => q * a <= y * a
      /\ q >= y => q * a >= y * a
  <2>1. \A u, v \in Int, w \in Nat : u <= v => u * w <= v * w
    <3> TAKE u, v \in Int, w \in Nat
    <3> HAVE u <= v
    <3>1. PICK d \in Nat : v = u + d
      <4>1. v - u \in Nat /\ v = u + (v - u)
        OBVIOUS
      <4> QED BY <4>1
    <3>2. v * w = u * w + d * w /\ d * w >= 0 /\ u * w \in Int /\ d * w \in Int
      BY <3>1
    <3> QED BY <3>2
  <2> QED BY <1>1, <2>1
<1> QED BY <1>1, <1>2, <1>3 DEF x, y

LEMMA HalvesIs ==
    ASSUME NEW n \in Nat \ {0}, NEW h \in Seq(Int), Len(h) = n
    PROVE  \E mid \in 0..(n - 1) :
             /\ Halves(h).first \in Seq(Int) /\ Len(Halves(h).first) = mid
             /\ \A i \in 1..mid : Halves(h).first[i] = h[i]
             /\ Halves(h).second \in Seq(Int) /\ Len(Halves(h).second) = n - mid
             /\ \A i \in 1..(n - mid) : Halves(h).second[i] = h[mid + i]
<1> DEFINE mid == n \div 2
           k == mid + 1
           s == SubSeq(h, 1, mid)
           t == SubSeq(h, k, n)
<1>1. mid \in 0..(n - 1) /\ mid \in Int /\ n \in Int /\ k = mid + 1 /\ k \in Int
  OBVIOUS
<1>2. Halves(h).first = s /\ Halves(h).second = t
  BY DEF Halves
<1> HIDE DEF mid, k
<1>3. \A i \in 1..n : h[i] \in Int
  BY ElementOfSeq
<1>4. s \in Seq(Int) /\ Len(s) = mid /\ \A i \in 1..mid : s[i] = h[i]
  <2> PICK u \in Int : u = 1
    OBVIOUS
  <2>1. \A i \in u..mid : h[i] \in Int
    BY <1>1, <1>3
  <2>2. /\ SubSeq(h, u, mid) \in Seq(Int)
        /\ Len(SubSeq(h, u, mid)) = IF u <= mid THEN mid - u + 1 ELSE 0
        /\ \A i \in 1..(mid - u + 1) : SubSeq(h, u, mid)[i] = h[u + i - 1]
    BY <1>1, <2>1, SubSeqProperties
  <2>3. s = SubSeq(h, u, mid)
    OBVIOUS
  <2> HIDE DEF s
  <2>4. mid - u + 1 = mid /\ \A i \in 1..mid : u + i - 1 = i
    BY <1>1
  <2> QED BY <1>1, <2>2, <2>3, <2>4
<1>5. t \in Seq(Int) /\ Len(t) = n - mid /\ \A i \in 1..(n - mid) : t[i] = h[mid + i]
  <2>1. \A i \in k..n : h[i] \in Int
    BY <1>1, <1>3
  <2>2. /\ t \in Seq(Int)
        /\ Len(t) = IF k <= n THEN n - k + 1 ELSE 0
        /\ \A i \in 1..(n - k + 1) : t[i] = h[k + i - 1]
    BY <1>1, <2>1, SubSeqProperties
  <2> HIDE DEF t
  <2>3. n - k + 1 = n - mid /\ \A i \in 1..(n - mid) : k + i - 1 = mid + i
    BY <1>1
  <2>4. k <= n
    BY <1>1
  <2>5. Len(t) = n - mid
    BY <2>2, <2>3, <2>4
  <2>6. \A i \in 1..(n - mid) : t[i] = h[mid + i]
    BY <2>2, <2>3
  <2> QED BY <2>2, <2>5, <2>6
<1> HIDE DEF s, t
<1> QED BY <1>1, <1>2, <1>4, <1>5

LEMMA TrendOfHistory == TrendFollowsHistory
<1> SUFFICES ASSUME NEW n \in DOMAIN Weights, NEW h \in [1..n -> {0, 50, 100}]
             PROVE  /\ (\A i \in 2..n : h[i - 1] <= h[i]) => Trend(h) # "down"
                    /\ (\A i \in 2..n : h[i - 1] >= h[i]) => Trend(h) # "up"
  BY DEF TrendFollowsHistory
<1>1. n \in Nat \ {0}
  BY WeightsInterlace
<1>2. h \in Seq(Int) /\ Len(h) = n /\ \A i \in 1..n : h[i] \in Int
  BY <1>1
<1> DEFINE s == Halves(h).first
           t == Halves(h).second
           a == Len(s)
           b == Len(t)
           p == Total(s)
           q == Total(t)
<1>3. PICK mid \in 0..(n - 1) :
             /\ s \in Seq(Int) /\ a = mid
             /\ \A i \in 1..mid : s[i] = h[i]
             /\ t \in Seq(Int) /\ b = n - mid
             /\ \A i \in 1..(n - mid) : t[i] = h[mid + i]
  BY <1>1, <1>2, HalvesIs
<1>4. Trend(h) = IF q * a - p * b > a * b THEN "up"
                 ELSE IF q * a - p * b < -(a * b) THEN "down" ELSE "flat"
  BY DEF Trend
<1>5. mid + 1 \in 1..n /\ a \in Nat /\ b \in Nat
      /\ (\A i \in 1..mid : i \in 1..n /\ i <= mid + 1)
      /\ (\A i \in 1..(n - mid) : mid + i \in 1..n /\ mid + 1 <= mid + i)
  BY <1>1, <1>3
<1> PICK c \in Int : c = h[mid + 1]
  BY <1>2, <1>5
<1> HIDE DEF s, t
<1>6. p \in Int /\ q \in Int
  BY <1>3, TotalBounds
<1>7. ASSUME \A i \in 2..n : h[i - 1] <= h[i] PROVE Trend(h) # "down"
  <2>1. \A i, j \in 1..n : i <= j => h[i] <= h[j]
    BY <1>1, <1>2, <1>7, NeverFalls
  <2>2. (\A i \in 1..a : s[i] <= c) /\ (\A i \in 1..b : t[i] >= c)
    <3>1. \A i \in 1..a : s[i] <= c
      BY <1>2, <1>3, <1>5, <2>1
    <3>2. \A i \in 1..b : t[i] >= c
      BY <1>2, <1>3, <1>5, <2>1
    <3> QED BY <3>1, <3>2
  <2>3. p <= c * a /\ q >= c * b
    BY <1>3, <2>2, TotalBounds
  <2> HIDE DEF a, b, p, q
  <2>4. q * a - p * b >= 0 /\ a * b \in Nat /\ q * a - p * b \in Int
    BY <1>5, <1>6, <2>3, GainSign
  <2>5. ~(q * a - p * b < -(a * b))
    BY <2>4
  <2> QED BY <1>4, <2>5
<1>8. ASSUME \A i \in 2..n : h[i - 1] >= h[i] PROVE Trend(h) # "up"
  <2>1. \A i, j \in 1..n : i <= j => h[i] >= h[j]
    BY <1>1, <1>2, <1>8, NeverRises
  <2>2. (\A i \in 1..a : s[i] >= c) /\ (\A i \in 1..b : t[i] <= c)
    <3>1. \A i \in 1..a : s[i] >= c
      BY <1>2, <1>3, <1>5, <2>1
    <3>2. \A i \in 1..b : t[i] <= c
      BY <1>2, <1>3, <1>5, <2>1
    <3> QED BY <3>1, <3>2
  <2>3. p >= c * a /\ q <= c * b
    BY <1>3, <2>2, TotalBounds
  <2> HIDE DEF a, b, p, q
  <2>4. q * a - p * b <= 0 /\ a * b \in Nat /\ q * a - p * b \in Int
    BY <1>5, <1>6, <2>3, GainSign
  <2>5. ~(q * a - p * b > a * b)
    BY <2>4
  <2> QED BY <1>4, <2>5
<1> QED BY <1>7, <1>8

(* Histories of every length are shown with the trend they have, or none.  *)
THEOREM TrendIsHonest == Spec => []TrendFollowsHistory
<1> QED BY TrendOfHistory, PTL

-----------------------------------------------------------------------------
(* Before and after a playbook.                                            *)

LEMMA ScoresOf ==
    ASSUME NEW o \in Seq(Tracked), NEW k \in 1..(Len(o) + 1), NEW i \in 0..Len(o)
    PROVE  Scores(SubSeq(o, k, i)) = [j \in 1..(i - k + 1) |-> o[k + j - 1].score]
<1> DEFINE t == SubSeq(o, k, i)
<1>1. k \in Int /\ i \in Int /\ k >= 1 /\ i <= Len(o) /\ Len(o) \in Nat
  OBVIOUS
<1>2. \A j \in k..i : o[j] \in Tracked
  <2> TAKE j \in k..i
  <2>1. j \in 1..Len(o)
    BY <1>1
  <2> QED BY <2>1, ElementOfSeq
<1>3. /\ t \in Seq(Tracked)
      /\ Len(t) = IF k <= i THEN i - k + 1 ELSE 0
      /\ \A j \in 1..(i - k + 1) : t[j] = o[k + j - 1]
  BY <1>1, <1>2, SubSeqProperties
<1> HIDE DEF t
<1>4. DOMAIN t = 1..(i - k + 1)
  <2>1. DOMAIN t = 1..Len(t)
    BY <1>3
  <2> QED BY <1>1, <1>3, <2>1
<1>5. Scores(t) = [j \in 1..(i - k + 1) |-> t[j].score]
  BY <1>4 DEF Scores
<1> QED BY <1>3, <1>5 DEF t

LEMMA ScoresGrow ==
    ASSUME NEW o \in Seq(Tracked), NEW k \in 1..(Len(o) + 1), NEW i \in 1..Len(o), k <= i
    PROVE  Scores(SubSeq(o, k, i)) = Append(Scores(SubSeq(o, k, i - 1)), o[i].score)
<1> DEFINE u == [j \in 1..(i - k) |-> o[k + j - 1].score]
<1>1. /\ i \in 0..Len(o) /\ i - 1 \in 0..Len(o) /\ (i - 1) - k + 1 = i - k
      /\ k \in Nat /\ i \in Nat /\ i - k \in Nat
  OBVIOUS
<1>2. Scores(SubSeq(o, k, i)) = [j \in 1..(i - k + 1) |-> o[k + j - 1].score]
  BY <1>1, ScoresOf
<1>3. Scores(SubSeq(o, k, i - 1)) = u
  <2> DEFINE m == i - 1
  <2>1. m \in 0..Len(o) /\ m - k + 1 = i - k
    BY <1>1
  <2> HIDE DEF m
  <2>2. Scores(SubSeq(o, k, m)) = [j \in 1..(m - k + 1) |-> o[k + j - 1].score]
    BY <2>1, ScoresOf
  <2> QED BY <2>1, <2>2 DEF m
<1>4. Append(u, o[i].score) = [j \in 1..(i - k + 1) |-> o[k + j - 1].score]
  <2> DEFINE V == {o[k + j - 1].score : j \in 1..(i - k)} \cup {o[i].score}
             x == o[i].score
             d == i - k
  <2>1. u \in Seq(V) /\ Len(u) = d /\ d \in Nat /\ k + (d + 1) - 1 = i
    <3>1. d \in Nat /\ k + (d + 1) - 1 = i
      BY <1>1
    <3>2. u \in [1..d -> V]
      OBVIOUS
    <3> HIDE DEF u, V, d
    <3> QED BY <3>1, <3>2
  <2>2. \A j \in 1..d : u[j] = o[k + j - 1].score
    OBVIOUS
  <2>3. x \in V
    OBVIOUS
  <2> HIDE DEF u, V, d
  <2>4. /\ Append(u, x) \in Seq(V) /\ Len(Append(u, x)) = d + 1
        /\ \A j \in 1..d : Append(u, x)[j] = u[j]
        /\ Append(u, x)[d + 1] = x
    BY <2>1, <2>3, AppendProperties
  <2>5. \A j \in 1..(d + 1) : Append(u, x)[j] = o[k + j - 1].score
    <3> TAKE j \in 1..(d + 1)
    <3>1. CASE j \in 1..d
      BY <2>2, <2>4, <3>1
    <3>2. CASE j = d + 1
      BY <2>1, <2>4, <3>2
    <3> QED BY <2>1, <3>1, <3>2
  <2>6. Append(u, x) = [j \in 1..(d + 1) |-> Append(u, x)[j]]
    BY <2>1, <2>4
  <2> HIDE DEF x
  <2>7. Append(u, x) = [j \in 1..(d + 1) |-> o[k + j - 1].score]
    BY <2>5, <2>6
  <2> QED BY <2>7 DEF d, x
<1> QED BY <1>2, <1>3, <1>4

(* The place of the first use of p, or the one behind the last outcome.    *)
FirstUse(o, p, first) ==
    /\ first \in 1..(Len(o) + 1)
    /\ \A i \in 1..(first - 1) : o[i].playbook # p
    /\ first <= Len(o) => o[first].playbook = p

(* What the walk has collected after i outcomes.                           *)
Collected(o, first, i) ==
    [before |-> Scores(SubSeq(o, 1, IF i < first THEN i ELSE first - 1)),
     after |-> Scores(SubSeq(o, first, i)),
     seen |-> i >= first]

(* One outcome more.                                                       *)
Collects(last, o, p) ==
    LET seen == last.seen \/ o.playbook = p
    IN  [before |-> IF seen THEN last.before ELSE Append(last.before, o.score),
         after |-> IF seen THEN Append(last.after, o.score) ELSE last.after,
         seen |-> seen]

LEMMA WalkStep ==
    ASSUME NEW o \in Seq(Tracked), NEW p, NEW first, FirstUse(o, p, first),
           NEW i \in 1..Len(o)
    PROVE  Collected(o, first, i) = Collects(Collected(o, first, i - 1), o[i], p)
<1> DEFINE last == Collected(o, first, i - 1)
           seen == last.seen \/ o[i].playbook = p
           x == o[i].score
<1>1. first \in 1..(Len(o) + 1) /\ first \in Nat /\ i \in Nat /\ Len(o) \in Nat
  BY DEF FirstUse
<1>2. /\ last.before = Scores(SubSeq(o, 1, IF i - 1 < first THEN i - 1 ELSE first - 1))
      /\ last.after = Scores(SubSeq(o, first, i - 1))
      /\ last.seen = (i - 1 >= first)
  BY DEF Collected
<1> HIDE DEF last
<1>3. seen <=> i >= first
  <2>1. CASE i < first
    <3>1. i \in 1..(first - 1) /\ ~(i - 1 >= first) /\ ~(i >= first)
      BY <1>1, <2>1
    <3> QED BY <1>2, <3>1 DEF FirstUse
  <2>2. CASE i = first
    <3>1. first <= Len(o) /\ i >= first
      BY <1>1, <2>2
    <3> QED BY <2>2, <3>1 DEF FirstUse
  <2>3. CASE i > first
    <3>1. i - 1 >= first /\ i >= first
      BY <1>1, <2>3
    <3> QED BY <1>2, <3>1
  <2> QED BY <1>1, <2>1, <2>2, <2>3
<1>4. CASE i < first
  <2>0. PICK u \in 1..(Len(o) + 1) : u = 1
    BY <1>1
  <2>1. Scores(SubSeq(o, u, i)) = Append(Scores(SubSeq(o, u, i - 1)), x)
    BY <1>1, <2>0, ScoresGrow
  <2>2. Scores(SubSeq(o, first, i)) = Scores(SubSeq(o, first, i - 1))
    <3> DEFINE m == i - 1
    <3>1. m \in 0..Len(o) /\ i \in 0..Len(o) /\ 1..(m - first + 1) = {} /\ 1..(i - first + 1) = {}
      BY <1>1, <1>4
    <3> HIDE DEF m
    <3>2. /\ Scores(SubSeq(o, first, i)) = [j \in 1..(i - first + 1) |-> o[first + j - 1].score]
          /\ Scores(SubSeq(o, first, m)) = [j \in 1..(m - first + 1) |-> o[first + j - 1].score]
      BY <1>1, <3>1, ScoresOf
    <3>3. Scores(SubSeq(o, first, i)) = Scores(SubSeq(o, first, m))
      BY <3>1, <3>2
    <3> QED BY <3>3 DEF m
  <2>3. i - 1 < first /\ ~(i >= first)
    BY <1>1, <1>4
  <2>4. Scores(SubSeq(o, 1, i)) = Append(last.before, x)
    BY <1>2, <2>0, <2>1, <2>3
  <2>5. Collected(o, first, i).before = Append(last.before, x)
    BY <1>4, <2>4 DEF Collected
  <2>6. Collected(o, first, i).after = last.after
    BY <1>2, <2>2 DEF Collected
  <2> HIDE DEF seen
  <2>7. seen = (i >= first)
    BY <1>3, <2>3 DEF seen
  <2> QED BY <1>3, <2>3, <2>5, <2>6, <2>7, Zenon DEF Collects, Collected, last, x, seen
<1>5. CASE i >= first
  <2>1. Scores(SubSeq(o, first, i)) = Append(Scores(SubSeq(o, first, i - 1)), x)
    BY <1>1, <1>5, ScoresGrow
  <2>3. ~(i < first) /\ (IF i - 1 < first THEN i - 1 ELSE first - 1) = first - 1
    BY <1>1, <1>5
  <2>4. Scores(SubSeq(o, 1, first - 1)) = last.before
    BY <1>2, <2>3
  <2>5. Scores(SubSeq(o, first, i)) = Append(last.after, x)
    BY <1>2, <2>1
  <2>6. Collected(o, first, i) = [before |-> last.before, after |-> Append(last.after, x),
                                  seen |-> i >= first]
    BY <2>3, <2>4, <2>5, Zenon DEF Collected
  <2> HIDE DEF seen
  <2>7. seen = (i >= first) /\ seen
    BY <1>3, <1>5 DEF seen
  <2> QED BY <2>6, <2>7, Zenon DEF Collects, last, x, seen
<1> QED BY <1>1, <1>4, <1>5

LEMMA WalkCollects ==
    ASSUME NEW o \in Seq(Tracked), NEW p, NEW first, FirstUse(o, p, first)
    PROVE  BeforeAfter(o, p) = Collected(o, first, Len(o))
<1> DEFINE n == Len(o)
           start == [before |-> <<>>, after |-> <<>>, seen |-> FALSE]
           More(r, i) == Collects(r, o[i], p)
           R(f) == f = [i \in 0..n |-> IF i = 0 THEN start ELSE More(f[i - 1], i)]
           walk == CHOOSE f : R(f)
           c == [i \in 0..n |-> Collected(o, first, i)]
<1>1. n \in Nat
  OBVIOUS
<1>2. BeforeAfter(o, p) = walk[n]
  BY DEF BeforeAfter, Collects
<1>3. Collected(o, first, 0) = start
  <2>1. first \in 1..(n + 1) /\ 0 \in 0..n /\ first > 0
    BY DEF FirstUse
  <2> PICK z \in 0..n : z = 0
    BY <1>1
  <2>0. PICK u \in 1..(n + 1) : u = 1
    BY <1>1
  <2>2. \A k \in 1..(n + 1) : Scores(SubSeq(o, k, z)) = <<>>
    <3> TAKE k \in 1..(n + 1)
    <3>1. Scores(SubSeq(o, k, z)) = [j \in 1..(z - k + 1) |-> o[k + j - 1].score]
      BY ScoresOf
    <3>2. 1..(z - k + 1) = {}
      BY <1>1
    <3> QED BY <3>1, <3>2
  <2>3. Scores(SubSeq(o, u, z)) = <<>> /\ Scores(SubSeq(o, first, z)) = <<>>
    BY <2>1, <2>2
  <2>4. (IF z < first THEN z ELSE first - 1) = z /\ (z >= first) = FALSE
    BY <2>1
  <2> QED BY <2>0, <2>3, <2>4, Zenon DEF Collected
<1>4. \A i \in 1..n : Collected(o, first, i) = More(Collected(o, first, i - 1), i)
  BY WalkStep
<1> HIDE DEF More, start
<1>5. R(c)
  <2>1. \A i \in 1..n : c[i - 1] = Collected(o, first, i - 1)
    BY <1>1
  <2>2. \A i \in 0..n : c[i] = IF i = 0 THEN start ELSE More(c[i - 1], i)
    BY <1>1, <1>3, <1>4, <2>1
  <2> QED BY <2>2
<1>6. R(walk)
  <2> HIDE DEF R, c
  <2> QED BY <1>5
<1>7. \A i \in 0..n : walk[i] = IF i = 0 THEN start ELSE More(walk[i - 1], i)
  <2> HIDE DEF walk
  <2> QED BY <1>6
<1> HIDE DEF walk
<1> DEFINE S == {i \in 0..n : walk[i] = Collected(o, first, i)}
<1>8. 0 \in S
  BY <1>1, <1>3, <1>7
<1>9. ASSUME NEW i \in 0..(n - 1), i \in S PROVE i + 1 \in S
  <2>1. i + 1 \in 0..n /\ i + 1 \in 1..n /\ i + 1 # 0 /\ (i + 1) - 1 = i
    BY <1>1
  <2>2. walk[i + 1] = More(walk[i], i + 1)
    BY <1>7, <2>1
  <2>3. Collected(o, first, i + 1) = More(Collected(o, first, i), i + 1)
    <3> DEFINE k == i + 1
    <3>1. Collected(o, first, k) = More(Collected(o, first, k - 1), k)
      <4> HIDE DEF k
      <4> QED BY <1>4, <2>1 DEF k
    <3> QED BY <2>1, <3>1
  <2>4. walk[i] = Collected(o, first, i)
    BY <1>9
  <2> QED BY <2>1, <2>2, <2>3, <2>4
<1>10. 0..n \subseteq S
  <2> HIDE DEF S, n
  <2> QED BY <1>1, <1>8, <1>9, Inductive
<1> QED BY <1>1, <1>2, <1>10

LEMMA SplitAtFirstUse ==
    ASSUME tracked \in [Agents -> Seq(Tracked)]
    PROVE  TrendSplitsAtFirstUse
<1> SUFFICES ASSUME NEW a \in Agents, NEW p \in Playbooks
             PROVE  LET outcomes == tracked[a]
                        uses == {i \in DOMAIN outcomes : outcomes[i].playbook = p}
                        first == IF uses = {} THEN Len(outcomes) + 1 ELSE Min(uses)
                        split == BeforeAfter(outcomes, p)
                    IN  /\ split.before = Scores(SubSeq(outcomes, 1, first - 1))
                        /\ split.after = Scores(SubSeq(outcomes, first, Len(outcomes)))
  BY DEF TrendSplitsAtFirstUse
<1> DEFINE o == tracked[a]
           uses == {i \in DOMAIN o : o[i].playbook = p}
           first == IF uses = {} THEN Len(o) + 1 ELSE Min(uses)
<1>1. o \in Seq(Tracked) /\ Len(o) \in Nat /\ DOMAIN o = 1..Len(o)
  OBVIOUS
<1> HIDE DEF o
<1>2. FirstUse(o, p, first)
  <2>1. CASE uses = {}
    <3>1. first = Len(o) + 1
      BY <2>1
    <3>2. \A i \in 1..Len(o) : o[i].playbook # p
      BY <1>1, <2>1
    <3> HIDE DEF first
    <3>3. first - 1 = Len(o) /\ first \in 1..(Len(o) + 1) /\ ~(first <= Len(o))
      BY <1>1, <3>1
    <3> QED BY <3>2, <3>3 DEF FirstUse
  <2>2. CASE uses # {}
    <3>1. uses \in SUBSET Nat
      BY <1>1
    <3>2. \E x \in uses : \A y \in uses : x <= y
      BY <2>2, <3>1, LeastExists
    <3>3. Min(uses) \in uses /\ \A y \in uses : Min(uses) <= y
      <4> HIDE DEF uses
      <4> QED BY <3>2 DEF Min
    <3>4. first = Min(uses)
      BY <2>2
    <3> HIDE DEF first
    <3>5. first \in 1..Len(o) /\ o[first].playbook = p
      BY <1>1, <3>3, <3>4
    <3>6. \A i \in 1..(first - 1) : o[i].playbook # p
      <4> SUFFICES ASSUME NEW i \in 1..(first - 1), o[i].playbook = p PROVE FALSE
        OBVIOUS
      <4>1. i \in 1..Len(o) /\ i < first
        BY <1>1, <3>5
      <4>2. i \in uses
        BY <1>1, <4>1
      <4>3. first <= i
        <5> HIDE DEF uses
        <5> QED BY <3>3, <3>4, <4>2
      <4> QED BY <3>5, <4>1, <4>3
    <3> QED BY <1>1, <3>5, <3>6 DEF FirstUse
  <2> QED BY <2>1, <2>2
<1>3. first \in 1..(Len(o) + 1)
  BY <1>2 DEF FirstUse
<1> HIDE DEF first
<1>4. BeforeAfter(o, p) = Collected(o, first, Len(o))
  BY <1>1, <1>2, WalkCollects
<1>5. (IF Len(o) < first THEN Len(o) ELSE first - 1) = first - 1
  BY <1>1, <1>3
<1>6. /\ BeforeAfter(o, p).before = Scores(SubSeq(o, 1, first - 1))
      /\ BeforeAfter(o, p).after = Scores(SubSeq(o, first, Len(o)))
  BY <1>4, <1>5 DEF Collected
<1> QED BY <1>6 DEF first, o

-----------------------------------------------------------------------------
(* The inductive invariant.                                                *)

(* A session is that of its graph's trace.                                 *)
Stored == \A t \in Traces : sessions[t] # NoSession => TraceOf[sessions[t].graph] = t

(* A score that comes from a graph comes after the session of its trace,   *)
(* and is an agent's whose graph has that trace.                           *)
Backed(r) ==
    r.trace # NoTrace =>
        /\ r.trace \in Traces /\ sessions[r.trace] # NoSession
        /\ \E g \in Graphs : TraceOf[g] = r.trace /\ AgentOf[g] = r.agent

RowsBacked == \A r \in rows : Backed(r)

PicksBacked ==
    picked # Idle =>
        \A a \in Agents : \A i \in DOMAIN picked[a] :
            picked[a][i].agent = a /\ Backed(picked[a][i])

FleetInv ==
    /\ TypeOK
    /\ IsFiniteSet(rows)
    /\ Stored
    /\ RowsBacked
    /\ PicksBacked

(* A score of the scorer is a percent.                                     *)
LEMMA DivPercent ==
    ASSUME NEW a \in Nat, NEW b \in Nat \ {0}, a <= 100 * b
    PROVE  a \div b \in 0..100
<1> DEFINE d == a \div b
<1>1. d \in Int /\ b * d <= a /\ a < b * d + b
  OBVIOUS
<1> HIDE DEF d
<1>2. d <= 100
  <2> SUFFICES ASSUME d >= 101 PROVE FALSE
    BY <1>1
  <2>1. PICK k \in Nat : d = 101 + k
    <3>1. d - 101 \in Nat /\ d = 101 + (d - 101)
      BY <1>1
    <3> QED BY <3>1
  <2>2. b * d = 101 * b + b * k /\ b * k >= 0
    BY <2>1
  <2> QED BY <1>1, <2>2
<1>3. d >= 0
  <2> SUFFICES ASSUME d <= -1 PROVE FALSE
    BY <1>1
  <2>1. PICK k \in Nat : d = -1 - k
    <3>1. -1 - d \in Nat /\ d = -1 - (-1 - d)
      BY <1>1
    <3> QED BY <3>1
  <2>2. b * d = -b - b * k /\ b * k >= 0
    BY <2>1
  <2> QED BY <1>1, <2>2
<1> QED BY <1>1, <1>2, <1>3 DEF d

LEMMA CurrentScoreType ==
    ASSUME NEW o \in Seq(Tracked)
    PROVE  CurrentScore(o) \in 0..100
<1> DEFINE s == [i \in DOMAIN o |-> o[i].score]
           recent == LastN(s, ScorerWindow)
<1>1. \A i \in 1..Len(o) : o[i].score \in 0..100
  <2> TAKE i \in 1..Len(o)
  <2>1. o[i] \in Tracked
    BY ElementOfSeq
  <2>2. o[i].score \in Outcomes
    BY <2>1 DEF Tracked
  <2>3. Outcomes \subseteq {0, 50, 100}
    BY FleetAssumption
  <2>4. {0, 50, 100} \subseteq 0..100
    OBVIOUS
  <2> QED BY <2>2, <2>3, <2>4, Zenon
<1>2. s \in Seq(0..100)
  <2> DEFINE n == Len(o)
             V == 0..100
  <2>1. n \in Nat /\ DOMAIN o = 1..n /\ \A i \in 1..n : o[i].score \in V
    BY <1>1
  <2> HIDE DEF n, V
  <2>2. s \in [1..n -> V]
    BY <2>1
  <2>3. s \in Seq(V)
    <3> HIDE DEF s
    <3> QED BY <2>1, <2>2
  <2> QED BY <2>3 DEF V
<1>3. ScorerWindow \in Nat \ {0} /\ ScorerWindow <= Len(Weights) /\ Len(Weights) \in Nat
  BY FleetAssumption, WeightsInterlace
<1>4. CurrentScore(o) = IF recent = <<>> THEN 0
                        ELSE WeightedSum(recent) \div WeightSum(recent)
  BY DEF CurrentScore
<1> HIDE DEF s
<1>5. /\ recent \in Seq(0..100)
      /\ Len(s) <= ScorerWindow => Len(recent) = Len(s)
      /\ Len(s) > ScorerWindow => Len(recent) = ScorerWindow
  BY <1>2, <1>3, LastNIs
<1>6. Len(s) \in Nat
  BY <1>2
<1> HIDE DEF recent
<1>7. CASE recent = <<>>
  BY <1>4, <1>7
<1>8. CASE recent # <<>>
  <2>1. Len(recent) \in Nat /\ Len(recent) # 0
    BY <1>5, <1>8
  <2>2. Len(recent) \in 1..Len(Weights)
    BY <1>3, <1>5, <1>6, <2>1
  <2>3. /\ WeightedSum(recent) \in Nat /\ WeightSum(recent) \in Nat \ {0}
        /\ WeightedSum(recent) <= 100 * WeightSum(recent)
    BY <1>5, <2>2, AverageIsPercent
  <2> QED BY <1>4, <1>8, <2>3, DivPercent
<1> QED BY <1>7, <1>8

LEMMA RowAdded ==
    ASSUME FleetInv, NEW a \in Agents, NEW score \in 0..100,
           NEW trace \in Traces \cup {NoTrace}, AddRow(a, score, trace)
    PROVE  \E r \in Row : /\ rows' = rows \cup {r}
                          /\ r.agent = a /\ r.trace = trace
                          /\ IsFiniteSet(rows')
<1> DEFINE id == Cardinality(rows) + 1
<1>1. Cardinality(rows) \in Nat /\ id \in 1..MaxRows
  BY FS_CardinalityType, FleetAssumption DEF FleetInv, AddRow
<1>2. PICK lag \in 0..MaxLag :
         rows' = rows \cup {[id |-> id, agent |-> a, score |-> score,
                             created |-> id - lag, trace |-> trace]}
  BY DEF AddRow
<1> DEFINE r == [id |-> id, agent |-> a, score |-> score, created |-> id - lag, trace |-> trace]
<1>3. id - lag \in Int
  BY <1>1, FleetAssumption
<1> HIDE DEF id
<1>4. r \in Row
  BY <1>1, <1>3 DEF Row
<1>5. rows' = rows \cup {r} /\ r.agent = a /\ r.trace = trace
  BY <1>2
<1>6. IsFiniteSet(rows')
  <2> HIDE DEF r
  <2> QED BY <1>5, FS_AddElement DEF FleetInv
<1> QED BY <1>4, <1>5, <1>6

-----------------------------------------------------------------------------
(* What is picked for an agent.                                            *)

Sorted(q) == \A i, j \in DOMAIN q : i < j => q[i].created <= q[j].created

(* The end of a sequence with every row of S once.                         *)
EndOf(h, S, n, k) ==
    \E m \in 0..n, q \in Bijection(1..n, S) :
        /\ n <= k => m = n
        /\ n > k => m = k
        /\ Sorted(q)
        /\ h \in Seq(Row) /\ Len(h) = m
        /\ \A i \in 1..m : h[i] = q[i + (n - m)]

LEMMA HistoryIs ==
    ASSUME NEW S \in SUBSET Row, IsFiniteSet(S), NEW n \in Nat, n = Cardinality(S),
           NEW k \in Nat \ {0}, NEW h \in Histories(S, k)
    PROVE  EndOf(h, S, n, k)
<1>1. PICK q \in SetToSeqs(S) : h = LastN(q, k) /\ Sorted(q)
  BY DEF Histories, Sorted
<1>2. IsFiniteSet(1..n) /\ Cardinality(1..n) = n
  <2> PICK u \in Int : u = 1
    OBVIOUS
  <2>1. n \in Int
    OBVIOUS
  <2>2. IsFiniteSet(u..n) /\ Cardinality(u..n) = IF u > n THEN 0 ELSE n - u + 1
    BY <2>1, FS_Interval
  <2> QED BY <2>2
<1>3. q \in [1..n -> S] /\ \A i, j \in 1..n : i # j => q[i] # q[j]
  BY <1>1 DEF SetToSeqs
<1>4. q \in Injection(1..n, S)
  BY <1>3 DEF Injection, IsInjective
<1>5. q \in Surjection(1..n, S)
  BY <1>2, <1>4, FS_Injection
<1>6. q \in Bijection(1..n, S)
  BY <1>4, <1>5 DEF Bijection
<1>7. q \in Seq(Row) /\ Len(q) = n
  <2>1. q \in [1..n -> Row]
    BY <1>3
  <2> QED BY <2>1
<1> DEFINE m == Len(LastN(q, k))
<1>8. /\ LastN(q, k) \in Seq(Row)
      /\ n <= k => m = n
      /\ n > k => m = k
      /\ \A i \in 1..m : LastN(q, k)[i] = q[i + (n - m)]
  <2> DEFINE l == LastN(q, k)
  <2>1. /\ l \in Seq(Row)
        /\ Len(q) <= k => Len(l) = Len(q)
        /\ Len(q) > k => Len(l) = k
        /\ \A i \in 1..Len(l) : l[i] = q[i + (Len(q) - Len(l))]
    BY <1>7, LastNIs
  <2> HIDE DEF l
  <2> QED BY <1>7, <2>1 DEF l
<1>9. m \in 0..n
  <2> HIDE DEF m
  <2> QED BY <1>8
<1> QED BY <1>1, <1>2, <1>6, <1>7, <1>8, <1>9 DEF EndOf

LEMMA PickedAre ==
    ASSUME FleetInv, NEW a \in Agents, NEW h \in Picks(a)
    PROVE  /\ h \in Seq(Row)
           /\ Len(h) <= Window
           /\ \A i \in DOMAIN h : h[i] \in rows /\ h[i].agent = a
<1> DEFINE S == {r \in rows : r.agent = a}
<1>1. S \in SUBSET Row /\ IsFiniteSet(S)
  BY FS_Subset DEF FleetInv, TypeOK
<1> PICK n \in Nat : n = Cardinality(S)
  BY <1>1, FS_CardinalityType
<1>2. Window \in Nat \ {0}
  BY FleetAssumption
<1>3. h \in Histories(S, Window)
  BY DEF Picks
<1> HIDE DEF S
<1>4. PICK m \in 0..n, q \in Bijection(1..n, S) :
             /\ n <= Window => m = n
             /\ n > Window => m = Window
             /\ Sorted(q)
             /\ h \in Seq(Row) /\ Len(h) = m
             /\ \A i \in 1..m : h[i] = q[i + (n - m)]
  <2>1. EndOf(h, S, n, Window)
    BY <1>1, <1>2, <1>3, HistoryIs
  <2> QED BY <2>1 DEF EndOf
<1>5. Len(h) <= Window
  BY <1>2, <1>4
<1>6. \A i \in 1..m : h[i] \in S
  <2> TAKE i \in 1..m
  <2>1. i + (n - m) \in 1..n
    OBVIOUS
  <2>2. q \in [1..n -> S]
    BY DEF Bijection, Injection
  <2> QED BY <1>4, <2>1, <2>2
<1> QED BY <1>4, <1>5, <1>6 DEF S

LEMMA MinOfTwo ==
    ASSUME NEW x \in Nat, NEW y \in Nat
    PROVE  /\ Min({x, y}) \in {x, y}
           /\ Min({x, y}) <= x /\ Min({x, y}) <= y
<1>1. \E u \in {x, y} : \A v \in {x, y} : u <= v
  <2>1. x <= x /\ y <= y /\ (x <= y \/ y <= x)
    OBVIOUS
  <2> QED BY <2>1
<1> QED BY <1>1 DEF Min

(* No row that is left out is newer than one that is shown.                *)
LEMMA PickedAreLatest ==
    ASSUME FleetInv, NEW a \in Agents, NEW h \in Picks(a)
    PROVE  ShowsLatest(a, h)
<1> DEFINE S == {r \in rows : r.agent = a}
           shown == {h[i] : i \in DOMAIN h}
<1>1. S \in SUBSET Row /\ IsFiniteSet(S)
  BY FS_Subset DEF FleetInv, TypeOK
<1>2. PICK n \in Nat : n = Cardinality(S)
  BY <1>1, FS_CardinalityType
<1>3. Window \in Nat \ {0}
  BY FleetAssumption
<1>4. h \in Histories(S, Window)
  BY DEF Picks
<1> HIDE DEF S
<1>5. PICK m \in 0..n, q \in Bijection(1..n, S) :
             /\ n <= Window => m = n
             /\ n > Window => m = Window
             /\ Sorted(q)
             /\ h \in Seq(Row) /\ Len(h) = m
             /\ \A i \in 1..m : h[i] = q[i + (n - m)]
  <2>1. EndOf(h, S, n, Window)
    BY <1>1, <1>2, <1>3, <1>4, HistoryIs
  <2> QED BY <2>1 DEF EndOf
<1>6. /\ q \in [1..n -> S] /\ DOMAIN q = 1..n
      /\ \A i, j \in 1..n : q[i] = q[j] => i = j
      /\ \A r \in S : \E i \in 1..n : q[i] = r
  BY DEF Bijection, Injection, Surjection, IsInjective
<1>7. DOMAIN h = 1..m /\ m \in Nat /\ \A i \in 1..m : i + (n - m) \in 1..n
  BY <1>5
<1>8. shown \subseteq S
  BY <1>5, <1>6, <1>7
<1>9. Cardinality(shown) = m
  <2> DEFINE f == [i \in 1..m |-> h[i]]
  <2>1. f \in Surjection(1..m, shown)
    BY <1>7 DEF Surjection
  <2>2. f \in Injection(1..m, shown)
    <3>1. f \in [1..m -> shown]
      BY <1>7
    <3>2. ASSUME NEW i \in 1..m, NEW j \in 1..m, f[i] = f[j] PROVE i = j
      <4>1. q[i + (n - m)] = q[j + (n - m)]
        BY <1>5, <3>2
      <4>2. i + (n - m) = j + (n - m)
        BY <1>6, <1>7, <4>1
      <4> QED BY <1>7, <4>2
    <3> HIDE DEF f, shown
    <3> QED BY <3>1, <3>2 DEF Injection, IsInjective
  <2>3. IsFiniteSet(1..m) /\ Cardinality(1..m) = m
    <3> PICK u \in Int : u = 1
      OBVIOUS
    <3>1. m \in Int
      BY <1>7
    <3>2. IsFiniteSet(u..m) /\ Cardinality(u..m) = IF u > m THEN 0 ELSE m - u + 1
      BY <3>1, FS_Interval
    <3> QED BY <1>7, <3>2
  <2> HIDE DEF f, shown
  <2>4. Cardinality(shown) = Cardinality(1..m)
    BY <2>1, <2>2, <2>3, FS_Surjection
  <2> QED BY <2>3, <2>4
<1>10. m = Min({Window, n})
  BY <1>3, <1>5, <1>7, MinOfTwo
<1>11. \A r \in S \ shown, s \in shown : r.created <= s.created
  <2> TAKE r \in S \ shown, s \in shown
  <2>1. PICK k \in 1..n : q[k] = r
    BY <1>6
  <2>2. PICK j \in 1..m : s = h[j]
    BY <1>7
  <2>3. k <= n - m
    <3> SUFFICES ASSUME k > n - m PROVE FALSE
      BY <1>7
    <3>1. k - (n - m) \in 1..m /\ (k - (n - m)) + (n - m) = k
      BY <1>7
    <3>2. h[k - (n - m)] = r
      BY <1>5, <2>1, <3>1
    <3> QED BY <1>7, <3>1, <3>2
  <2>4. k < j + (n - m) /\ j + (n - m) \in 1..n
    BY <1>7, <2>3
  <2>5. q[k].created <= q[j + (n - m)].created
    BY <1>5, <1>6, <2>4 DEF Sorted
  <2> QED BY <1>5, <2>1, <2>2, <2>5
<1>12. \A i, j \in DOMAIN h : i < j => h[i].created <= h[j].created
  <2> TAKE i, j \in DOMAIN h
  <2> HAVE i < j
  <2>1. i \in 1..m /\ j \in 1..m
    BY <1>7
  <2>2. i + (n - m) < j + (n - m) /\ i + (n - m) \in 1..n /\ j + (n - m) \in 1..n
    BY <1>7, <2>1
  <2>3. q[i + (n - m)].created <= q[j + (n - m)].created
    BY <1>5, <1>6, <2>2 DEF Sorted
  <2> QED BY <1>5, <2>1, <2>3
<1>13. Cardinality(shown) = Min({Window, Cardinality(S)})
  BY <1>2, <1>9, <1>10
<1> HIDE DEF shown
<1> QED BY <1>8, <1>11, <1>12, <1>13 DEF ShowsLatest, S, shown

-----------------------------------------------------------------------------
(* The steps.                                                              *)

LEMMA BackedStays ==
    ASSUME NEW r, Backed(r),
           \A t \in Traces : sessions[t] # NoSession => sessions'[t] # NoSession
    PROVE  Backed(r)'
BY DEF Backed

LEMMA TablesKept ==
    ASSUME FleetInv, UNCHANGED <<sessions, rows>>
    PROVE  (IsFiniteSet(rows) /\ Stored /\ RowsBacked)'
BY DEF FleetInv, Stored, RowsBacked, Backed

LEMMA SaveStep ==
    ASSUME FleetInv, NEW g \in Graphs, SaveSession(g)
    PROVE  FleetInv'
<1> DEFINE t == TraceOf[g]
<1>1. t \in Traces /\ sessions[t] = NoSession /\ UNCHANGED <<scores, rows, tracked, picked>>
  BY FleetAssumption DEF SaveSession, Store!Save
<1>2. PICK row \in SessionRow : row.graph = g /\ sessions' = [sessions EXCEPT ![t] = row]
  <2>1. PICK x \in {g, NoAttribution} : sessions' = [sessions EXCEPT ![t] = Store!Row(g, x)]
    BY DEF SaveSession, Store!Save
  <2>2. Store!Row(g, x) \in SessionRow /\ Store!Row(g, x).graph = g
    BY DEF SessionRow, Store!Row
  <2> QED BY <2>1, <2>2
<1>3. sessions \in [Traces -> {NoSession} \cup SessionRow]
  BY DEF FleetInv, TypeOK
<1>4. TypeOK'
  BY <1>1, <1>2, <1>3 DEF FleetInv, TypeOK
<1>5. Stored'
  BY <1>1, <1>2, <1>3 DEF FleetInv, Stored
<1>6. \A u \in Traces : sessions[u] # NoSession => sessions'[u] # NoSession
  BY <1>1, <1>2, <1>3
<1>7. RowsBacked'
  BY <1>1, <1>6, BackedStays DEF FleetInv, RowsBacked
<1>8. PicksBacked'
  BY <1>1, <1>6, BackedStays DEF FleetInv, PicksBacked
<1> QED BY <1>1, <1>4, <1>5, <1>7, <1>8 DEF FleetInv

(* A row more, of a trace that has its session or of none.                 *)
LEMMA RowStep ==
    ASSUME FleetInv, NEW a \in Agents, NEW score \in 0..100,
           NEW trace \in Traces \cup {NoTrace}, AddRow(a, score, trace),
           UNCHANGED <<sessions, picked>>,
           trace # NoTrace => /\ sessions[trace] # NoSession
                              /\ \E g \in Graphs : TraceOf[g] = trace /\ AgentOf[g] = a
    PROVE  /\ rows' \subseteq Row
           /\ IsFiniteSet(rows')
           /\ (Stored /\ RowsBacked /\ PicksBacked)'
<1>1. PICK r \in Row : /\ rows' = rows \cup {r}
                       /\ r.agent = a /\ r.trace = trace
                       /\ IsFiniteSet(rows')
  BY RowAdded
<1>2. Backed(r)
  BY <1>1 DEF Backed
<1>3. \A x : Backed(x) => Backed(x)'
  BY BackedStays
<1>4. RowsBacked'
  BY <1>1, <1>2, <1>3 DEF FleetInv, RowsBacked
<1>5. PicksBacked'
  BY <1>3 DEF FleetInv, PicksBacked
<1>6. rows \subseteq Row
  BY DEF FleetInv, TypeOK
<1> QED BY <1>1, <1>4, <1>5, <1>6 DEF FleetInv, Stored

LEMMA RecordStep ==
    ASSUME FleetInv, NEW g \in Graphs, RecordAtIngest(g)
    PROVE  FleetInv'
<1> DEFINE score == IF g \in Failed THEN 0 ELSE 100
<1>1. /\ AddRow(AgentOf[g], score, TraceOf[g])
      /\ UNCHANGED <<sessions, tracked, picked>>
      /\ sessions[TraceOf[g]] # NoSession
      /\ scores' = [scores EXCEPT ![g] = @ + 1]
  BY DEF RecordAtIngest, Store!RecordScore
<1>2. AgentOf[g] \in Agents /\ TraceOf[g] \in Traces /\ score \in 0..100
  BY FleetAssumption
<1> HIDE DEF score
<1>3. /\ rows' \subseteq Row
      /\ IsFiniteSet(rows')
      /\ (Stored /\ RowsBacked /\ PicksBacked)'
  BY <1>1, <1>2, RowStep
<1>4. scores' \in [Graphs -> Nat]
  BY <1>1 DEF FleetInv, TypeOK
<1> QED BY <1>1, <1>3, <1>4 DEF FleetInv, TypeOK

LEMMA FeedbackStep ==
    ASSUME FleetInv, NEW a \in Agents, NEW p \in Playbooks, NEW outcome \in Outcomes,
           Feedback(a, p, outcome)
    PROVE  FleetInv'
<1> DEFINE o == Append(tracked[a], [score |-> outcome, playbook |-> p])
<1>1. tracked \in [Agents -> Seq(Tracked)] /\ \A b \in Agents : Len(tracked[b]) <= MaxFeedback
  BY DEF FleetInv, TypeOK
<1>2. o \in Seq(Tracked) /\ Len(o) = Len(tracked[a]) + 1
  <2>1. [score |-> outcome, playbook |-> p] \in Tracked
    BY DEF Tracked
  <2>2. tracked[a] \in Seq(Tracked)
    BY <1>1
  <2> QED BY <2>1, <2>2, AppendProperties
<1>3. /\ Len(tracked[a]) < MaxFeedback
      /\ tracked' = [tracked EXCEPT ![a] = o]
      /\ UNCHANGED rows \/ AddRow(a, CurrentScore(o), NoTrace)
      /\ UNCHANGED <<sessions, scores, picked>>
  BY DEF Feedback
<1>4. CurrentScore(o) \in 0..100
  BY <1>2, CurrentScoreType
<1> HIDE DEF o
<1>5. tracked' \in [Agents -> Seq(Tracked)]
  BY <1>1, <1>2, <1>3
<1>6. \A b \in Agents : Len(tracked'[b]) <= MaxFeedback
  <2>1. Len(o) <= MaxFeedback
    <3>1. Len(tracked[a]) \in Nat /\ MaxFeedback \in Nat
      BY <1>1, FleetAssumption
    <3> QED BY <1>2, <1>3, <3>1
  <2> QED BY <1>1, <1>3, <2>1
<1>7. /\ rows' \subseteq Row
      /\ IsFiniteSet(rows')
      /\ (Stored /\ RowsBacked /\ PicksBacked)'
  <2>1. CASE UNCHANGED rows
    BY <1>3, <2>1 DEF FleetInv, TypeOK, Stored, RowsBacked, PicksBacked, Backed
  <2>2. CASE AddRow(a, CurrentScore(o), NoTrace)
    BY <1>3, <1>4, <2>2, RowStep
  <2> QED BY <1>3, <2>1, <2>2
<1> QED BY <1>3, <1>5, <1>6, <1>7 DEF FleetInv, TypeOK

LEMMA ReadStep ==
    ASSUME FleetInv, ReadScores
    PROVE  FleetInv'
<1>1. UNCHANGED <<sessions, scores, rows, tracked>>
  BY DEF ReadScores
<1>2. picked' \in [Agents -> UNION {Picks(a) : a \in Agents}]
      /\ \A a \in Agents : picked'[a] \in Picks(a)
  BY DEF ReadScores
<1>3. \A a \in Agents : /\ picked'[a] \in Seq(Row)
                        /\ Len(picked'[a]) <= Window
                        /\ \A i \in DOMAIN picked'[a] :
                             picked'[a][i] \in rows /\ picked'[a][i].agent = a
  BY <1>2, PickedAre
<1>4. picked' \in [Agents -> Seq(Row)]
  BY <1>2, <1>3
<1>5. PicksBacked'
  BY <1>1, <1>3 DEF FleetInv, RowsBacked, PicksBacked, Backed
<1> QED BY <1>1, <1>3, <1>4, <1>5, TablesKept DEF FleetInv, TypeOK

(* The inductive invariant of FleetStatus.                                 *)
THEOREM FleetInductive == Spec => []FleetInv
<1>1. Init => FleetInv
  <2> SUFFICES ASSUME Init PROVE FleetInv
    OBVIOUS
  <2>1. /\ sessions = [t \in Traces |-> NoSession] /\ scores = [g \in Graphs |-> 0]
        /\ rows = {} /\ tracked = [a \in Agents |-> <<>>] /\ picked = Idle
    BY DEF Init, Store!Init
  <2>2. \A a \in Agents : tracked[a] \in Seq(Tracked) /\ Len(tracked[a]) <= MaxFeedback
    BY <2>1, FleetAssumption
  <2> QED BY <2>1, <2>2, FS_EmptySet DEF FleetInv, TypeOK, Stored, RowsBacked, PicksBacked
<1>2. FleetInv /\ [Next]_vars => FleetInv'
  <2> SUFFICES ASSUME FleetInv, [Next]_vars PROVE FleetInv'
    OBVIOUS
  <2>1. CASE \E g \in Graphs : SaveSession(g) \/ RecordAtIngest(g)
    BY <2>1, SaveStep, RecordStep
  <2>2. CASE \E a \in Agents, p \in Playbooks, o \in Outcomes : Feedback(a, p, o)
    BY <2>2, FeedbackStep
  <2>3. CASE Restart
    <3>1. \A a \in Agents : tracked'[a] \in Seq(Tracked) /\ Len(tracked'[a]) <= MaxFeedback
      BY <2>3, FleetAssumption DEF Restart
    <3>2. tracked' \in [Agents -> Seq(Tracked)]
      BY <2>3, <3>1 DEF Restart
    <3>3. UNCHANGED <<sessions, scores, rows, picked>>
      BY <2>3 DEF Restart
    <3>4. PicksBacked'
      BY <3>3 DEF FleetInv, PicksBacked, Backed
    <3> QED BY <3>1, <3>2, <3>3, <3>4, TablesKept DEF FleetInv, TypeOK
  <2>4. CASE ReadScores
    BY <2>4, ReadStep
  <2>5. CASE CountAndAnswer
    <3>1. UNCHANGED <<sessions, scores, rows, tracked>> /\ picked' = Idle
      BY <2>5 DEF CountAndAnswer
    <3> QED BY <3>1, TablesKept DEF FleetInv, TypeOK, PicksBacked
  <2>6. CASE UNCHANGED vars
    BY <2>6, TablesKept DEF FleetInv, TypeOK, PicksBacked, Backed, vars
  <2> QED BY <2>1, <2>2, <2>3, <2>4, <2>5, <2>6 DEF Next
<1> QED BY <1>1, <1>2, PTL DEF Spec

(* Every score written is a percent, and no more than the window is read.  *)
THEOREM FleetTypeCorrect == Spec => []TypeOK
<1>1. FleetInv => TypeOK
  BY DEF FleetInv
<1> QED BY <1>1, FleetInductive, PTL

(* No agent is shown with the scores of more sessions than it has.         *)
THEOREM ScoresNeverOutrunSessions == Spec => []ScoredSessionsAreCounted
<1>1. FleetInv => ScoredSessionsAreCounted
  <2> SUFFICES ASSUME FleetInv, picked # Idle, NEW a \in Agents, Consistent(a)
               PROVE  Cardinality({picked[a][i].trace : i \in DOMAIN picked[a]} \ {NoTrace})
                        <= SessionCount(a)
    BY DEF ScoredSessionsAreCounted
  <2> DEFINE scored == {picked[a][i].trace : i \in DOMAIN picked[a]} \ {NoTrace}
             own == {t \in Traces : sessions[t] # NoSession /\ AgentOf[sessions[t].graph] = a}
  <2>1. ASSUME NEW t \in scored PROVE t \in own
    <3>1. PICK i \in DOMAIN picked[a] : t = picked[a][i].trace /\ t # NoTrace
      BY <2>1
    <3>2. picked[a][i].agent = a /\ Backed(picked[a][i])
      BY DEF FleetInv, PicksBacked
    <3>3. t \in Traces /\ sessions[t] # NoSession
      BY <3>1, <3>2 DEF Backed
    <3>4. PICK g \in Graphs : TraceOf[g] = t /\ AgentOf[g] = a
      BY <3>1, <3>2 DEF Backed
    <3>5. sessions[t].graph \in Graphs /\ TraceOf[sessions[t].graph] = t
      <4>1. sessions[t] \in SessionRow
        BY <3>3 DEF FleetInv, TypeOK
      <4> QED BY <3>3, <4>1 DEF FleetInv, Stored, SessionRow
    <3>6. AgentOf[sessions[t].graph] = a
      BY <3>4, <3>5 DEF Consistent
    <3> QED BY <3>3, <3>6
  <2>2. scored \in SUBSET own
    <3> HIDE DEF scored, own
    <3> QED BY <2>1
  <2>3. IsFiniteSet(own)
    BY FleetAssumption, FS_Subset
  <2>4. Cardinality(scored) <= Cardinality(own)
    <3> HIDE DEF scored, own
    <3> QED BY <2>2, <2>3, FS_Subset
  <2> QED BY <2>4 DEF SessionCount
<1> QED BY <1>1, FleetInductive, PTL

(* What a request reads of an agent is the end of its history.             *)
THEOREM NewestScoresAreShown == Spec => HistoryIsLatest
<1> DEFINE Latest == ReadScores => \A a \in Agents : ShowsLatest(a, picked'[a])
<1>1. FleetInv /\ [Next]_vars => [Latest]_vars
  <2> SUFFICES ASSUME FleetInv, ReadScores PROVE Latest
    OBVIOUS
  <2> QED BY PickedAreLatest DEF ReadScores
<1>2. Spec => [][Latest]_vars
  BY <1>1, FleetInductive, PTL DEF Spec
<1> QED BY <1>2, PTL DEF HistoryIsLatest

(* The outcomes of an agent are split at the first use of the playbook.    *)
THEOREM TrendsSplitAtFirstUse == Spec => []TrendSplitsAtFirstUse
<1>1. FleetInv => TrendSplitsAtFirstUse
  BY SplitAtFirstUse DEF FleetInv, TypeOK
<1> QED BY <1>1, FleetInductive, PTL
=============================================================================
