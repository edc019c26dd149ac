-------------------------- MODULE EscalationProofs --------------------------
(***************************************************************************)
(* Theorems about Escalation, for calibration data of any size and any     *)
(* scores.                                                                 *)
(***************************************************************************)
EXTENDS Escalation, FiniteSetTheorems, WellFoundedInduction, TLAPS

EscalationInv == TypeOK /\ SeparableDataIsSeparated

-----------------------------------------------------------------------------
(* A set of thresholds that is not empty has a lowest. *)
LEMMA Lowest ==
    ASSUME NEW T \in SUBSET Grid, T # {}
    PROVE  \E t \in T : \A u \in T : t <= u
<1>0. T \subseteq Nat
  BY DEF Grid
<1>1. PICK t \in T : \A u \in T : <<u, t>> \notin OpToRel(<, Nat)
  BY <1>0, NatLessThanWellFounded, WFMin
<1>2. \A u \in T : ~(u < t)
  BY <1>0, <1>1 DEF OpToRel
<1> QED BY <1>0, <1>2

(* The three counts are numbers, zero when there is nothing to count.      *)
LEMMA CountsOfData ==
    ASSUME NEW ls \in Seq(BOOLEAN), NEW ss, NEW t
    PROVE  /\ Caught(ls, ss, t) \in Nat /\ Missed(ls, ss, t) \in Nat
           /\ Alarms(ls, ss, t) \in Nat
           /\ Caught(ls, ss, t) = 0 <=> \A i \in DOMAIN ls : ~(ls[i] /\ Below(ss[i], t))
           /\ Missed(ls, ss, t) = 0 <=> \A i \in DOMAIN ls : ~(ls[i] /\ ~Below(ss[i], t))
           /\ Alarms(ls, ss, t) = 0 <=> \A i \in DOMAIN ls : ~(~ls[i] /\ Below(ss[i], t))
<1> DEFINE C == {i \in DOMAIN ls : ls[i] /\ Below(ss[i], t)}
           M == {i \in DOMAIN ls : ls[i] /\ ~Below(ss[i], t)}
           A == {i \in DOMAIN ls : ~ls[i] /\ Below(ss[i], t)}
<1>1. IsFiniteSet(DOMAIN ls)
  <2>1. DOMAIN ls = 1..Len(ls) /\ Len(ls) \in Nat
    OBVIOUS
  <2> QED BY <2>1, FS_Interval
<1>2. IsFiniteSet(C) /\ IsFiniteSet(M) /\ IsFiniteSet(A)
  BY <1>1, FS_Subset
<1>3. /\ Cardinality(C) \in Nat /\ (Cardinality(C) = 0 <=> C = {})
      /\ Cardinality(M) \in Nat /\ (Cardinality(M) = 0 <=> M = {})
      /\ Cardinality(A) \in Nat /\ (Cardinality(A) = 0 <=> A = {})
  BY <1>2, FS_EmptySet, FS_CardinalityType
<1> QED BY <1>3 DEF Caught, Missed, Alarms

(* The new threshold is of the grid, catches a failure, and no other is    *)
(* better; without one that catches any, the threshold stays.              *)
LEMMA BestIsBest ==
    ASSUME NEW ls, NEW ss, NEW t, t = BestThreshold(ls, ss)
    PROVE  \/ /\ t \in Grid
              /\ Caught(ls, ss, t) > 0
              /\ \A u \in Grid : ~Better(ls, ss, u, t)
           \/ /\ t = threshold
              /\ \A v \in Grid : ~ /\ Caught(ls, ss, v) > 0
                                   /\ \A u \in Grid : ~Better(ls, ss, u, v)
<1> DEFINE best == {v \in Grid : /\ Caught(ls, ss, v) > 0
                                 /\ \A u \in Grid : ~Better(ls, ss, u, v)}
<1>1. CASE best = {}
  BY <1>1 DEF BestThreshold
<1>2. CASE best # {}
  <2>1. t = CHOOSE v \in best : \A u \in best : v <= u
    BY <1>2 DEF BestThreshold
  <2>2. best \in SUBSET Grid
    OBVIOUS
  <2>3. t \in best
    <3> HIDE DEF best
    <3> QED BY <1>2, <2>1, <2>2, Lowest
  <2> QED BY <2>3
<1> QED BY <1>1, <1>2

(* Products that vanish. *)
LEMMA Product ==
    ASSUME NEW p \in Nat, NEW e \in Nat
    PROVE  p * 0 = 0 /\ (p > 0 /\ ~(p * e > 0) => e = 0) /\ ~(0 > p * e)
OBVIOUS

(* If some threshold of the grid makes no error, the best makes none.      *)
LEMMA BestSeparates ==
    ASSUME NEW ls \in Seq(BOOLEAN), NEW ss, NEW s \in Grid, NEW t,
           t = BestThreshold(ls, ss), \E i \in DOMAIN ls : ls[i],
           \A i \in DOMAIN ls : ls[i] <=> Below(ss[i], s)
    PROVE  \A i \in DOMAIN ls : ls[i] <=> Below(ss[i], t)
<1>1. Missed(ls, ss, s) = 0 /\ Alarms(ls, ss, s) = 0
  BY CountsOfData
<1>2. Caught(ls, ss, s) \in Nat /\ Caught(ls, ss, s) > 0
  BY CountsOfData
<1>3. \A u \in Grid : ~Better(ls, ss, u, s)
  <2> SUFFICES ASSUME NEW u \in Grid PROVE ~Better(ls, ss, u, s)
    OBVIOUS
  <2>1. /\ Caught(ls, ss, u) \in Nat
        /\ Missed(ls, ss, u) \in Nat /\ Alarms(ls, ss, u) \in Nat
    BY CountsOfData
  <2>2. Missed(ls, ss, u) + Alarms(ls, ss, u) \in Nat /\ 0 + 0 = 0
    BY <2>1
  <2> QED BY <1>1, <1>2, <2>1, <2>2, Product DEF Better
<1>4. Caught(ls, ss, t) > 0 /\ ~Better(ls, ss, s, t)
  BY <1>2, <1>3, BestIsBest
<1>5. Missed(ls, ss, t) + Alarms(ls, ss, t) = 0
  <2>1. /\ Caught(ls, ss, t) \in Nat
        /\ Missed(ls, ss, t) \in Nat /\ Alarms(ls, ss, t) \in Nat
    BY CountsOfData
  <2> DEFINE e == Missed(ls, ss, t) + Alarms(ls, ss, t)
  <2>2. e \in Nat
    BY <2>1
  <2>3. ~(Caught(ls, ss, s) * e > Caught(ls, ss, t) * 0)
    <3>1. Missed(ls, ss, s) + Alarms(ls, ss, s) = 0
      BY <1>1
    <3> QED BY <1>4, <3>1 DEF Better
  <2> HIDE DEF e
  <2>4. e = 0
    BY <1>2, <2>1, <2>2, <2>3, Product
  <2> QED BY <2>4 DEF e
<1>6. Missed(ls, ss, t) = 0 /\ Alarms(ls, ss, t) = 0
  <2>1. Missed(ls, ss, t) \in Nat /\ Alarms(ls, ss, t) \in Nat
    BY CountsOfData
  <2> QED BY <1>5, <2>1
<1>7. \A i \in DOMAIN ls : ~(ls[i] /\ ~Below(ss[i], t)) /\ ~(~ls[i] /\ Below(ss[i], t))
  BY <1>6, CountsOfData
<1> QED BY <1>7
-----------------------------------------------------------------------------
(* The thresholds that are tried.                                          *)
LEMMA GridInRange == Grid \subseteq 10..95 /\ Initially \in Grid
<1>1. Initially = 10 + 5 * 12 /\ 12 \in 0..17
  BY DEF Initially
<1> QED BY <1>1 DEF Grid

(* The threshold of every calibration is of the grid or the one before.    *)
LEMMA ThresholdInRange ==
    ASSUME threshold \in Grid, NEW ls, NEW ss
    PROVE  BestThreshold(ls, ss) \in Grid
BY BestIsBest

(* A number at a positive threshold: half of it adds nothing. *)
LEMMA CriticalIsBelow ==
    ASSUME NEW s \in Scores, NEW t \in 10..95
    PROVE  /\ Below(s, t) <=> s < t
           /\ Escalates(t, s, TRUE) <=> s < t
<1>1. s \in Int /\ s # NaN
  BY EscalationAssumption
<1> QED BY <1>1 DEF Below, Escalates

(* A fitted threshold separates its data if that can be done.              *)
LEMMA FitSeparates ==
    ASSUME EscalationInv, Fit
    PROVE  SeparableDataIsSeparated'
<1> USE DEF EscalationInv
<1>1. SUFFICES ASSUME phase' = "fitted",
                      NEW t \in Grid,
                      \A i \in DOMAIN labels : labels[i] <=> scores[i] < t
               PROVE  \A i \in DOMAIN labels :
                        Escalates(threshold', scores[i], TRUE) <=> labels[i]
  BY DEF Fit, SeparableDataIsSeparated
<1>2. /\ {labels[i] : i \in DOMAIN labels} = BOOLEAN
      /\ \A i \in DOMAIN scores : scores[i] # NaN
      /\ threshold' = BestThreshold(labels, scores)
      /\ Len(scores) = Len(labels)
  BY <1>1 DEF Fit
<1>3. labels \in Seq(BOOLEAN) /\ scores \in Seq(Scores \cup {NaN}) /\ threshold \in Grid
  BY DEF TypeOK
<1>4. \A i \in DOMAIN labels : scores[i] \in Scores
  <2>1. DOMAIN labels = DOMAIN scores
    BY <1>2, <1>3
  <2>2. \A i \in DOMAIN scores : scores[i] \in Scores \cup {NaN}
    BY <1>3
  <2> QED BY <1>2, <2>1, <2>2
<1>5. threshold' \in 10..95 /\ t \in 10..95
  BY <1>2, <1>3, ThresholdInRange, GridInRange
<1>6. \A i \in DOMAIN labels : labels[i] <=> Below(scores[i], t)
  BY <1>1, <1>4, <1>5, CriticalIsBelow
<1>7. \E i \in DOMAIN labels : labels[i]
  <2>1. TRUE \in {labels[i] : i \in DOMAIN labels}
    BY <1>2
  <2> QED BY <2>1
<1>8. \A i \in DOMAIN labels : labels[i] <=> Below(scores[i], threshold')
  BY <1>2, <1>3, <1>6, <1>7, BestSeparates
<1> QED BY <1>4, <1>5, <1>8, CriticalIsBelow

(* Every step keeps the inductive invariant.                               *)
LEMMA InvStep == EscalationInv /\ [Next]_vars => EscalationInv'
<1> SUFFICES ASSUME EscalationInv, [Next]_vars PROVE EscalationInv'
  OBVIOUS
<1> USE DEF EscalationInv
<1>1. CASE Calibrate
  <2>1. PICK n \in 0..MaxData : labels' \in [1..n -> BOOLEAN]
    BY <1>1 DEF Calibrate
  <2>2. n \in Nat
    BY <2>1, EscalationAssumption
  <2>3. labels' \in Seq(BOOLEAN) /\ Len(labels') \in Nat
    BY <2>1, <2>2
  <2>4. scores' = <<>> /\ phase' = "calibrating" /\ threshold' = threshold
    BY <1>1 DEF Calibrate
  <2> QED BY <2>3, <2>4 DEF TypeOK, SeparableDataIsSeparated
<1>2. CASE Score
  <2>1. PICK s \in Scores \cup {NaN} : scores' = Append(scores, s)
    BY <1>2 DEF Score
  <2>2. phase' = "calibrating" /\ UNCHANGED <<threshold, labels>>
        /\ Len(scores) < Len(labels)
    BY <1>2 DEF Score
  <2>3. scores' \in Seq(Scores \cup {NaN}) /\ Len(scores') <= Len(labels)
    BY <2>1, <2>2 DEF TypeOK
  <2> QED BY <2>2, <2>3 DEF TypeOK, SeparableDataIsSeparated
<1>3. CASE ScoreRaises
  BY <1>3 DEF ScoreRaises, TypeOK, SeparableDataIsSeparated
<1>4. CASE Fit
  <2>1. TypeOK'
    BY <1>4, ThresholdInRange DEF Fit, TypeOK
  <2> QED BY <1>4, <2>1, FitSeparates
<1>5. CASE UNCHANGED vars
  BY <1>5 DEF vars, TypeOK, SeparableDataIsSeparated
<1> QED BY <1>1, <1>2, <1>3, <1>4, <1>5 DEF Next

(* The threshold stays on the grid through any number of calibrations,     *)
(* broken off or not, and separates separable data.                        *)
THEOREM EscalationInductive == Spec => []EscalationInv
<1>1. Init => EscalationInv
  BY GridInRange DEF Init, EscalationInv, TypeOK, SeparableDataIsSeparated
<1> QED BY <1>1, InvStep, PTL DEF Spec

(* Whatever the number of prompts: a fitted threshold escalates exactly    *)
(* the failures if one of the grid does.                                   *)
THEOREM SeparableIsSeparated == Spec => []SeparableDataIsSeparated
<1>1. EscalationInv => SeparableDataIsSeparated
  BY DEF EscalationInv
<1> QED BY <1>1, EscalationInductive, PTL

(* What is caught and what is missed are together all failures.            *)
LEMMA CaughtAndMissed ==
    ASSUME NEW ls \in Seq(BOOLEAN), NEW ss, NEW t
    PROVE  Caught(ls, ss, t) + Missed(ls, ss, t) = Cardinality({i \in DOMAIN ls : ls[i]})
<1> DEFINE C == {i \in DOMAIN ls : ls[i] /\ Below(ss[i], t)}
           M == {i \in DOMAIN ls : ls[i] /\ ~Below(ss[i], t)}
           F == {i \in DOMAIN ls : ls[i]}
<1>1. IsFiniteSet(DOMAIN ls)
  <2>1. DOMAIN ls = 1..Len(ls) /\ Len(ls) \in Nat
    OBVIOUS
  <2> QED BY <2>1, FS_Interval
<1>2. IsFiniteSet(C) /\ IsFiniteSet(M)
  BY <1>1, FS_Subset
<1>3. C \cup M = F /\ C \cap M = {}
  OBVIOUS
<1> HIDE DEF C, M, F
<1>4. Cardinality(F) = Cardinality(C) + Cardinality(M) - Cardinality({})
  BY <1>2, <1>3, FS_Union
<1>5. Cardinality(C) \in Nat /\ Cardinality(M) \in Nat /\ Cardinality({}) = 0
  BY <1>2, FS_CardinalityType, FS_EmptySet
<1> QED BY <1>4, <1>5 DEF C, M, F, Caught, Missed

(* f1 orders the thresholds: x better than w and w better than v is better *)
(* than v.                                                                 *)
LEMMA RatioNumbers ==
    ASSUME NEW p \in Nat, NEW c \in Nat, NEW a \in Nat, NEW d \in Nat, NEW b \in Nat
    PROVE  c * ((p - d) + b) > d * ((p - c) + a) <=> c * (p + b) > d * (p + a)
<1>1. c * ((p - d) + b) = c * (p + b) - c * d
  OBVIOUS
<1>2. d * ((p - c) + a) = d * (p + a) - c * d
  OBVIOUS
<1>3. c * (p + b) \in Nat /\ d * (p + a) \in Nat /\ c * d \in Nat
  OBVIOUS
<1> QED BY <1>1, <1>2, <1>3

LEMMA RatioTransitive ==
    ASSUME NEW cx \in Nat, NEW cw \in Nat, NEW cv \in Nat,
           NEW px \in Nat, NEW pw \in Nat, NEW pv \in Nat,
           px > 0, pw > 0, pv > 0,
           cx * pw > cw * px, cw * pv > cv * pw
    PROVE  cx * pv > cv * px
<1>1. (cx * pw) * pv > (cw * px) * pv
  <2> DEFINE l == cx * pw
             m == cw * px
  <2>1. l \in Nat /\ m \in Nat /\ l > m
    OBVIOUS
  <2> HIDE DEF l, m
  <2>2. l * pv > m * pv
    BY <2>1
  <2> QED BY <2>2 DEF l, m
<1>2. (cw * pv) * px > (cv * pw) * px
  <2> DEFINE l == cw * pv
             m == cv * pw
  <2>1. l \in Nat /\ m \in Nat /\ l > m
    OBVIOUS
  <2> HIDE DEF l, m
  <2>2. l * px > m * px
    BY <2>1
  <2> QED BY <2>2 DEF l, m
<1>3. /\ (cx * pw) * pv = pw * (cx * pv) /\ (cw * px) * pv = (cw * pv) * px
      /\ (cv * pw) * px = pw * (cv * px)
  OBVIOUS
<1> DEFINE l == cx * pv
           m == cv * px
<1>4. l \in Nat /\ m \in Nat /\ pw * l \in Nat /\ pw * m \in Nat
  OBVIOUS
<1>5. (cw * pv) * px \in Nat
  OBVIOUS
<1>6. pw * l > pw * m
  BY <1>1, <1>2, <1>3, <1>4, <1>5
<1> HIDE DEF l, m
<1>7. l > m
  <2>1. CASE l <= m
    <3>1. pw * l <= pw * m
      BY <1>4, <2>1
    <3> QED BY <1>4, <1>6, <3>1
  <2> QED BY <1>4, <2>1
<1> QED BY <1>7 DEF l, m

(* The arithmetic of f1: c caught, a false alarms, p - c missed.           *)
LEMMA DominantNumbers ==
    ASSUME NEW c \in Nat, NEW a \in Nat, NEW d \in Nat, NEW b \in Nat, NEW p \in Nat,
           c <= p, c > 0, d <= c, a <= b, d < c \/ a < b
    PROVE  c * ((p - d) + b) > d * ((p - c) + a)
<1>1. c * ((p - d) + b) = c * p - c * d + c * b
  OBVIOUS
<1>2. d * ((p - c) + a) = d * p - c * d + d * a
  OBVIOUS
<1>3. /\ c * p \in Nat /\ c * d \in Nat /\ c * b \in Nat
      /\ d * p \in Nat /\ d * a \in Nat /\ c * a \in Nat
  OBVIOUS
<1>4. d * p <= c * p /\ d * a <= c * a /\ c * a <= c * b
  OBVIOUS
<1>5. CASE d < c
  <2>1. d * p < c * p
    BY <1>5
  <2> QED BY <1>1, <1>2, <1>3, <1>4, <2>1
<1>6. CASE a < b
  <2>1. c * a < c * b
    BY <1>6
  <2> QED BY <1>1, <1>2, <1>3, <1>4, <2>1
<1> QED BY <1>5, <1>6

(* A threshold that dominates another has the higher f1.                   *)
LEMMA DominantIsBetter ==
    ASSUME NEW ls \in Seq(BOOLEAN), NEW ss, NEW u, NEW t, Dominates(ls, ss, u, t)
    PROVE  Better(ls, ss, u, t)
<1> DEFINE c == Caught(ls, ss, u)
           a == Alarms(ls, ss, u)
           d == Caught(ls, ss, t)
           b == Alarms(ls, ss, t)
           p == Cardinality({i \in DOMAIN ls : ls[i]})
<1>1. c \in Nat /\ a \in Nat /\ d \in Nat /\ b \in Nat
  BY CountsOfData
<1>2. /\ Missed(ls, ss, u) \in Nat /\ c + Missed(ls, ss, u) = p
      /\ Missed(ls, ss, t) \in Nat /\ d + Missed(ls, ss, t) = p
  BY CountsOfData, CaughtAndMissed
<1>3. c > 0 /\ d <= c /\ a <= b /\ (d < c \/ a < b)
  BY <1>1 DEF Dominates
<1> HIDE DEF c, a, d, b, p
<1>4. /\ p \in Nat /\ c <= p
      /\ Missed(ls, ss, u) = p - c /\ Missed(ls, ss, t) = p - d
  BY <1>1, <1>2
<1>5. c * ((p - d) + b) > d * ((p - c) + a)
  BY <1>1, <1>3, <1>4, DominantNumbers
<1> QED BY <1>4, <1>5 DEF Better, c, a, d, b

(* Better, in numbers. *)
LEMMA BetterNumbers ==
    ASSUME NEW ls \in Seq(BOOLEAN), NEW ss
    PROVE  \E p \in Nat : \A t :
             /\ Caught(ls, ss, t) \in Nat /\ Alarms(ls, ss, t) \in Nat
             /\ Caught(ls, ss, t) <= p
             /\ \A u : Better(ls, ss, u, t) <=>
                  Caught(ls, ss, u) * (p + Alarms(ls, ss, t))
                    > Caught(ls, ss, t) * (p + Alarms(ls, ss, u))
<1> DEFINE p == Cardinality({i \in DOMAIN ls : ls[i]})
<1>1. \A t : /\ Caught(ls, ss, t) \in Nat /\ Alarms(ls, ss, t) \in Nat
             /\ Missed(ls, ss, t) \in Nat
             /\ Caught(ls, ss, t) + Missed(ls, ss, t) = p
  BY CountsOfData, CaughtAndMissed
<1> HIDE DEF p
<1>2. p \in Nat
  <2>1. Caught(ls, ss, 0) + Missed(ls, ss, 0) = p
    BY <1>1
  <2> QED BY <1>1, <2>1
<1>3. \A t : Caught(ls, ss, t) <= p /\ Missed(ls, ss, t) = p - Caught(ls, ss, t)
  <2> TAKE t
  <2>1. Caught(ls, ss, t) \in Nat /\ Missed(ls, ss, t) \in Nat
        /\ Caught(ls, ss, t) + Missed(ls, ss, t) = p
    BY <1>1
  <2> QED BY <1>2, <2>1
<1>4. ASSUME NEW t, NEW u
      PROVE  Better(ls, ss, u, t) <=>
               Caught(ls, ss, u) * (p + Alarms(ls, ss, t))
                 > Caught(ls, ss, t) * (p + Alarms(ls, ss, u))
  <2>1. /\ Caught(ls, ss, u) \in Nat /\ Alarms(ls, ss, u) \in Nat
        /\ Caught(ls, ss, t) \in Nat /\ Alarms(ls, ss, t) \in Nat
        /\ Missed(ls, ss, u) = p - Caught(ls, ss, u)
        /\ Missed(ls, ss, t) = p - Caught(ls, ss, t)
    BY <1>1, <1>3
  <2> QED BY <1>2, <2>1, RatioNumbers DEF Better
<1> QED BY <1>1, <1>2, <1>3, <1>4

(* If any threshold of the grid catches a failure, one has the best f1.    *)
LEMMA BestExists ==
    ASSUME NEW ls \in Seq(BOOLEAN), NEW ss, NEW u \in Grid, Caught(ls, ss, u) > 0
    PROVE  \E v \in Grid : /\ Caught(ls, ss, v) > 0
                          /\ \A w \in Grid : ~Better(ls, ss, w, v)
<1> DEFINE C(t) == Caught(ls, ss, t)
           A(t) == Alarms(ls, ss, t)
           B(x, y) == Better(ls, ss, x, y)
           D(t) == {w \in Grid : B(w, t)}
           T == {D(t) : t \in {x \in Grid : C(x) > 0}}
<1>1. PICK p \in Nat : \A t : /\ C(t) \in Nat /\ A(t) \in Nat /\ C(t) <= p
                             /\ \A x : B(x, t) <=> C(x) * (p + A(t)) > C(t) * (p + A(x))
  BY BetterNumbers
<1>2. C(u) > 0
  OBVIOUS
<1> HIDE DEF C, A, B
<1>3. p > 0
  BY <1>1, <1>2
<1>4. \A x, w, v : B(x, w) /\ B(w, v) => B(x, v)
  <2> SUFFICES ASSUME NEW x, NEW w, NEW v, B(x, w), B(w, v) PROVE B(x, v)
    OBVIOUS
  <2> DEFINE px == p + A(x)
             pw == p + A(w)
             pv == p + A(v)
  <2>1. /\ C(x) \in Nat /\ C(w) \in Nat /\ C(v) \in Nat
        /\ px \in Nat /\ pw \in Nat /\ pv \in Nat /\ px > 0 /\ pw > 0 /\ pv > 0
    <3>1. /\ C(x) \in Nat /\ C(w) \in Nat /\ C(v) \in Nat
          /\ A(x) \in Nat /\ A(w) \in Nat /\ A(v) \in Nat
      BY <1>1
    <3> QED BY <1>3, <3>1
  <2>2. C(x) * pw > C(w) * px /\ C(w) * pv > C(v) * pw
    BY <1>1
  <2> HIDE DEF px, pw, pv
  <2>3. C(x) * pv > C(v) * px
    BY <2>1, <2>2, RatioTransitive
  <2> QED BY <1>1, <2>3 DEF px, pv
<1>5. \A x : ~B(x, x)
  <2> TAKE x
  <2> DEFINE k == C(x) * (p + A(x))
  <2>1. C(x) \in Nat /\ A(x) \in Nat
    BY <1>1
  <2>2. k \in Nat
    BY <2>1
  <2>3. B(x, x) <=> k > k
    BY <1>1
  <2> HIDE DEF k
  <2> QED BY <2>2, <2>3
<1>6. \A x, t : B(x, t) => C(x) > 0
  <2> SUFFICES ASSUME NEW x, NEW t, B(x, t), C(x) = 0 PROVE FALSE
    BY <1>1
  <2>1. C(x) * (p + A(t)) > C(t) * (p + A(x))
    BY <1>1
  <2>2. C(t) \in Nat /\ A(t) \in Nat /\ A(x) \in Nat
    BY <1>1
  <2>3. 0 * (p + A(t)) = 0 /\ C(t) * (p + A(x)) \in Nat
    BY <2>2
  <2> QED BY <2>1, <2>3
<1>7. IsFiniteSet(Grid)
  <2>1. IsFiniteSet(10..95)
    <3>1. 10 \in Int /\ 95 \in Int
      OBVIOUS
    <3> QED BY <3>1, FS_Interval
  <2> QED BY <2>1, GridInRange, FS_Subset
<1>8. T \subseteq FiniteSubsetsOf(Grid) /\ T # {}
  <2>1. \A t : D(t) \subseteq Grid /\ IsFiniteSet(D(t))
    BY <1>7, FS_Subset
  <2> QED BY <1>2, <2>1 DEF FiniteSubsetsOf
<1>9. PICK S \in T : \A R \in T : <<R, S>> \notin StrictSubsetOrdering(Grid)
  <2> HIDE DEF T
  <2> QED BY <1>8, FS_StrictSubsetOrderingWellFounded, WFMin
<1>10. PICK v \in Grid : C(v) > 0 /\ S = D(v)
  BY <1>9
<1>11. ASSUME NEW w \in Grid, B(w, v)
       PROVE  FALSE
  <2>1. D(w) \in T
    BY <1>6, <1>11
  <2>2. D(w) \subseteq D(v) /\ w \in D(v) /\ w \notin D(w)
    BY <1>4, <1>5, <1>11
  <2>3. <<D(w), S>> \in StrictSubsetOrdering(Grid)
    BY <1>10, <2>2 DEF StrictSubsetOrdering
  <2> QED BY <1>9, <2>1, <2>3
<1> QED BY <1>10, <1>11 DEF B, C

(* Whatever the number of prompts: a calibration leaves no threshold that  *)
(* another of the grid dominates, nor one that the threshold it replaces   *)
(* would have dominated (Escalation!RecalibrationLosesNothing).            *)
THEOREM RecalibrationIsNoLoss == Spec => RecalibrationLosesNothing
<1> DEFINE Kept == phase' = "fitted" =>
              \A u \in Grid \cup {threshold} : ~Dominates(labels, scores, u, threshold')
<1>1. EscalationInv /\ [Next]_vars => [Kept]_vars
  <2> SUFFICES ASSUME EscalationInv, [Next]_vars, vars' # vars, phase' = "fitted",
                      NEW u \in Grid \cup {threshold},
                      Dominates(labels, scores, u, threshold')
               PROVE  FALSE
    OBVIOUS
  <2>1. threshold' = BestThreshold(labels, scores)
    BY DEF Next, vars, Calibrate, Score, ScoreRaises, Fit
  <2>2. labels \in Seq(BOOLEAN) /\ u \in Grid
    BY DEF EscalationInv, TypeOK
  <2>3. Better(labels, scores, u, threshold') /\ Caught(labels, scores, u) > 0
    BY <2>2, DominantIsBetter DEF Dominates
  <2> QED BY <2>1, <2>2, <2>3, BestIsBest, BestExists
<1>2. Spec => [][Kept]_vars
  BY <1>1, EscalationInductive, PTL DEF Spec
<1> QED BY <1>2 DEF RecalibrationLosesNothing

(* The threshold moves only at the end of a calibration whose every prompt *)
(* was scored, to a value that catches one of its failures.                *)
THEOREM BrokenCalibrationIsHarmless == Spec => BrokenCalibrationChangesNothing
<1> DEFINE Moved == threshold' # threshold =>
                /\ Len(scores) = Len(labels)
                /\ \E i, j \in DOMAIN labels :
                     labels[i] /\ ~labels[j] /\ Below(scores[i], threshold')
<1>1. EscalationInv /\ [Next]_vars => [Moved]_vars
  <2> SUFFICES ASSUME EscalationInv, [Next]_vars, threshold' # threshold
               PROVE  Moved
    OBVIOUS
  <2>1. Fit
    BY DEF Next, vars, Calibrate, Score, ScoreRaises
  <2>2. /\ Len(scores) = Len(labels)
        /\ {labels[i] : i \in DOMAIN labels} = BOOLEAN
        /\ threshold' = BestThreshold(labels, scores)
    BY <2>1 DEF Fit
  <2>3. Caught(labels, scores, threshold') > 0
    BY <2>2, BestIsBest
  <2>4. \E i \in DOMAIN labels : labels[i] /\ Below(scores[i], threshold')
    <3>1. labels \in Seq(BOOLEAN)
      BY DEF EscalationInv, TypeOK
    <3> QED BY <2>3, <3>1, CountsOfData
  <2>5. \E j \in DOMAIN labels : ~labels[j]
    <3>1. FALSE \in {labels[i] : i \in DOMAIN labels}
      BY <2>2
    <3> QED BY <3>1
  <2> QED BY <2>2, <2>4, <2>5
<1>2. Spec => [][Moved]_vars
  BY <1>1, EscalationInductive, PTL DEF Spec
<1> QED BY <1>2 DEF BrokenCalibrationChangesNothing
=============================================================================
