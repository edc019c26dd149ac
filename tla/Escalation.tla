----------------------------- MODULE Escalation -----------------------------
(***************************************************************************)
(* UncertaintyEscalationController: a prompt is put to the model several   *)
(* times, the agreement of the answers is its consistency score, and a     *)
(* prompt that scores below the threshold is escalated.  The threshold is  *)
(* calibrated from labelled prompts, which are scored one after the other; *)
(* any of these requests may raise.                                        *)
(*                                                                         *)
(* Scores and thresholds are percentages.  A score may also be NaN, the    *)
(* agreement of embeddings of length zero: it is below nothing.            *)
(***************************************************************************)
EXTENDS Integers, Sequences, FiniteSets

CONSTANTS
    Scores,   \* agreements the samples may have
    NaN,
    MaxData   \* bound: labelled prompts of a calibration

ASSUME EscalationAssumption ==
    /\ Scores \subseteq Int
    /\ NaN \notin Int
    /\ MaxData \in Nat

Initially == 70

VARIABLES
    threshold,
    labels,   \* is_failure of the prompts under calibration
    scores,   \* the scores measured so far
    phase     \* idle, calibrating, or fitted to labels and scores

vars == <<threshold, labels, scores, phase>>

-----------------------------------------------------------------------------
Below(s, t) == s # NaN /\ s < t

(* should_escalate: a critical prompt at the threshold, any at its half.   *)
Escalates(t, s, critical) ==
    \/ critical /\ Below(s, t)
    \/ s # NaN /\ 2 * s < t

(* numpy.linspace(0.1, 0.95, 18). *)
Grid == {10 + 5 * k : k \in 0..17}

(* The failures that t catches and those it misses, and its false alarms.  *)
Caught(ls, ss, t) == Cardinality({i \in DOMAIN ls : ls[i] /\ Below(ss[i], t)})
Missed(ls, ss, t) == Cardinality({i \in DOMAIN ls : ls[i] /\ ~Below(ss[i], t)})
Alarms(ls, ss, t) == Cardinality({i \in DOMAIN ls : ~ls[i] /\ Below(ss[i], t)})

(* Mutant: precision alone. *)
Better_Precision(ls, ss, t, u) ==
    Caught(ls, ss, t) * (Caught(ls, ss, u) + Alarms(ls, ss, u))
      > Caught(ls, ss, u) * (Caught(ls, ss, t) + Alarms(ls, ss, t))

(* f1(t) > f1(u), where f1 is 2 tp / (2 tp + fp + fn).                     *)
Better(ls, ss, t, u) ==
    LET Errors(v) == Missed(ls, ss, v) + Alarms(ls, ss, v)
    IN  Caught(ls, ss, t) * Errors(u) > Caught(ls, ss, u) * Errors(t)

(* Mutant: best_f1 is not brought up to date. *)
BestThreshold_Latest(ls, ss) ==
    LET catching == {t \in Grid : Caught(ls, ss, t) > 0}
    IN  IF catching = {} THEN threshold
        ELSE CHOOSE t \in catching : \A u \in catching : u <= t

(* The first t of the grid whose f1 no other exceeds; the threshold stays  *)
(* when none catches a failure.                                            *)
BestThreshold(ls, ss) ==
    LET best == {t \in Grid : /\ Caught(ls, ss, t) > 0
                              /\ \A u \in Grid : ~Better(ls, ss, u, t)}
    IN  IF best = {} THEN threshold
        ELSE CHOOSE t \in best : \A u \in best : t <= u

-----------------------------------------------------------------------------
Init ==
    /\ threshold = Initially
    /\ labels = <<>>
    /\ scores = <<>>
    /\ phase = "idle"

Calibrate ==
    /\ phase # "calibrating"
    /\ \E n \in 0..MaxData : labels' \in [1..n -> BOOLEAN]
    /\ scores' = <<>>
    /\ phase' = "calibrating"
    /\ UNCHANGED threshold

(* score: the embeddings' agreement, or the lexical one when any embedding *)
(* request fails.                                                          *)
Score ==
    /\ phase = "calibrating" /\ Len(scores) < Len(labels)
    /\ \E s \in Scores \cup {NaN} : scores' = Append(scores, s)
    /\ UNCHANGED <<threshold, labels, phase>>

(* Mutant: each example moves the threshold at once. *)
ScoreRaises_Keeps ==
    /\ phase = "calibrating" /\ Len(scores) < Len(labels)
    /\ threshold' = BestThreshold(SubSeq(labels, 1, Len(scores)), scores)
    /\ phase' = "idle"
    /\ UNCHANGED <<labels, scores>>

(* A request to sample an answer raises. *)
ScoreRaises ==
    /\ phase = "calibrating" /\ Len(scores) < Len(labels)
    /\ phase' = "idle"
    /\ UNCHANGED <<threshold, labels, scores>>

(* Every prompt is scored: data with one label only leaves the threshold,  *)
(* and so does the exception of roc_auc_score on a NaN.                    *)
Fit ==
    /\ phase = "calibrating" /\ Len(scores) = Len(labels)
    /\ IF {labels[i] : i \in DOMAIN labels} = BOOLEAN
          /\ \A i \in DOMAIN scores : scores[i] # NaN
       THEN /\ threshold' = BestThreshold(labels, scores)
            /\ phase' = "fitted"
       ELSE phase' = "idle" /\ UNCHANGED threshold
    /\ UNCHANGED <<labels, scores>>

Next ==
    \/ Calibrate
    \/ Score
    \/ ScoreRaises
    \/ Fit

Spec == Init /\ [][Next]_vars

-----------------------------------------------------------------------------
(* The threshold stays on the grid, however often it is fitted.            *)
TypeOK ==
    /\ threshold \in Grid
    /\ labels \in Seq(BOOLEAN)
    /\ scores \in Seq(Scores \cup {NaN})
    /\ Len(scores) <= Len(labels)
    /\ phase \in {"idle", "calibrating", "fitted"}

(* Where a threshold of the grid tells the failures from the rest, the     *)
(* calibrated controller escalates a critical prompt exactly when it       *)
(* scores like a failure (consistency.py 97-118 with 76-80).               *)
SeparableDataIsSeparated ==
    phase = "fitted" =>
        LET Separates(t) == \A i \in DOMAIN labels : labels[i] <=> scores[i] < t
        IN  (\E t \in Grid : Separates(t)) =>
              \A i \in DOMAIN labels : Escalates(threshold, scores[i], TRUE) <=> labels[i]

(* u catches failures, as many as t or more, with as many false alarms or  *)
(* fewer, and is better in one of the two.                                 *)
Dominates(ls, ss, u, t) ==
    /\ Caught(ls, ss, u) > 0
    /\ Caught(ls, ss, u) >= Caught(ls, ss, t)
    /\ Alarms(ls, ss, u) <= Alarms(ls, ss, t)
    /\ \/ Caught(ls, ss, u) > Caught(ls, ss, t)
       \/ Alarms(ls, ss, u) < Alarms(ls, ss, t)

(* A calibration never trades the threshold in force, nor any of the grid, *)
(* for one that the data shows to be worse: nothing it could have had      *)
(* would catch more with no more false alarms.  That covers the threshold  *)
(* it replaces because every threshold ever in force, the constructor's    *)
(* and those left by calibrations that broke off, is one of the grid       *)
(* (consistency.py 71, 97-117).                                            *)
RecalibrationLosesNothing ==
    [][phase' = "fitted" =>
         \A u \in Grid \cup {threshold} : ~Dominates(labels, scores, u, threshold')]_vars

(* A calibration that breaks off, by an exception or on useless data,      *)
(* leaves the threshold that was in force: a new one caught a failure in   *)
(* data that was scored to the end (84-118).                               *)
BrokenCalibrationChangesNothing ==
    [][threshold' # threshold =>
         /\ Len(scores) = Len(labels)
         /\ \E i, j \in DOMAIN labels :
              labels[i] /\ ~labels[j] /\ Below(scores[i], threshold')]_vars
=============================================================================
