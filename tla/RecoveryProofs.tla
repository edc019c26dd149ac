---------------------------- MODULE RecoveryProofs ----------------------------
(***************************************************************************)
(* Theorems about Recovery, for every number of reports, workers,          *)
(* deliveries and faults.                                                  *)
(***************************************************************************)
EXTENDS Recovery, FiniteSetTheorems, WellFoundedInduction, TLAPS

(* Report r is in the hands of w's handler, at one of these steps.         *)
Handles(w, r, steps) == running[w] = r /\ step[w] \in steps

(* Deliveries of r that have not yet reached the bandit, the first table.  *)
Unlearned(w, r) == r \in arrived[w] \/ Handles(w, r, {"learn"})
Unsaved(r) == {w \in Workers : r \in arrived[w] \/ Handles(w, r, {"learn", "outcome"})}

(* Handlers whose report has its outcome of this delivery, no snapshot.    *)
HalfSaved(r) == {w \in Workers : Handles(w, r, {"snapshot"})}

(* A request is waiting or running at a worker that is up, and only one of *)
(* the two; only a handler with _db set writes to the tables.              *)
Placed ==
    \A w \in Workers :
        /\ running[w] \notin arrived[w]
        /\ mode[w] = "down" => running[w] = None /\ arrived[w] = {}
        /\ step[w] \in {"outcome", "snapshot"} => mode[w] = "postgres"

(* A delivery that waits for a step has not taken it.                      *)
MemoryCounts ==
    \A w \in Workers, r \in Reports :
        /\ learned[w][r] + (IF Unlearned(w, r) THEN 1 ELSE 0) <= sends[r]
        /\ logged[w][r] + (IF Handles(w, r, {"outcome", "snapshot", "log"}) THEN 1 ELSE 0)
             <= learned[w][r]

RowCounts(r) ==
    /\ IsFiniteSet(Unsaved(r)) /\ IsFiniteSet(HalfSaved(r))
    /\ outcomes[r] + Cardinality(Unsaved(r)) <= sends[r]
    /\ snapshots[r] + Cardinality(HalfSaved(r)) <= outcomes[r]

TableCounts == \A r \in Reports : RowCounts(r)

(* A handler that is about to answer 200 has written both rows.            *)
BothWritten ==
    \A w \in Workers :
        step[w] = "log" /\ mode[w] = "postgres" =>
            outcomes[running[w]] > 0 /\ snapshots[running[w]] > 0

RecoveryInv ==
    /\ TypeOK
    /\ Placed
    /\ MemoryCounts
    /\ TableCounts
    /\ BothWritten
    /\ AckedReportIsStored

-----------------------------------------------------------------------------
(* The mean of numbers up to Scale is one, in whole units too.             *)
LEMMA MeanInRange ==
    ASSUME NEW old \in 0..Scale, NEW reward \in 0..Scale, NEW n \in Nat \ {0}
    PROVE  Mean(old, reward, n) \in 0..Scale
<1>1. ASSUME NEW d \in Int
      PROVE  /\ d >= 0 => 0 <= d \div n /\ d \div n <= d
             /\ d <= 0 => d <= d \div n /\ d \div n <= 0
             /\ d \div n \in Int
  OBVIOUS
<1>2. reward - old \in Int /\ Scale \in Nat
  BY RecoveryAssumption
<1> QED BY <1>1, <1>2 DEF Mean

(* A reward, in units of 1/Scale, is between 0 and Scale.                  *)
LEMMA RewardInRange ==
    ASSUME NEW r \in Reports
    PROVE  (RewardOf[r] * Scale) \div 2 \in 0..Scale
<1>1. RewardOf[r] \in {0, 1, 2} /\ Scale \in Nat
  BY RecoveryAssumption
<1> QED BY <1>1

(* The answer to a report leaves what its client knows in range.           *)
LEMMA AnswerType ==
    ASSUME TypeOK, NEW w \in Workers, NEW r \in Reports, NEW code, Answer(w, r, code)
    PROVE  /\ status' \in [Reports -> {"ready", "waiting", "acked", "acked_unstored"}]
           /\ at' \in [Reports -> Workers \cup {None}]
<1> DEFINE known == IF code # 200 THEN "ready"
                    ELSE IF mode[w] = "postgres" THEN "acked" ELSE "acked_unstored"
<1>1. known \in {"ready", "waiting", "acked", "acked_unstored"}
  OBVIOUS
<1>2. \/ UNCHANGED <<status, at>>
      \/ /\ at' = [at EXCEPT ![r] = None]
         /\ status' = [status EXCEPT ![r] = known]
  BY DEF Answer
<1> HIDE DEF known
<1> QED BY <1>1, <1>2 DEF TypeOK

(* A handler that is not idle has a report.                                *)
LEMMA RunsReport ==
    ASSUME TypeOK, NEW w \in Workers, step[w] # "idle"
    PROVE  running[w] \in Reports
BY DEF TypeOK

(* The part of TypeOK that the end of a handler and a move to another step *)
(* are about.                                                              *)
HandlerType ==
    /\ status \in [Reports -> {"ready", "waiting", "acked", "acked_unstored"}]
    /\ at \in [Reports -> Workers \cup {None}]
    /\ running \in [Workers -> Reports \cup {None}]
    /\ step \in [Workers -> {"idle", "learn", "outcome", "snapshot", "log"}]
    /\ \A w \in Workers : running[w] = None <=> step[w] = "idle"

(* What the end of a delivery changes keeps its range.                     *)
LEMMA FinishType ==
    ASSUME TypeOK, NEW w \in Workers, step[w] # "idle", NEW code, Finish(w, code)
    PROVE  HandlerType'
<1>1. /\ status' \in [Reports -> {"ready", "waiting", "acked", "acked_unstored"}]
      /\ at' \in [Reports -> Workers \cup {None}]
  BY RunsReport, AnswerType DEF Finish
<1> QED BY <1>1 DEF Finish, TypeOK, HandlerType

(* So does a step to another label of the handler.                         *)
LEMMA GotoType ==
    ASSUME TypeOK, NEW w \in Workers, step[w] # "idle",
           NEW s \in {"learn", "outcome", "snapshot", "log"}, Goto(w, s)
    PROVE  HandlerType'
<1>1. running[w] # None
  BY RunsReport, RecoveryAssumption
<1> QED BY <1>1 DEF Goto, TypeOK, HandlerType

(* What the bandit learns stays in range.                                  *)
LEMMA LearnType ==
    ASSUME TypeOK, NEW w \in Workers, Learn(w)
    PROVE  /\ counts' \in [Workers -> [Keys \cup Modes -> [Playbooks -> Nat]]]
           /\ q' \in [Workers -> [Keys \cup Modes -> [Playbooks -> 0..Scale]]]
           /\ learned' \in [Workers -> [Reports -> Nat]]
<1> DEFINE r == running[w]
           k == KeyOf[r]
           p == PlaybookOf[r]
           n == counts[w][k][p] + 1
           m == Mean(q[w][k][p], (RewardOf[r] * Scale) \div 2, n)
<1>1. /\ r \in Reports
      /\ k \in Keys \cup Modes
      /\ p \in Playbooks
  BY RunsReport, RecoveryAssumption DEF Learn
<1>2. n \in Nat \ {0} /\ q[w][k][p] \in 0..Scale
  BY <1>1 DEF TypeOK
<1>3. m \in 0..Scale
  BY <1>1, <1>2, MeanInRange, RewardInRange
<1>4. /\ counts' = [counts EXCEPT ![w][k][p] = n]
      /\ q' = [q EXCEPT ![w][k][p] = m]
      /\ learned' = [learned EXCEPT ![w][r] = @ + 1]
  BY DEF Learn
<1> HIDE DEF r, k, p, n, m
<1>5. counts' \in [Workers -> [Keys \cup Modes -> [Playbooks -> Nat]]]
  <2>1. counts \in [Workers -> [Keys \cup Modes -> [Playbooks -> Nat]]]
    BY DEF TypeOK
  <2>2. [counts[w][k] EXCEPT ![p] = n] \in [Playbooks -> Nat]
    BY <1>1, <1>2, <2>1
  <2>3. [counts[w] EXCEPT ![k] = [counts[w][k] EXCEPT ![p] = n]]
          \in [Keys \cup Modes -> [Playbooks -> Nat]]
    BY <1>1, <2>1, <2>2
  <2> QED BY <1>4, <2>1, <2>3
<1>6. q' \in [Workers -> [Keys \cup Modes -> [Playbooks -> 0..Scale]]]
  <2>1. q \in [Workers -> [Keys \cup Modes -> [Playbooks -> 0..Scale]]]
    BY DEF TypeOK
  <2>2. [q[w][k] EXCEPT ![p] = m] \in [Playbooks -> 0..Scale]
    BY <1>1, <1>3, <2>1
  <2>3. [q[w] EXCEPT ![k] = [q[w][k] EXCEPT ![p] = m]]
          \in [Keys \cup Modes -> [Playbooks -> 0..Scale]]
    BY <1>1, <2>1, <2>2
  <2> QED BY <1>4, <2>1, <2>3
<1>7. learned' \in [Workers -> [Reports -> Nat]]
  <2>1. learned[w] \in [Reports -> Nat]
    BY DEF TypeOK
  <2>2. [learned[w] EXCEPT ![r] = @ + 1] \in [Reports -> Nat]
    BY <1>1, <2>1
  <2> QED BY <1>4, <2>2 DEF TypeOK
<1> QED BY <1>5, <1>6, <1>7

(* One more row for a report.                                              *)
LEMMA RowAdded ==
    ASSUME NEW f \in [Reports -> Nat], NEW r \in Reports
    PROVE  [f EXCEPT ![r] = @ + 1] \in [Reports -> Nat]
OBVIOUS

-----------------------------------------------------------------------------
(* Every variable stays in its range, the values of the bandit between the *)
(* worst and the best reward (Recovery!TypeOK).                            *)
THEOREM RecoveryTypeCorrect == Spec => []TypeOK
<1>1. Init => TypeOK
  BY RecoveryAssumption DEF Init, TypeOK, Zero, NoReports
<1>2. TypeOK /\ [Next]_vars => TypeOK'
  <2> SUFFICES ASSUME TypeOK, [Next]_vars PROVE TypeOK'
    OBVIOUS
  <2>1. ASSUME NEW w \in Workers, NEW r \in Reports, Send(w, r)
        PROVE  TypeOK'
    <3>1. sends' \in [Reports -> 0..MaxSends]
      <4>1. sends[r] + 1 \in 0..MaxSends
        BY <2>1, RecoveryAssumption DEF Send, TypeOK
      <4> QED BY <2>1, <4>1 DEF Send, TypeOK
    <3>2. /\ status' \in [Reports -> {"ready", "waiting", "acked", "acked_unstored"}]
          /\ at' \in [Reports -> Workers \cup {None}]
          /\ arrived' \in [Workers -> SUBSET Reports]
      BY <2>1 DEF Send, TypeOK
    <3> QED BY <2>1, <3>1, <3>2 DEF Send, TypeOK, handler, memory, tables
  <2>2. ASSUME NEW w \in Workers, NEW r \in Reports, Reject(w, r)
        PROVE  TypeOK'
    <3>1. arrived' \in [Workers -> SUBSET Reports]
      BY <2>2 DEF Reject, TypeOK
    <3>2. /\ status' \in [Reports -> {"ready", "waiting", "acked", "acked_unstored"}]
          /\ at' \in [Reports -> Workers \cup {None}]
      BY <2>2, AnswerType DEF Reject
    <3> QED BY <2>2, <3>1, <3>2 DEF Reject, TypeOK, handler, memory, tables
  <2>3. ASSUME NEW w \in Workers, NEW r \in Reports, Accept(w, r)
        PROVE  TypeOK'
    <3>1. r # None
      BY RecoveryAssumption
    <3>2. /\ arrived' \in [Workers -> SUBSET Reports]
          /\ running' \in [Workers -> Reports \cup {None}]
          /\ step' \in [Workers -> {"idle", "learn", "outcome", "snapshot", "log"}]
          /\ \A v \in Workers : running'[v] = None <=> step'[v] = "idle"
      BY <2>3, <3>1 DEF Accept, TypeOK
    <3> QED BY <2>3, <3>2 DEF Accept, TypeOK, client, memory, tables
  <2>4. ASSUME NEW r \in Reports, Disconnect(r)
        PROVE  TypeOK'
    <3>1. /\ status' \in [Reports -> {"ready", "waiting", "acked", "acked_unstored"}]
          /\ at' \in [Reports -> Workers \cup {None}]
      BY <2>4 DEF Disconnect, TypeOK
    <3> QED BY <2>4, <3>1 DEF Disconnect, TypeOK, handler, memory, tables
  <2>5. ASSUME NEW w \in Workers, Learn(w)
        PROVE  TypeOK'
    <3>1. PICK s \in {"outcome", "log"} : Goto(w, s)
      BY <2>5 DEF Learn
    <3>2. step[w] # "idle"
      BY <2>5 DEF Learn
    <3> QED BY <2>5, <3>1, <3>2, LearnType, GotoType
            DEF Learn, TypeOK, HandlerType, tables
  <2>6. ASSUME NEW w \in Workers, SaveOutcome(w)
        PROVE  TypeOK'
    <3>1. step[w] # "idle" /\ running[w] \in Reports
      BY <2>6, RunsReport DEF SaveOutcome
    <3>2. outcomes' \in [Reports -> Nat]
      BY <2>6, <3>1, RowAdded DEF SaveOutcome, TypeOK
    <3>3. Goto(w, "snapshot") \/ Finish(w, 500)
      BY <2>6 DEF SaveOutcome
    <3>4. HandlerType'
      BY <3>1, <3>3, GotoType, FinishType
    <3> QED BY <2>6, <3>2, <3>4 DEF SaveOutcome, TypeOK, HandlerType, memory
  <2>7. ASSUME NEW w \in Workers, SaveSnapshot(w)
        PROVE  TypeOK'
    <3>1. step[w] # "idle" /\ running[w] \in Reports
      BY <2>7, RunsReport DEF SaveSnapshot
    <3>2. snapshots' \in [Reports -> Nat]
      BY <2>7, <3>1, RowAdded DEF SaveSnapshot, TypeOK
    <3>3. Goto(w, "log") \/ Finish(w, 500)
      BY <2>7 DEF SaveSnapshot
    <3>4. HandlerType'
      BY <3>1, <3>3, GotoType, FinishType
    <3> QED BY <2>7, <3>2, <3>4 DEF SaveSnapshot, TypeOK, HandlerType, memory
  <2>8. ASSUME NEW w \in Workers, Log(w)
        PROVE  TypeOK'
    <3>1. step[w] # "idle" /\ running[w] \in Reports
      BY <2>8, RunsReport DEF Log
    <3>2. logged' \in [Workers -> [Reports -> Nat]]
      <4>1. logged[w] \in [Reports -> Nat]
        BY DEF TypeOK
      <4>2. [logged[w] EXCEPT ![running[w]] = @ + 1] \in [Reports -> Nat]
        BY <3>1, <4>1, RowAdded
      <4> QED BY <2>8, <4>2 DEF Log, TypeOK
    <3>3. HandlerType'
      BY <2>8, <3>1, FinishType DEF Log
    <3> QED BY <2>8, <3>2, <3>3 DEF Log, TypeOK, HandlerType, tables
  <2>9. ASSUME NEW w \in Workers, Boot(w)
        PROVE  TypeOK'
    <3>1. mode' \in [Workers -> {"down", "memory", "postgres"}]
      <4>1. PICK m \in {"postgres", "memory"} : mode' = [mode EXCEPT ![w] = m]
        BY <2>9 DEF Boot
      <4> QED BY <4>1 DEF TypeOK
    <3> QED BY <2>9, <3>1 DEF Boot, TypeOK, client, handler, memory, tables
  <2>10. ASSUME NEW w \in Workers, Crash(w)
         PROVE  TypeOK'
    <3>1. /\ Zero \in [Keys \cup Modes -> [Playbooks -> Nat]]
          /\ Zero \in [Keys \cup Modes -> [Playbooks -> 0..Scale]]
          /\ NoReports \in [Reports -> Nat]
      BY RecoveryAssumption DEF Zero, NoReports
    <3>2. /\ counts' \in [Workers -> [Keys \cup Modes -> [Playbooks -> Nat]]]
          /\ q' \in [Workers -> [Keys \cup Modes -> [Playbooks -> 0..Scale]]]
          /\ logged' \in [Workers -> [Reports -> Nat]]
          /\ learned' \in [Workers -> [Reports -> Nat]]
      BY <2>10, <3>1 DEF Crash, TypeOK
    <3>3. /\ status' \in [Reports -> {"ready", "waiting", "acked", "acked_unstored"}]
          /\ at' \in [Reports -> Workers \cup {None}]
          /\ arrived' \in [Workers -> SUBSET Reports]
          /\ mode' \in [Workers -> {"down", "memory", "postgres"}]
          /\ faults' \in 0..MaxFaults
      BY <2>10, RecoveryAssumption DEF Crash, TypeOK
    <3>4. /\ running' \in [Workers -> Reports \cup {None}]
          /\ step' \in [Workers -> {"idle", "learn", "outcome", "snapshot", "log"}]
          /\ \A v \in Workers : running'[v] = None <=> step'[v] = "idle"
      BY <2>10 DEF Crash, TypeOK
    <3> QED BY <2>10, <3>2, <3>3, <3>4 DEF Crash, TypeOK, tables
  <2>11. CASE PostgresFails \/ PostgresReturns
    <3>1. faults' \in 0..MaxFaults
      BY <2>11, RecoveryAssumption DEF PostgresFails, PostgresReturns, TypeOK
    <3>2. dbUp' \in BOOLEAN
      BY <2>11 DEF PostgresFails, PostgresReturns
    <3> QED BY <2>11, <3>1, <3>2 DEF PostgresFails, PostgresReturns, TypeOK, client,
                               handler, memory, tables
  <2>12. CASE UNCHANGED vars
    BY <2>12 DEF TypeOK, vars, client, handler, memory, tables
  <2> QED BY <2>1, <2>2, <2>3, <2>4, <2>5, <2>6, <2>7, <2>8, <2>9, <2>10, <2>11, <2>12
          DEF Next
<1> QED BY <1>1, <1>2, PTL DEF Spec

-----------------------------------------------------------------------------
(* A delivery is counted once: it waits for a step or has taken it.        *)
LEMMA MemoryStep ==
    ASSUME TypeOK, Placed, MemoryCounts, [Next]_vars
    PROVE  MemoryCounts'
<1> SUFFICES ASSUME NEW v \in Workers, NEW o \in Reports
             PROVE  /\ learned'[v][o] + (IF Unlearned(v, o)' THEN 1 ELSE 0) <= sends'[o]
                    /\ logged'[v][o]
                         + (IF Handles(v, o, {"outcome", "snapshot", "log"})' THEN 1 ELSE 0)
                         <= learned'[v][o]
  BY DEF MemoryCounts
<1> DEFINE Kept == /\ learned'[v][o] + (IF Unlearned(v, o)' THEN 1 ELSE 0) <= sends'[o]
                   /\ logged'[v][o]
                        + (IF Handles(v, o, {"outcome", "snapshot", "log"})' THEN 1 ELSE 0)
                        <= learned'[v][o]
<1>0. /\ learned[v][o] \in Nat /\ logged[v][o] \in Nat /\ sends[o] \in Nat
      /\ learned[v][o] + (IF Unlearned(v, o) THEN 1 ELSE 0) <= sends[o]
      /\ logged[v][o] + (IF Handles(v, o, {"outcome", "snapshot", "log"}) THEN 1 ELSE 0)
           <= learned[v][o]
  BY RecoveryAssumption DEF MemoryCounts, TypeOK
<1>1. ASSUME NEW w \in Workers, NEW r \in Reports, Send(w, r)
      PROVE  Kept
  <2>1. UNCHANGED <<learned, logged, running, step>>
    BY <1>1 DEF Send, memory, handler
  <2>2. CASE o = r
    <3>1. sends'[o] = sends[o] + 1
      BY <1>1, <2>2 DEF Send, TypeOK
    <3>2. v # w \/ ~Unlearned(v, o)
      BY <1>1, <2>2 DEF Send, Unlearned, Handles
    <3>3. v # w => Unlearned(v, o)' = Unlearned(v, o)
      BY <1>1, <2>1 DEF Send, Unlearned, Handles, TypeOK
    <3> QED BY <1>0, <2>1, <3>1, <3>2, <3>3 DEF Handles
  <2>3. CASE o # r
    <3>1. sends'[o] = sends[o] /\ Unlearned(v, o)' = Unlearned(v, o)
      BY <1>1, <2>1, <2>3 DEF Send, Unlearned, Handles, TypeOK
    <3> QED BY <1>0, <2>1, <3>1 DEF Handles
  <2> QED BY <2>2, <2>3
<1>2. ASSUME UNCHANGED <<learned, logged, sends>>,
             Unlearned(v, o)' => Unlearned(v, o),
             Handles(v, o, {"outcome", "snapshot", "log"})'
               => Handles(v, o, {"outcome", "snapshot", "log"})
      PROVE  Kept
  BY <1>0, <1>2
<1>3. ASSUME NEW w \in Workers, NEW r \in Reports, Reject(w, r) \/ Accept(w, r)
      PROVE  Kept
  <2>1. UNCHANGED <<learned, logged, sends>>
    BY <1>3 DEF Reject, Accept, memory, client
  <2>2. Unlearned(v, o)' => Unlearned(v, o)
    <3>1. r \in arrived[w] /\ arrived' = [arrived EXCEPT ![w] = @ \ {r}]
      BY <1>3 DEF Reject, Accept
    <3>2. \/ UNCHANGED <<running, step>>
          \/ /\ running' = [running EXCEPT ![w] = r]
             /\ step' = [step EXCEPT ![w] = "learn"]
      BY <1>3 DEF Reject, Accept, handler
    <3>3. v # w => Unlearned(v, o)' = Unlearned(v, o)
      BY <3>1, <3>2 DEF Unlearned, Handles, TypeOK
    <3>4. v = w => (Unlearned(v, o)' => Unlearned(v, o))
      BY <3>1, <3>2 DEF Unlearned, Handles, TypeOK
    <3> QED BY <3>3, <3>4
  <2>3. Handles(v, o, {"outcome", "snapshot", "log"})'
          => Handles(v, o, {"outcome", "snapshot", "log"})
    BY <1>3 DEF Reject, Accept, handler, Handles, TypeOK
  <2> QED BY <1>2, <2>1, <2>2, <2>3
<1>4. ASSUME NEW w \in Workers, Learn(w)
      PROVE  Kept
  <2>1. /\ UNCHANGED <<logged, sends, arrived, running>>
        /\ step[w] = "learn" /\ step' = [step EXCEPT ![w] = step'[w]]
        /\ step'[w] \in {"outcome", "log"}
        /\ learned' = [learned EXCEPT ![w][running[w]] = @ + 1]
    BY <1>4 DEF Learn, Goto, TypeOK
  <2>2. CASE v = w /\ o = running[w]
    <3>1. learned'[v][o] = learned[v][o] + 1
      BY <2>1, <2>2 DEF TypeOK
    <3>2. Unlearned(v, o) /\ ~Unlearned(v, o)'
      BY <2>1, <2>2 DEF Unlearned, Handles, Placed
    <3>3. ~Handles(v, o, {"outcome", "snapshot", "log"})
      BY <2>1, <2>2 DEF Handles
    <3> QED BY <1>0, <2>1, <3>1, <3>2, <3>3
  <2>3. CASE ~(v = w /\ o = running[w])
    <3>1. learned'[v][o] = learned[v][o]
      BY <2>1, <2>3 DEF TypeOK
    <3>2. /\ Unlearned(v, o)' = Unlearned(v, o)
          /\ Handles(v, o, {"outcome", "snapshot", "log"})'
               = Handles(v, o, {"outcome", "snapshot", "log"})
      BY <2>1, <2>3 DEF Unlearned, Handles, TypeOK
    <3> QED BY <1>0, <2>1, <3>1, <3>2
  <2> QED BY <2>2, <2>3
<1>5. ASSUME NEW w \in Workers, SaveOutcome(w) \/ SaveSnapshot(w)
      PROVE  Kept
  <2>1. UNCHANGED <<learned, logged, sends, arrived>>
    BY <1>5 DEF SaveOutcome, SaveSnapshot, memory
  <2>2. /\ step[w] \in {"outcome", "snapshot"}
        /\ \A u \in Workers \ {w} : running'[u] = running[u] /\ step'[u] = step[u]
        /\ \/ running'[w] = running[w] /\ step'[w] \in {"snapshot", "log"}
           \/ running'[w] = None /\ step'[w] = "idle"
    BY <1>5 DEF SaveOutcome, SaveSnapshot, Goto, Finish, TypeOK
  <2>3. Unlearned(v, o)' => Unlearned(v, o)
    BY <2>1, <2>2 DEF Unlearned, Handles
  <2>4. Handles(v, o, {"outcome", "snapshot", "log"})'
          => Handles(v, o, {"outcome", "snapshot", "log"})
    BY <2>2 DEF Handles
  <2> QED BY <1>2, <2>1, <2>3, <2>4
<1>6. ASSUME NEW w \in Workers, Log(w)
      PROVE  Kept
  <2>1. /\ UNCHANGED <<learned, sends, arrived>>
        /\ step[w] = "log" /\ running[w] \in Reports
        /\ logged' = [logged EXCEPT ![w][running[w]] = @ + 1]
        /\ running' = [running EXCEPT ![w] = None]
        /\ step' = [step EXCEPT ![w] = "idle"]
    BY <1>6, RunsReport DEF Log, Finish
  <2>2. Unlearned(v, o)' => Unlearned(v, o)
    BY <2>1 DEF Unlearned, Handles, TypeOK
  <2>3. CASE v = w /\ o = running[w]
    <3>1. logged'[v][o] = logged[v][o] + 1
      BY <2>1, <2>3 DEF TypeOK
    <3>2. /\ Handles(v, o, {"outcome", "snapshot", "log"})
          /\ ~Handles(v, o, {"outcome", "snapshot", "log"})'
      BY <2>1, <2>3 DEF Handles, TypeOK
    <3> QED BY <1>0, <2>1, <2>2, <3>1, <3>2
  <2>4. CASE ~(v = w /\ o = running[w])
    <3>1. logged'[v][o] = logged[v][o]
      BY <2>1, <2>4 DEF TypeOK
    <3>2. Handles(v, o, {"outcome", "snapshot", "log"})'
            => Handles(v, o, {"outcome", "snapshot", "log"})
      BY <2>1 DEF Handles, TypeOK
    <3> QED BY <1>0, <2>1, <2>2, <3>1, <3>2
  <2> QED BY <2>3, <2>4
<1>7. ASSUME NEW w \in Workers, Crash(w)
      PROVE  Kept
  <2>1. /\ UNCHANGED sends
        /\ v = w => learned'[v][o] = 0 /\ logged'[v][o] = 0
        /\ v # w => learned'[v] = learned[v] /\ logged'[v] = logged[v]
    BY <1>7 DEF Crash, TypeOK, NoReports
  <2>2. v = w => ~Unlearned(v, o)' /\ ~Handles(v, o, {"outcome", "snapshot", "log"})'
    BY <1>7, RecoveryAssumption DEF Crash, Unlearned, Handles, TypeOK
  <2>3. v # w => /\ Unlearned(v, o)' = Unlearned(v, o)
                 /\ Handles(v, o, {"outcome", "snapshot", "log"})'
                      = Handles(v, o, {"outcome", "snapshot", "log"})
    BY <1>7 DEF Crash, Unlearned, Handles, TypeOK
  <2> QED BY <1>0, <2>1, <2>2, <2>3
<1>8. CASE UNCHANGED <<learned, logged, sends, arrived, running, step>>
  BY <1>2, <1>8 DEF Unlearned, Handles
<1> QED BY <1>1, <1>3, <1>4, <1>5, <1>6, <1>7, <1>8
        DEF Next, Disconnect, Boot, PostgresFails, PostgresReturns, vars, client,
            handler, memory

(* A report is queued or handled, not both, and neither at a dead worker.  *)
LEMMA PlacedStep ==
    ASSUME TypeOK, Placed, [Next]_vars
    PROVE  Placed'
<1> SUFFICES ASSUME NEW v \in Workers
             PROVE  /\ running'[v] \notin arrived'[v]
                    /\ mode'[v] = "down" => running'[v] = None /\ arrived'[v] = {}
                    /\ step'[v] \in {"outcome", "snapshot"} => mode'[v] = "postgres"
  BY DEF Placed
<1> DEFINE Kept == /\ running'[v] \notin arrived'[v]
                   /\ mode'[v] = "down" => running'[v] = None /\ arrived'[v] = {}
                   /\ step'[v] \in {"outcome", "snapshot"} => mode'[v] = "postgres"
<1>0. /\ running[v] \notin arrived[v]
      /\ mode[v] = "down" => running[v] = None /\ arrived[v] = {}
      /\ step[v] \in {"outcome", "snapshot"} => mode[v] = "postgres"
      /\ None \notin arrived[v]
      /\ running[v] = None <=> step[v] = "idle"
  BY RecoveryAssumption DEF Placed, TypeOK
<1>1. ASSUME NEW w \in Workers, NEW r \in Reports, Send(w, r)
      PROVE  Kept
  <2>1. UNCHANGED <<running, step, mode>>
    BY <1>1 DEF Send, handler
  <2>2. CASE v = w
    <3>1. mode[w] # "down" /\ running[w] # r /\ arrived'[w] = arrived[w] \cup {r}
      BY <1>1 DEF Send, TypeOK
    <3> QED BY <1>0, <2>1, <2>2, <3>1
  <2>3. CASE v # w
    <3>1. arrived'[v] = arrived[v]
      BY <1>1, <2>3 DEF Send, TypeOK
    <3> QED BY <1>0, <2>1, <3>1
  <2> QED BY <2>2, <2>3
<1>2. ASSUME NEW w \in Workers, NEW r \in Reports, Reject(w, r)
      PROVE  Kept
  <2>1. UNCHANGED <<running, step, mode>> /\ arrived'[v] \subseteq arrived[v]
    BY <1>2 DEF Reject, handler, TypeOK
  <2> QED BY <1>0, <2>1
<1>3. ASSUME NEW w \in Workers, NEW r \in Reports, Accept(w, r)
      PROVE  Kept
  <2>1. CASE v = w
    <3>1. /\ r \in arrived[v] /\ arrived'[v] = arrived[v] \ {r}
          /\ running'[v] = r /\ step'[v] = "learn" /\ mode'[v] = mode[v]
      BY <1>3, <2>1 DEF Accept, TypeOK
    <3> QED BY <1>0, <3>1
  <2>2. CASE v # w
    <3>1. /\ arrived'[v] = arrived[v] /\ running'[v] = running[v]
          /\ step'[v] = step[v] /\ mode'[v] = mode[v]
      BY <1>3, <2>2 DEF Accept, TypeOK
    <3> QED BY <1>0, <3>1
  <2> QED BY <2>1, <2>2
<1>4. ASSUME NEW w \in Workers, Learn(w) \/ SaveOutcome(w) \/ SaveSnapshot(w) \/ Log(w)
      PROVE  Kept
  <2>1. UNCHANGED <<arrived, mode>>
    BY <1>4 DEF Learn, SaveOutcome, SaveSnapshot, Log
  <2>2. CASE v = w
    <3>1. \/ running'[v] = None /\ step'[v] = "idle"
          \/ /\ running'[v] = running[v] /\ step[v] # "idle"
             /\ \/ step'[v] = "log"
                \/ step'[v] = "outcome" /\ mode[v] = "postgres"
                \/ step'[v] = "snapshot" /\ step[v] = "outcome"
      BY <1>4, <2>2
         DEF Learn, SaveOutcome, SaveSnapshot, Log, Goto, Finish, TypeOK
    <3> QED BY <1>0, <2>1, <3>1
  <2>3. CASE v # w
    <3>1. running'[v] = running[v] /\ step'[v] = step[v]
      BY <1>4, <2>3
         DEF Learn, SaveOutcome, SaveSnapshot, Log, Goto, Finish, TypeOK
    <3> QED BY <1>0, <2>1, <3>1
  <2> QED BY <2>2, <2>3
<1>5. ASSUME NEW w \in Workers, Boot(w)
      PROVE  Kept
  <2>1. UNCHANGED <<arrived, running, step>>
    BY <1>5 DEF Boot, handler
  <2>2. CASE v = w
    <3>1. mode[v] = "down" /\ mode'[v] # "down"
      BY <1>5, <2>2 DEF Boot, TypeOK
    <3> QED BY <1>0, <2>1, <3>1
  <2>3. CASE v # w
    <3>1. mode'[v] = mode[v]
      BY <1>5, <2>3 DEF Boot, TypeOK
    <3> QED BY <1>0, <2>1, <3>1
  <2> QED BY <2>2, <2>3
<1>6. ASSUME NEW w \in Workers, Crash(w)
      PROVE  Kept
  <2>1. CASE v = w
    <3>1. running'[v] = None /\ step'[v] = "idle" /\ arrived'[v] = {}
      BY <1>6, <2>1 DEF Crash, TypeOK
    <3> QED BY <3>1
  <2>2. CASE v # w
    <3>1. /\ running'[v] = running[v] /\ step'[v] = step[v]
          /\ arrived'[v] = arrived[v] /\ mode'[v] = mode[v]
      BY <1>6, <2>2 DEF Crash, TypeOK
    <3> QED BY <1>0, <3>1
  <2> QED BY <2>1, <2>2
<1>7. CASE UNCHANGED <<arrived, handler, mode>>
  BY <1>0, <1>7 DEF handler
<1> QED BY <1>1, <1>2, <1>3, <1>4, <1>5, <1>6, <1>7
        DEF Next, Disconnect, PostgresFails, PostgresReturns, vars

(* Handlers that only end, or wait for the same step as before, change     *)
(* nothing about the rows of a report.                                     *)
LEMMA FewerOwe ==
    ASSUME TypeOK, TypeOK', NEW r \in Reports, RowCounts(r),
           Unsaved(r)' \subseteq Unsaved(r), HalfSaved(r)' \subseteq HalfSaved(r),
           sends'[r] = sends[r], outcomes'[r] = outcomes[r], snapshots'[r] = snapshots[r]
    PROVE  RowCounts(r)'
<1>1. /\ IsFiniteSet(Unsaved(r)) /\ IsFiniteSet(HalfSaved(r))
      /\ outcomes[r] \in Nat /\ snapshots[r] \in Nat /\ sends[r] \in Nat
  BY RecoveryAssumption DEF RowCounts, TypeOK
<1>2. /\ IsFiniteSet(Unsaved(r)') /\ IsFiniteSet(HalfSaved(r)')
      /\ Cardinality(Unsaved(r)') <= Cardinality(Unsaved(r))
      /\ Cardinality(HalfSaved(r)') <= Cardinality(HalfSaved(r))
  BY <1>1, FS_Subset
<1>3. /\ Cardinality(Unsaved(r)) \in Nat /\ Cardinality(HalfSaved(r)) \in Nat
      /\ Cardinality(Unsaved(r)') \in Nat /\ Cardinality(HalfSaved(r)') \in Nat
  BY <1>1, <1>2, FS_CardinalityType
<1>4. /\ outcomes[r] + Cardinality(Unsaved(r)') <= sends[r]
      /\ snapshots[r] + Cardinality(HalfSaved(r)') <= outcomes[r]
  BY <1>1, <1>2, <1>3 DEF RowCounts
<1>5. /\ Cardinality(Unsaved(r))' = Cardinality(Unsaved(r)')
      /\ Cardinality(HalfSaved(r))' = Cardinality(HalfSaved(r)')
      /\ IsFiniteSet(Unsaved(r))' = IsFiniteSet(Unsaved(r)')
      /\ IsFiniteSet(HalfSaved(r))' = IsFiniteSet(HalfSaved(r)')
  OBVIOUS
<1> QED BY <1>2, <1>4, <1>5 DEF RowCounts

(* A new delivery owes its rows. *)
LEMMA SendOwes ==
    ASSUME TypeOK, NEW r \in Reports, NEW w \in Workers, RowCounts(r), Send(w, r)
    PROVE  RowCounts(r)'
<1> DEFINE U == Unsaved(r)
           H == HalfSaved(r)
<1>1. /\ IsFiniteSet(U) /\ IsFiniteSet(H)
      /\ outcomes[r] \in Nat /\ sends[r] \in Nat
      /\ outcomes[r] + Cardinality(U) <= sends[r]
      /\ snapshots[r] + Cardinality(H) <= outcomes[r]
  BY RecoveryAssumption DEF RowCounts, TypeOK
<1>2. /\ sends'[r] = sends[r] + 1
      /\ UNCHANGED <<running, step, outcomes, snapshots>>
  BY DEF Send, TypeOK, handler, tables
<1>3. U' = U \cup {w}
  BY DEF Send, TypeOK, handler, Unsaved, Handles
<1>4. H' = H
  BY <1>2 DEF HalfSaved, Handles
<1> HIDE DEF U, H
<1>5. /\ IsFiniteSet(U')
      /\ Cardinality(U') <= Cardinality(U) + 1
      /\ Cardinality(U') \in Nat
      /\ Cardinality(U) \in Nat
  <2>1. Cardinality(U) \in Nat /\ IsFiniteSet(U \cup {w})
    BY <1>1, FS_CardinalityType, FS_AddElement
  <2>2. Cardinality(U \cup {w}) = IF w \in U THEN Cardinality(U) ELSE Cardinality(U) + 1
    BY <1>1, FS_AddElement
  <2> QED BY <1>3, <2>1, <2>2
<1>6. outcomes'[r] + Cardinality(U') <= sends'[r]
  BY <1>1, <1>2, <1>5
<1> QED BY <1>1, <1>2, <1>4, <1>5, <1>6 DEF RowCounts, U, H

(* The row of save_recovery_outcome is the one this delivery owed. *)
LEMMA OutcomeOwed ==
    ASSUME TypeOK, NEW w \in Workers, NEW r \in Reports, running[w] = r, RowCounts(r),
           Placed, SaveOutcome(w), dbUp
    PROVE  RowCounts(r)'
<1> DEFINE U == Unsaved(r)
           H == HalfSaved(r)
<1>1. /\ IsFiniteSet(U) /\ IsFiniteSet(H)
      /\ outcomes[r] \in Nat /\ sends[r] \in Nat /\ snapshots[r] \in Nat
      /\ outcomes[r] + Cardinality(U) <= sends[r]
      /\ snapshots[r] + Cardinality(H) <= outcomes[r]
  BY RecoveryAssumption DEF RowCounts, TypeOK
<1>2. /\ outcomes'[r] = outcomes[r] + 1
      /\ UNCHANGED <<sends, snapshots, arrived>>
      /\ step[w] = "outcome"
      /\ \A v \in Workers \ {w} : running'[v] = running[v] /\ step'[v] = step[v]
      /\ \/ running'[w] = r /\ step'[w] = "snapshot"
         \/ running'[w] = None
  BY DEF SaveOutcome, Goto, Finish, TypeOK
<1>3. w \in U /\ U' \subseteq U \ {w} /\ H' \subseteq H \cup {w}
  <2>1. r # None /\ r \notin arrived[w]
    BY RecoveryAssumption DEF Placed
  <2> QED BY <1>2, <2>1 DEF Unsaved, HalfSaved, Handles
<1> HIDE DEF U, H
<1>4. /\ IsFiniteSet(U') /\ Cardinality(U') \in Nat
      /\ Cardinality(U) \in Nat /\ Cardinality(U') <= Cardinality(U) - 1
  <2>1. /\ IsFiniteSet(U \ {w})
        /\ Cardinality(U \ {w}) = Cardinality(U) - 1
        /\ Cardinality(U \ {w}) \in Nat
    BY <1>1, <1>3, FS_RemoveElement, FS_CardinalityType
  <2>2. IsFiniteSet(U') /\ Cardinality(U') <= Cardinality(U \ {w})
    BY <1>3, <2>1, FS_Subset
  <2>3. Cardinality(U) \in Nat /\ Cardinality(U') \in Nat
    BY <1>1, <2>2, FS_CardinalityType
  <2> QED BY <2>1, <2>2, <2>3
<1>5. /\ IsFiniteSet(H') /\ Cardinality(H') \in Nat
      /\ Cardinality(H) \in Nat /\ Cardinality(H') <= Cardinality(H) + 1
  <2>1. /\ IsFiniteSet(H \cup {w})
        /\ Cardinality(H \cup {w}) = IF w \in H THEN Cardinality(H) ELSE Cardinality(H) + 1
        /\ Cardinality(H \cup {w}) \in Nat
    BY <1>1, FS_AddElement, FS_CardinalityType
  <2>2. IsFiniteSet(H') /\ Cardinality(H') <= Cardinality(H \cup {w})
    BY <1>3, <2>1, FS_Subset
  <2>3. Cardinality(H) \in Nat /\ Cardinality(H') \in Nat
    BY <1>1, <2>2, FS_CardinalityType
  <2> QED BY <2>1, <2>2, <2>3
<1>6. /\ outcomes'[r] + Cardinality(U') <= sends'[r]
      /\ snapshots'[r] + Cardinality(H') <= outcomes'[r]
  BY <1>1, <1>2, <1>4, <1>5
<1> QED BY <1>4, <1>5, <1>6 DEF RowCounts, U, H

(* The row of save_reliability_score follows an outcome of its own. *)
LEMMA SnapshotOwed ==
    ASSUME TypeOK, NEW w \in Workers, NEW r \in Reports, running[w] = r, RowCounts(r),
           SaveSnapshot(w), dbUp
    PROVE  RowCounts(r)'
<1> DEFINE U == Unsaved(r)
           H == HalfSaved(r)
<1>1. /\ IsFiniteSet(U) /\ IsFiniteSet(H)
      /\ outcomes[r] \in Nat /\ sends[r] \in Nat /\ snapshots[r] \in Nat
      /\ outcomes[r] + Cardinality(U) <= sends[r]
      /\ snapshots[r] + Cardinality(H) <= outcomes[r]
  BY RecoveryAssumption DEF RowCounts, TypeOK
<1>2. /\ snapshots'[r] = snapshots[r] + 1
      /\ UNCHANGED <<sends, outcomes, arrived>>
      /\ step[w] = "snapshot"
      /\ \A v \in Workers \ {w} : running'[v] = running[v] /\ step'[v] = step[v]
      /\ \/ running'[w] = r /\ step'[w] = "log"
         \/ running'[w] = None
  BY DEF SaveSnapshot, Goto, Finish, TypeOK
<1>3. w \in H /\ H' \subseteq H \ {w} /\ U' \subseteq U
  <2>1. r # None
    BY RecoveryAssumption
  <2> QED BY <1>2, <2>1 DEF Unsaved, HalfSaved, Handles
<1> HIDE DEF U, H
<1>4. /\ IsFiniteSet(H') /\ Cardinality(H') \in Nat
      /\ Cardinality(H) \in Nat /\ Cardinality(H') <= Cardinality(H) - 1
  <2>1. /\ IsFiniteSet(H \ {w})
        /\ Cardinality(H \ {w}) = Cardinality(H) - 1
        /\ Cardinality(H \ {w}) \in Nat
    BY <1>1, <1>3, FS_RemoveElement, FS_CardinalityType
  <2>2. IsFiniteSet(H') /\ Cardinality(H') <= Cardinality(H \ {w})
    BY <1>3, <2>1, FS_Subset
  <2>3. Cardinality(H) \in Nat /\ Cardinality(H') \in Nat
    BY <1>1, <2>2, FS_CardinalityType
  <2> QED BY <2>1, <2>2, <2>3
<1>5. /\ IsFiniteSet(U') /\ Cardinality(U') \in Nat
      /\ Cardinality(U) \in Nat /\ Cardinality(U') <= Cardinality(U)
  BY <1>1, <1>3, FS_Subset, FS_CardinalityType
<1>6. /\ outcomes'[r] + Cardinality(U') <= sends'[r]
      /\ snapshots'[r] + Cardinality(H') <= outcomes'[r]
  BY <1>1, <1>2, <1>4, <1>5
<1> QED BY <1>4, <1>5, <1>6 DEF RowCounts, U, H

(* The rows count the deliveries that got as far as writing them.          *)
LEMMA TableStep ==
    ASSUME TypeOK, TypeOK', Placed, TableCounts, [Next]_vars
    PROVE  TableCounts'
<1> SUFFICES ASSUME NEW r \in Reports PROVE RowCounts(r)'
  BY DEF TableCounts
<1>0. RowCounts(r)
  BY DEF TableCounts
<1>1. ASSUME NEW w \in Workers, NEW o \in Reports, Send(w, o)
      PROVE  RowCounts(r)'
  <2>1. CASE o = r
    BY <1>0, <1>1, <2>1, SendOwes
  <2>2. CASE o # r
    <3>1. /\ Unsaved(r)' = Unsaved(r) /\ HalfSaved(r)' = HalfSaved(r)
          /\ sends'[r] = sends[r] /\ UNCHANGED <<outcomes, snapshots>>
      BY <1>1, <2>2
         DEF Send, TypeOK, handler, tables, Unsaved, HalfSaved, Handles
    <3> QED BY <1>0, <3>1, FewerOwe
  <2> QED BY <2>1, <2>2
<1>2. ASSUME UNCHANGED <<sends, tables>>,
             \A v \in Workers : arrived'[v] \subseteq arrived[v],
             \A v \in Workers :
               \/ running'[v] = running[v] /\ step'[v] = step[v]
               \/ running'[v] = None
               \/ running'[v] \in arrived[v] /\ step'[v] = "learn"
               \/ /\ running'[v] = running[v] /\ step[v] = "learn"
                  /\ step'[v] \in {"outcome", "log"}
      PROVE  RowCounts(r)'
  <2>1. r # None
    BY RecoveryAssumption
  <2>2. Unsaved(r)' \subseteq Unsaved(r)
    BY <1>2, <2>1 DEF Unsaved, Handles
  <2>3. HalfSaved(r)' \subseteq HalfSaved(r)
    BY <1>2, <2>1 DEF HalfSaved, Handles
  <2> QED BY <1>0, <1>2, <2>2, <2>3, FewerOwe DEF tables
<1>3. ASSUME NEW w \in Workers, NEW o \in Reports, Reject(w, o) \/ Accept(w, o)
      PROVE  RowCounts(r)'
  <2>1. /\ UNCHANGED <<sends, tables>>
        /\ \A v \in Workers : arrived'[v] \subseteq arrived[v]
    <3>1. UNCHANGED <<sends, tables>> /\ arrived' = [arrived EXCEPT ![w] = @ \ {o}]
      BY <1>3 DEF Reject, Accept, client
    <3> QED BY <3>1 DEF TypeOK
  <2>2. \A v \in Workers :
          \/ running'[v] = running[v] /\ step'[v] = step[v]
          \/ running'[v] \in arrived[v] /\ step'[v] = "learn"
    BY <1>3 DEF Reject, Accept, handler, TypeOK
  <2> QED BY <1>2, <2>1, <2>2
<1>4. ASSUME NEW w \in Workers, Learn(w)
      PROVE  RowCounts(r)'
  <2>1. UNCHANGED <<sends, tables, arrived>>
    BY <1>4 DEF Learn
  <2>2. \A v \in Workers :
          \/ running'[v] = running[v] /\ step'[v] = step[v]
          \/ /\ running'[v] = running[v] /\ step[v] = "learn"
             /\ step'[v] \in {"outcome", "log"}
    BY <1>4 DEF Learn, Goto, TypeOK
  <2> QED BY <1>2, <2>1, <2>2
<1>5. ASSUME NEW w \in Workers, Finish(w, 500) \/ Finish(w, 200),
             UNCHANGED <<sends, tables, arrived>>
      PROVE  RowCounts(r)'
  <2>1. \A v \in Workers :
          \/ running'[v] = running[v] /\ step'[v] = step[v]
          \/ running'[v] = None
    BY <1>5 DEF Finish, TypeOK
  <2> QED BY <1>2, <1>5, <2>1
<1>6. ASSUME NEW w \in Workers, SaveOutcome(w)
      PROVE  RowCounts(r)'
  <2>1. CASE ~dbUp
    BY <1>5, <1>6, <2>1 DEF SaveOutcome, tables
  <2>2. CASE dbUp /\ running[w] = r
    BY <1>0, <1>6, <2>2, OutcomeOwed
  <2>3. CASE dbUp /\ running[w] # r
    <3>1. r # None
      BY RecoveryAssumption
    <3>2. /\ UNCHANGED <<sends, snapshots, arrived>>
          /\ outcomes'[r] = outcomes[r]
          /\ \A v \in Workers \ {w} : running'[v] = running[v] /\ step'[v] = step[v]
          /\ running'[w] = running[w] \/ running'[w] = None
      BY <1>6, <2>3 DEF SaveOutcome, Goto, Finish, TypeOK
    <3>3. Unsaved(r)' \subseteq Unsaved(r) /\ HalfSaved(r)' \subseteq HalfSaved(r)
      BY <2>3, <3>1, <3>2 DEF Unsaved, HalfSaved, Handles
    <3> QED BY <1>0, <3>2, <3>3, FewerOwe
  <2> QED BY <2>1, <2>2, <2>3
<1>7. ASSUME NEW w \in Workers, SaveSnapshot(w)
      PROVE  RowCounts(r)'
  <2>1. CASE ~dbUp
    BY <1>5, <1>7, <2>1 DEF SaveSnapshot, tables
  <2>2. CASE dbUp /\ running[w] = r
    BY <1>0, <1>7, <2>2, SnapshotOwed
  <2>3. CASE dbUp /\ running[w] # r
    <3>1. r # None
      BY RecoveryAssumption
    <3>2. /\ UNCHANGED <<sends, outcomes, arrived>>
          /\ snapshots'[r] = snapshots[r]
          /\ \A v \in Workers \ {w} : running'[v] = running[v] /\ step'[v] = step[v]
          /\ running'[w] = running[w] \/ running'[w] = None
      BY <1>7, <2>3 DEF SaveSnapshot, Goto, Finish, TypeOK
    <3>3. Unsaved(r)' \subseteq Unsaved(r) /\ HalfSaved(r)' \subseteq HalfSaved(r)
      BY <2>3, <3>1, <3>2 DEF Unsaved, HalfSaved, Handles
    <3> QED BY <1>0, <3>2, <3>3, FewerOwe
  <2> QED BY <2>1, <2>2, <2>3
<1>8. ASSUME NEW w \in Workers, Log(w)
      PROVE  RowCounts(r)'
  BY <1>5, <1>8 DEF Log
<1>9. ASSUME NEW w \in Workers, Crash(w)
      PROVE  RowCounts(r)'
  <2>1. /\ UNCHANGED <<sends, tables>>
        /\ \A v \in Workers : arrived'[v] \subseteq arrived[v]
        /\ \A v \in Workers :
             \/ running'[v] = running[v] /\ step'[v] = step[v]
             \/ running'[v] = None
    BY <1>9 DEF Crash, TypeOK
  <2> QED BY <1>2, <2>1
<1>10. CASE UNCHANGED <<sends, tables, arrived, handler>>
  BY <1>2, <1>10 DEF handler
<1> QED BY <1>1, <1>3, <1>4, <1>6, <1>7, <1>8, <1>9, <1>10
        DEF Next, Disconnect, Boot, PostgresFails, PostgresReturns, vars, client

(* Nothing deletes a row. *)
LEMMA RowsLast ==
    ASSUME TypeOK, [Next]_vars, NEW r \in Reports
    PROVE  outcomes'[r] >= outcomes[r] /\ snapshots'[r] >= snapshots[r]
<1>0. outcomes[r] \in Nat /\ snapshots[r] \in Nat
  BY DEF TypeOK
<1>1. ASSUME NEW w \in Workers, SaveOutcome(w)
      PROVE  outcomes'[r] >= outcomes[r] /\ snapshots'[r] >= snapshots[r]
  <2>1. \/ UNCHANGED <<outcomes, snapshots>>
        \/ UNCHANGED snapshots /\ outcomes' = [outcomes EXCEPT ![running[w]] = @ + 1]
    BY <1>1 DEF SaveOutcome
  <2>2. outcomes \in [Reports -> Nat]
    BY DEF TypeOK
  <2> QED BY <1>0, <2>1, <2>2
<1>2. ASSUME NEW w \in Workers, SaveSnapshot(w)
      PROVE  outcomes'[r] >= outcomes[r] /\ snapshots'[r] >= snapshots[r]
  <2>1. \/ UNCHANGED <<outcomes, snapshots>>
        \/ UNCHANGED outcomes /\ snapshots' = [snapshots EXCEPT ![running[w]] = @ + 1]
    BY <1>2 DEF SaveSnapshot
  <2> QED BY <1>0, <2>1 DEF TypeOK
<1>3. CASE UNCHANGED tables
  BY <1>0, <1>3 DEF tables
<1>4. ASSUME NEW w \in Workers, Learn(w) \/ Log(w) \/ Boot(w) \/ Crash(w)
      PROVE  UNCHANGED tables
  BY <1>4 DEF Learn, Log, Boot, Crash
<1>5. ASSUME NEW w \in Workers, NEW o \in Reports,
             Send(w, o) \/ Reject(w, o) \/ Accept(w, o)
      PROVE  UNCHANGED tables
  BY <1>5 DEF Send, Reject, Accept
<1>6. PostgresFails \/ PostgresReturns \/ UNCHANGED vars => UNCHANGED tables
  BY DEF PostgresFails, PostgresReturns, vars, tables
<1>7. ASSUME NEW o \in Reports, Disconnect(o)
      PROVE  UNCHANGED tables
  BY <1>7 DEF Disconnect
<1> QED BY <1>1, <1>2, <1>3, <1>4, <1>5, <1>6, <1>7 DEF Next

(* A handler comes to its last step with both rows written. *)
LEMMA BothWrittenStep ==
    ASSUME TypeOK, TypeOK', Placed, TableCounts, BothWritten, [Next]_vars
    PROVE  BothWritten'
<1> SUFFICES ASSUME NEW v \in Workers, step'[v] = "log", mode'[v] = "postgres"
             PROVE  outcomes'[running'[v]] > 0 /\ snapshots'[running'[v]] > 0
  BY DEF BothWritten
<1>1. ASSUME step[v] = "log", mode[v] = "postgres", running'[v] = running[v]
      PROVE  outcomes'[running'[v]] > 0 /\ snapshots'[running'[v]] > 0
  <2> DEFINE r == running[v]
  <2>1. r \in Reports
    BY <1>1, RunsReport
  <2>2. /\ outcomes'[r] >= outcomes[r] /\ snapshots'[r] >= snapshots[r]
        /\ outcomes[r] > 0 /\ snapshots[r] > 0
    BY <1>1, <2>1, RowsLast DEF BothWritten
  <2>3. /\ outcomes[r] \in Nat /\ outcomes'[r] \in Nat
        /\ snapshots[r] \in Nat /\ snapshots'[r] \in Nat
    BY <2>1 DEF TypeOK
  <2> HIDE DEF r
  <2>4. outcomes'[r] > 0 /\ snapshots'[r] > 0
    BY <2>2, <2>3
  <2> QED BY <1>1, <2>4 DEF r
<1>2. ASSUME step'[v] = step[v], mode'[v] = mode[v], running'[v] = running[v]
      PROVE  outcomes'[running'[v]] > 0 /\ snapshots'[running'[v]] > 0
  BY <1>1, <1>2
<1>3. ASSUME NEW w \in Workers, SaveSnapshot(w)
      PROVE  outcomes'[running'[v]] > 0 /\ snapshots'[running'[v]] > 0
  <2>1. CASE v # w
    BY <1>2, <1>3, <2>1 DEF SaveSnapshot, Goto, Finish, TypeOK
  <2>2. CASE v = w
    <3> DEFINE r == running[v]
    <3>1. /\ r \in Reports /\ step[v] = "snapshot" /\ running'[v] = r
          /\ dbUp /\ snapshots' = [snapshots EXCEPT ![r] = @ + 1]
          /\ UNCHANGED outcomes
      BY <1>3, <2>2, RunsReport DEF SaveSnapshot, Goto, Finish, TypeOK
    <3>2. v \in HalfSaved(r) /\ IsFiniteSet(HalfSaved(r))
      BY <3>1 DEF HalfSaved, Handles, TableCounts, RowCounts
    <3>3. Cardinality(HalfSaved(r)) \in Nat /\ Cardinality(HalfSaved(r)) # 0
      BY <3>2, FS_EmptySet, FS_CardinalityType
    <3>4. /\ snapshots[r] \in Nat /\ outcomes[r] \in Nat
          /\ snapshots[r] + Cardinality(HalfSaved(r)) <= outcomes[r]
      BY <3>1 DEF TypeOK, TableCounts, RowCounts
    <3> HIDE DEF r
    <3>5. outcomes[r] > 0
      BY <3>3, <3>4
    <3>6. snapshots'[r] = snapshots[r] + 1
      BY <3>1 DEF TypeOK
    <3> QED BY <3>1, <3>4, <3>5, <3>6
  <2> QED BY <2>1, <2>2
<1>4. ASSUME NEW w \in Workers, Learn(w) \/ SaveOutcome(w) \/ Log(w)
      PROVE  outcomes'[running'[v]] > 0 /\ snapshots'[running'[v]] > 0
  <2>1. v # w
    BY <1>4 DEF Learn, SaveOutcome, Log, Goto, Finish, TypeOK
  <2> QED BY <1>2, <1>4, <2>1 DEF Learn, SaveOutcome, Log, Goto, Finish, TypeOK
<1>5. ASSUME NEW w \in Workers, NEW r \in Reports, Accept(w, r)
      PROVE  outcomes'[running'[v]] > 0 /\ snapshots'[running'[v]] > 0
  BY <1>2, <1>5 DEF Accept, TypeOK
<1>6. ASSUME NEW w \in Workers, Boot(w) \/ Crash(w)
      PROVE  outcomes'[running'[v]] > 0 /\ snapshots'[running'[v]] > 0
  <2>1. CASE v = w
    BY <1>6, <2>1 DEF Boot, Crash, handler, TypeOK, Placed
  <2>2. CASE v # w
    BY <1>2, <1>6, <2>2 DEF Boot, Crash, handler, TypeOK
  <2> QED BY <2>1, <2>2
<1>7. CASE UNCHANGED <<handler, mode>>
  BY <1>2, <1>7 DEF handler
<1> QED BY <1>3, <1>4, <1>5, <1>6, <1>7
        DEF Next, Send, Reject, Disconnect, PostgresFails, PostgresReturns, vars

(* Only the last step of a handler acknowledges. *)
LEMMA AckedStep ==
    ASSUME TypeOK, TypeOK', BothWritten, AckedReportIsStored, [Next]_vars
    PROVE  AckedReportIsStored'
<1> SUFFICES ASSUME NEW r \in Reports, status'[r] = "acked"
             PROVE  outcomes'[r] > 0 /\ snapshots'[r] > 0
  BY DEF AckedReportIsStored
<1> SUFFICES outcomes[r] > 0 /\ snapshots[r] > 0
  <2>1. outcomes[r] \in Nat /\ snapshots[r] \in Nat
    BY DEF TypeOK
  <2>2. outcomes'[r] \in Nat /\ snapshots'[r] \in Nat
    BY DEF TypeOK
  <2> QED BY <2>1, <2>2, RowsLast
<1>1. CASE status[r] = "acked"
  BY <1>1 DEF AckedReportIsStored
<1>2. CASE status[r] # "acked"
  <2>1. ASSUME NEW w \in Workers, NEW o \in Reports,
               NEW code \in {429, 500, 503}, Answer(w, o, code)
        PROVE  FALSE
    BY <1>2, <2>1 DEF Answer, TypeOK
  <2>2. ASSUME NEW w \in Workers, Finish(w, 500), step[w] # "idle"
        PROVE  FALSE
    BY <2>1, <2>2, RunsReport DEF Finish
  <2>3. ASSUME NEW w \in Workers, Log(w)
        PROVE  outcomes[r] > 0 /\ snapshots[r] > 0
    <3>1. step[w] = "log" /\ running[w] \in Reports /\ Answer(w, running[w], 200)
      BY <2>3, RunsReport DEF Log, Finish
    <3>2. r = running[w] /\ mode[w] = "postgres"
      BY <1>2, <3>1 DEF Answer, TypeOK
    <3> QED BY <3>1, <3>2 DEF BothWritten
  <2>4. CASE UNCHANGED status
    BY <1>2, <2>4
  <2>5. ASSUME NEW w \in Workers, NEW o \in Reports, Reject(w, o)
        PROVE  FALSE
    <3>1. Answer(w, o, 429) \/ Answer(w, o, 503)
      BY <2>5 DEF Reject
    <3> QED BY <2>1, <3>1
  <2>6. ASSUME NEW w \in Workers, NEW o \in Reports, Send(w, o)
        PROVE  FALSE
    BY <1>2, <2>6 DEF Send, TypeOK
  <2>7. ASSUME NEW w \in Workers, SaveOutcome(w) \/ SaveSnapshot(w)
        PROVE  FALSE
    <3>1. UNCHANGED status \/ (Finish(w, 500) /\ step[w] # "idle")
      BY <2>7 DEF SaveOutcome, SaveSnapshot, Goto
    <3> QED BY <2>2, <2>4, <3>1, <1>2
  <2>8. ASSUME NEW o \in Reports, Disconnect(o)
        PROVE  FALSE
    BY <1>2, <2>8 DEF Disconnect, TypeOK
  <2>9. ASSUME NEW w \in Workers, Crash(w)
        PROVE  FALSE
    BY <1>2, <2>9 DEF Crash
  <2> QED BY <2>3, <2>4, <2>5, <2>6, <2>7, <2>8, <2>9
          DEF Next, Accept, Learn, Goto, Boot, PostgresFails, PostgresReturns,
              vars, client
<1> QED BY <1>1, <1>2

-----------------------------------------------------------------------------
(* The inductive invariant. *)
THEOREM RecoveryInductive == Spec => []RecoveryInv
<1>1. Init /\ TypeOK => RecoveryInv
  <2> SUFFICES ASSUME Init, TypeOK PROVE RecoveryInv
    OBVIOUS
  <2>1. \A r \in Reports : Unsaved(r) = {} /\ HalfSaved(r) = {}
    BY RecoveryAssumption DEF Init, Unsaved, HalfSaved, Handles
  <2>2. TableCounts
    <3> SUFFICES ASSUME NEW r \in Reports PROVE RowCounts(r)
      BY DEF TableCounts
    <3>1. /\ Unsaved(r) = {} /\ HalfSaved(r) = {}
          /\ outcomes[r] = 0 /\ snapshots[r] = 0 /\ sends[r] = 0
      BY <2>1 DEF Init, NoReports
    <3> QED BY <3>1, FS_EmptySet DEF RowCounts
  <2>3. MemoryCounts
    BY RecoveryAssumption DEF Init, MemoryCounts, Unlearned, Handles, NoReports
  <2>4. Placed /\ BothWritten /\ AckedReportIsStored
    BY DEF Init, Placed, BothWritten, AckedReportIsStored
  <2> QED BY <2>2, <2>3, <2>4 DEF RecoveryInv
<1>2. RecoveryInv /\ TypeOK' /\ [Next]_vars => RecoveryInv'
  BY MemoryStep, PlacedStep, TableStep, BothWrittenStep, AckedStep DEF RecoveryInv
<1> QED BY <1>1, <1>2, RecoveryTypeCorrect, PTL DEF Spec

(* An acknowledged report has both of its rows, whatever failed on the way *)
(* (Recovery!AckedReportIsStored).                                         *)
THEOREM AckedReportsAreStored == Spec => []AckedReportIsStored
<1>1. RecoveryInv => AckedReportIsStored
  BY DEF RecoveryInv
<1> QED BY <1>1, RecoveryInductive, PTL

(* A failure between the steps of the handler leaves a prefix of them, and *)
(* no step runs twice in one delivery, with any number of workers          *)
(* (Recovery!EffectsArePrefixes).                                          *)
THEOREM FailuresLeavePrefixes == Spec => []EffectsArePrefixes
<1>1. RecoveryInv => EffectsArePrefixes
  <2> SUFFICES ASSUME RecoveryInv PROVE EffectsArePrefixes
    OBVIOUS
  <2>1. ASSUME NEW r \in Reports
        PROVE  snapshots[r] <= outcomes[r] /\ outcomes[r] <= sends[r]
    <3>1. RowCounts(r) /\ outcomes[r] \in Nat /\ snapshots[r] \in Nat /\ sends[r] \in Nat
      BY RecoveryAssumption DEF RecoveryInv, TableCounts, TypeOK
    <3>2. Cardinality(Unsaved(r)) \in Nat /\ Cardinality(HalfSaved(r)) \in Nat
      BY <3>1, FS_CardinalityType DEF RowCounts
    <3> QED BY <3>1, <3>2 DEF RowCounts
  <2>2. ASSUME NEW r \in Reports, NEW w \in Workers
        PROVE  logged[w][r] <= learned[w][r] /\ learned[w][r] <= sends[r]
    <3>1. logged[w][r] \in Nat /\ learned[w][r] \in Nat /\ sends[r] \in Nat
      BY RecoveryAssumption DEF RecoveryInv, TypeOK
    <3> QED BY <3>1 DEF RecoveryInv, MemoryCounts
  <2> QED BY <2>1, <2>2 DEF EffectsArePrefixes
<1> QED BY <1>1, RecoveryInductive, PTL

-----------------------------------------------------------------------------
(* Sums.  Induction over the sets that are summed up is by a smallest set  *)
(* that is an exception.                                                   *)

(* How SumFunctionOnSet walks a set: it takes out the element that CHOOSE  *)
(* names and adds what f is there to the sum of the rest.                  *)
Taken(s) == CHOOSE x \in s : TRUE
Rest(s) == s \ {Taken(s)}

SumOf(it, f, S) ==
    it = [s \in SUBSET S |-> IF s = {} THEN 0 ELSE f[Taken(s)] + it[Rest(s)]]

(* What the walk does at one set. *)
Unfolds(it, f, s) == it[s] = IF s = {} THEN 0 ELSE f[Taken(s)] + it[Rest(s)]

(* On U g is f with d more at x. *)
Changed(f, g, x, d, U) ==
    \A y \in U : f[y] \in Nat /\ g[y] = f[y] + (IF y = x THEN d ELSE 0)

(* A set of finite sets has one that none of the others is part of.        *)
LEMMA SmallestSet ==
    ASSUME NEW S, IsFiniteSet(S), NEW B \in SUBSET (SUBSET S), B # {}
    PROVE  \E s \in B : \A t \in B : t \subseteq s => t = s
<1>1. IsWellFoundedOn(StrictSubsetOrdering(S), SUBSET S)
  BY FS_StrictSubsetOrderingWellFounded, FS_FiniteSubsetsOfFinite
<1>2. PICK s \in B : \A t \in B : <<t, s>> \notin StrictSubsetOrdering(S)
  BY <1>1, WFMin
<1>3. ASSUME NEW t \in B, t \subseteq s, t # s PROVE FALSE
  <2>1. <<t, s>> \in StrictSubsetOrdering(S)
    BY <1>3 DEF StrictSubsetOrdering
  <2> QED BY <1>2, <2>1
<1> QED BY <1>3

(* The element taken is one of the set, and the rest is smaller.           *)
LEMMA TakenAndRest ==
    ASSUME NEW s, s # {}
    PROVE  Taken(s) \in s /\ Rest(s) \subseteq s /\ Rest(s) # s /\ Taken(s) \notin Rest(s)
BY DEF Taken, Rest

LEMMA SumStep ==
    ASSUME NEW it, NEW f, NEW S, SumOf(it, f, S), NEW s \in SUBSET S
    PROVE  Unfolds(it, f, s)
<1>1. it = [u \in SUBSET S |-> IF u = {} THEN 0 ELSE f[Taken(u)] + it[Rest(u)]]
  BY DEF SumOf
<1> DEFINE e(u) == IF u = {} THEN 0 ELSE f[Taken(u)] + it[Rest(u)]
<1>2. it = [u \in SUBSET S |-> e(u)]
  BY <1>1
<1>3. it[s] = e(s)
  <2> HIDE DEF e
  <2> QED BY <1>2
<1> QED BY <1>3 DEF Unfolds

(* A change of d at x is one of the sum, wherever x is summed.             *)
LEMMA SumChanges ==
    ASSUME NEW S, IsFiniteSet(S), NEW T, NEW f, NEW g, NEW x, NEW d \in Nat,
           NEW it, SumOf(it, f, S), NEW ju, SumOf(ju, g, T),
           Changed(f, g, x, d, S \cap T),
           NEW s \in SUBSET (S \cap T)
    PROVE  it[s] \in Nat /\ ju[s] = it[s] + (IF x \in s THEN d ELSE 0)
<1> DEFINE Good(u) == it[u] \in Nat /\ ju[u] = it[u] + (IF x \in u THEN d ELSE 0)
           B == {u \in SUBSET (S \cap T) : ~Good(u)}
<1> SUFFICES ASSUME B # {} PROVE FALSE
  OBVIOUS
<1>1. PICK u \in B : \A t \in B : t \subseteq u => t = u
  <2>1. B \in SUBSET (SUBSET S)
    OBVIOUS
  <2> HIDE DEF B
  <2> QED BY <2>1, SmallestSet
<1>2. u \subseteq S \cap T /\ ~Good(u)
  BY <1>1
<1>3. /\ it[u] = IF u = {} THEN 0 ELSE f[Taken(u)] + it[Rest(u)]
      /\ ju[u] = IF u = {} THEN 0 ELSE g[Taken(u)] + ju[Rest(u)]
  <2>1. u \in SUBSET S /\ u \in SUBSET T
    BY <1>2
  <2>2. Unfolds(it, f, u) /\ Unfolds(ju, g, u)
    BY <2>1, SumStep
  <2> QED BY <2>2 DEF Unfolds
<1>4. u # {}
  BY <1>2, <1>3
<1>5. /\ Taken(u) \in u /\ Rest(u) \subseteq u /\ Rest(u) # u
      /\ \A y : y \in u <=> y = Taken(u) \/ y \in Rest(u)
      /\ Taken(u) \notin Rest(u)
  BY <1>4, TakenAndRest DEF Rest
<1>6. Good(Rest(u))
  <2>1. Rest(u) \notin B
    BY <1>1, <1>5
  <2> QED BY <1>2, <1>5, <2>1
<1>7. f[Taken(u)] \in Nat /\ g[Taken(u)] = f[Taken(u)] + (IF Taken(u) = x THEN d ELSE 0)
  BY <1>2, <1>5 DEF Changed
<1> QED BY <1>2, <1>3, <1>4, <1>5, <1>6, <1>7

(* Without a change the sums agree. *)
LEMMA SumsAgree ==
    ASSUME NEW S, IsFiniteSet(S), NEW T, NEW f, NEW g,
           NEW it, SumOf(it, f, S), NEW ju, SumOf(ju, g, T),
           \A y \in S \cap T : f[y] \in Nat /\ g[y] = f[y],
           NEW s \in SUBSET (S \cap T)
    PROVE  it[s] \in Nat /\ ju[s] = it[s]
<1>1. PICK d \in Nat : d = 0
  OBVIOUS
<1>2. Changed(f, g, S, d, S \cap T)
  BY <1>1 DEF Changed
<1>3. it[s] \in Nat /\ ju[s] = it[s] + (IF S \in s THEN d ELSE 0)
  BY <1>2, SumChanges
<1> QED BY <1>1, <1>3

(* There is such a walk, so CHOOSE finds one. *)
LEMMA SumExists ==
    ASSUME NEW S, IsFiniteSet(S), NEW f, \A y \in S : f[y] \in Nat
    PROVE  \E it : SumOf(it, f, S)
<1> DEFINE Good(T) == \E it : SumOf(it, f, T)
           B == {T \in SUBSET S : ~Good(T)}
<1> SUFFICES ASSUME B # {} PROVE FALSE
  OBVIOUS
<1>1. PICK T \in B : \A t \in B : t \subseteq T => t = T
  <2>1. B \in SUBSET (SUBSET S)
    OBVIOUS
  <2> HIDE DEF B
  <2> QED BY <2>1, SmallestSet
<1> DEFINE walk(u) == CHOOSE it : SumOf(it, f, u)
           sum(u) == walk(u)[u]
<1>2. ASSUME NEW u \in SUBSET T, u # T
      PROVE  SumOf(walk(u), f, u)
  <2>1. Good(u)
    BY <1>1, <1>2
  <2> QED BY <2>1
<1>3. ASSUME NEW u \in SUBSET T, u # T, u # {}
      PROVE  sum(u) = f[Taken(u)] + sum(Rest(u))
  <2>1. Rest(u) \in SUBSET u /\ Rest(u) \in SUBSET T /\ Rest(u) # T /\ u \in SUBSET u
    BY <1>3, TakenAndRest
  <2>2. SumOf(walk(u), f, u) /\ SumOf(walk(Rest(u)), f, Rest(u))
    BY <1>2, <1>3, <2>1
  <2>3. sum(u) = f[Taken(u)] + walk(u)[Rest(u)]
    <3> HIDE DEF walk
    <3> QED BY <1>3, <2>1, <2>2, SumStep DEF Unfolds
  <2>4. walk(u)[Rest(u)] = sum(Rest(u))
    <3>1. IsFiniteSet(u)
      BY <1>1, FS_Subset
    <3> DEFINE v == walk(u)
               w == walk(Rest(u))
    <3>2. SumOf(v, f, u) /\ SumOf(w, f, Rest(u))
      BY <2>2
    <3>3. \A y \in u \cap Rest(u) : f[y] \in Nat /\ f[y] = f[y]
      BY <1>1
    <3>4. Rest(u) \in SUBSET (u \cap Rest(u))
      BY <2>1
    <3> HIDE DEF v, w
    <3>5. v[Rest(u)] = w[Rest(u)]
      BY <3>1, <3>2, <3>3, <3>4, SumsAgree
    <3> QED BY <3>5 DEF v, w
  <2> QED BY <2>3, <2>4
<1>4. sum({}) = 0 \/ T = {}
  <2>1. CASE T # {}
    <3> HIDE DEF walk
    <3>1. SumOf(walk({}), f, {})
      BY <1>2, <2>1
    <3> QED BY <3>1, SumStep DEF Unfolds
  <2> QED BY <2>1
<1> HIDE DEF sum
<1> DEFINE it == [u \in SUBSET T |-> IF u = {} THEN 0
                                     ELSE IF u = T THEN f[Taken(u)] + sum(Rest(u))
                                     ELSE sum(u)]
<1>5. ASSUME NEW u \in SUBSET T
      PROVE  it[u] = IF u = {} THEN 0 ELSE f[Taken(u)] + it[Rest(u)]
  <2>1. CASE u # {}
    <3>1. Rest(u) \in SUBSET T /\ Rest(u) # T
      BY <2>1, TakenAndRest
    <3>2. it[Rest(u)] = sum(Rest(u))
      BY <1>4, <2>1, <3>1
    <3> QED BY <1>3, <2>1, <3>2
  <2> QED BY <2>1
<1>6. SumOf(it, f, T)
  <2>1. it = [u \in SUBSET T |-> it[u]]
    OBVIOUS
  <2> HIDE DEF it
  <2> QED BY <1>5, <2>1 DEF SumOf
<1> QED BY <1>1, <1>6

(* The sum over a set changes as the summand does. *)
LEMMA TotalChanges ==
    ASSUME NEW S, IsFiniteSet(S), NEW f, NEW g, NEW x, NEW d \in Nat, Changed(f, g, x, d, S)
    PROVE  /\ SumFunctionOnSet(f, S) \in Nat
           /\ SumFunctionOnSet(g, S) = SumFunctionOnSet(f, S) + (IF x \in S THEN d ELSE 0)
<1> DEFINE it == CHOOSE w : SumOf(w, f, S)
           ju == CHOOSE w : SumOf(w, g, S)
<1>1. SumFunctionOnSet(f, S) = it[S] /\ SumFunctionOnSet(g, S) = ju[S]
  BY DEF SumFunctionOnSet, FoldFunctionOnSet, MapThenFoldSet, SumOf, Taken, Rest
<1>2. SumOf(it, f, S) /\ SumOf(ju, g, S)
  <2>1. \A y \in S : f[y] \in Nat /\ g[y] \in Nat
    BY DEF Changed
  <2>2. \E w : SumOf(w, f, S)
    BY <2>1, SumExists
  <2>3. \E w : SumOf(w, g, S)
    BY <2>1, SumExists
  <2> QED BY <2>2, <2>3
<1> HIDE DEF it, ju
<1>3. S \cap S = S /\ S \in SUBSET (S \cap S)
  OBVIOUS
<1>4. it[S] \in Nat /\ ju[S] = it[S] + (IF x \in S THEN d ELSE 0)
  BY <1>2, <1>3, SumChanges
<1> QED BY <1>1, <1>4

(* A sum of numbers up to c is at most c times their number. *)
LEMMA TotalBounded ==
    ASSUME NEW S, IsFiniteSet(S), NEW f, NEW c \in Nat, \A y \in S : f[y] \in 0..c
    PROVE  /\ SumFunctionOnSet(f, S) \in Nat
           /\ SumFunctionOnSet(f, S) <= c * Cardinality(S)
<1> DEFINE it == CHOOSE w : SumOf(w, f, S)
           Good(u) == it[u] \in Nat /\ it[u] <= c * Cardinality(u)
           B == {u \in SUBSET S : ~Good(u)}
<1>1. SumFunctionOnSet(f, S) = it[S]
  BY DEF SumFunctionOnSet, FoldFunctionOnSet, MapThenFoldSet, SumOf, Taken, Rest
<1>2. SumOf(it, f, S)
  <2>1. \A y \in S : f[y] \in Nat
    OBVIOUS
  <2>2. \E w : SumOf(w, f, S)
    BY <2>1, SumExists
  <2> QED BY <2>2
<1> HIDE DEF it
<1>3. ASSUME B # {} PROVE FALSE
  <2>1. PICK u \in B : \A t \in B : t \subseteq u => t = u
    <3>1. B \in SUBSET (SUBSET S)
      OBVIOUS
    <3> HIDE DEF B
    <3> QED BY <1>3, <3>1, SmallestSet
  <2>2. u \subseteq S /\ ~Good(u) /\ IsFiniteSet(u)
    BY <2>1, FS_Subset
  <2>3. Unfolds(it, f, u)
    BY <1>2, <2>2, SumStep
  <2>4. CASE u = {}
    <3>1. Cardinality(u) = 0
      BY <2>4, FS_EmptySet
    <3> QED BY <2>2, <2>3, <2>4, <3>1 DEF Unfolds
  <2>5. CASE u # {}
    <3>1. /\ Taken(u) \in u /\ Rest(u) \subseteq u /\ Rest(u) # u
          /\ f[Taken(u)] \in 0..c
      BY <2>2, <2>5, TakenAndRest
    <3>2. Good(Rest(u))
      <4>1. Rest(u) \notin B
        BY <2>1, <3>1
      <4> QED BY <2>2, <3>1, <4>1
    <3>3. /\ Cardinality(Rest(u)) = Cardinality(u) - 1
          /\ Cardinality(u) \in Nat
      BY <2>2, <3>1, FS_RemoveElement, FS_CardinalityType DEF Rest
    <3> DEFINE n == Cardinality(u)
    <3>4. it[Rest(u)] <= c * (n - 1) /\ it[Rest(u)] \in Nat /\ n \in Nat
      BY <3>2, <3>3
    <3>5. it[u] = f[Taken(u)] + it[Rest(u)]
      BY <2>3, <2>5 DEF Unfolds
    <3>6. it[u] \in Nat /\ it[u] <= c * n
      <4> HIDE DEF n
      <4>1. c * (n - 1) + c = c * n
        BY <3>4
      <4> QED BY <3>1, <3>4, <3>5, <4>1
    <3> QED BY <2>2, <3>6
  <2> QED BY <2>4, <2>5
<1> QED BY <1>1, <1>3

-----------------------------------------------------------------------------
(* What the bandit has learned.                                            *)

(* A factor that cancels, and a quotient of a multiple. *)
LEMMA Cancel ==
    ASSUME NEW a \in Int, NEW b \in Int, NEW c \in Int, a # 0, a * b = a * c
    PROVE  b = c
OBVIOUS

LEMMA DivExact == ASSUME NEW n \in Nat \ {0}, NEW k \in Int PROVE (n * k) \div n = k
OBVIOUS

(* The mean of n rewards, in the unit, and a unit that n and n - 1 divide. *)
MeanIs(n, mean, sum) == 2 * n * mean = Scale * sum
Fine(n, d) == Scale = 2 * (n * (n - 1)) * d

(* One more reward R, when every quotient on the way is a whole number.    *)
LEMMA MeanIsExact ==
    ASSUME NEW m \in Nat \ {0}, NEW d \in Nat, Fine(m + 1, d),
           NEW G \in Nat, NEW R \in Nat, NEW old \in Nat, MeanIs(m, old, G)
    PROVE  MeanIs(m + 1, Mean(old, (R * Scale) \div 2, m + 1), G + R)
<1> DEFINE n == m + 1
           reward == (R * Scale) \div 2
<1>0. /\ n \in Nat \ {0} /\ m \in Int /\ m # 0 /\ Scale \in Nat
      /\ Scale = 2 * ((m + 1) * m) * d
      /\ 2 * m * old = Scale * G
  BY RecoveryAssumption DEF Fine, MeanIs
<1>1. old = n * (d * G)
  <2>1. (2 * m) * old = (2 * m) * (n * (d * G))
    BY <1>0
  <2> QED BY <1>0, <2>1, Cancel
<1>2. reward = n * (d * (m * R))
  <2>1. R * Scale = 2 * (n * (d * (m * R)))
    BY <1>0
  <2> DEFINE k == n * (d * (m * R))
  <2>2. k \in Int
    OBVIOUS
  <2> HIDE DEF k
  <2>3. (2 * k) \div 2 = k
    BY <2>2
  <2> QED BY <2>1, <2>3 DEF k
<1>3. (reward - old) \div n = d * (m * R) - d * G
  <2> DEFINE k == d * (m * R) - d * G
  <2>1. reward - old = n * k
    BY <1>1, <1>2
  <2>2. k \in Int
    OBVIOUS
  <2> HIDE DEF k, n, reward
  <2>3. (n * k) \div n = k
    BY <1>0, <2>2, DivExact
  <2> QED BY <2>1, <2>3 DEF k
<1>4. Mean(old, reward, n) = d * m * (G + R)
  <2>1. Mean(old, reward, n) = n * (d * G) + (d * (m * R) - d * G)
    BY <1>1, <1>3 DEF Mean
  <2> HIDE DEF reward
  <2> QED BY <2>1
<1> QED BY <1>0, <1>4 DEF MeanIs

(* The reports that bear on playbook p under key k. *)
Evidence(k, p) == {r \in Reports : KeyOf[r] = k /\ PlaybookOf[r] = p}

MeanHolds(w, k, p) ==
    /\ counts[w][k][p] = Trials(w, Evidence(k, p))
    /\ MeanIs(counts[w][k][p], q[w][k][p], Gained(w, Evidence(k, p)))

LEMMA EvidenceFinite ==
    ASSUME NEW k, NEW p
    PROVE  /\ IsFiniteSet(Evidence(k, p)) /\ Evidence(k, p) \subseteq Reports
           /\ Cardinality(Evidence(k, p)) \in Nat /\ Cardinality(Reports) \in Nat
           /\ Cardinality(Evidence(k, p)) <= Cardinality(Reports)
<1>1. Evidence(k, p) \subseteq Reports
  BY DEF Evidence
<1>2. IsFiniteSet(Reports)
  BY ExactScale
<1>3. IsFiniteSet(Evidence(k, p)) /\ Cardinality(Evidence(k, p)) <= Cardinality(Reports)
  BY <1>1, <1>2, FS_Subset
<1> QED BY <1>1, <1>2, <1>3, FS_CardinalityType

(* A worker that has learned nothing. *)
LEMMA NothingLearned ==
    ASSUME NEW w \in Workers, NEW k \in Keys, NEW p \in Playbooks,
           counts[w] = Zero, q[w] = Zero, learned[w] = NoReports
    PROVE  MeanHolds(w, k, p)
<1> DEFINE S == Evidence(k, p)
<1>1. IsFiniteSet(S) /\ S \subseteq Reports /\ Cardinality(S) \in Nat
  BY EvidenceFinite
<1>2. counts[w][k][p] = 0 /\ q[w][k][p] = 0
  BY DEF Zero
<1>3. PICK c \in Nat : c = 0
  OBVIOUS
<1>4. \A y \in S : learned[w][y] \in 0..c /\ Rewards(w)[y] \in 0..c
  <2> SUFFICES ASSUME NEW y \in S
               PROVE  learned[w][y] \in 0..c /\ Rewards(w)[y] \in 0..c
    OBVIOUS
  <2>1. y \in Reports /\ RewardOf[y] \in {0, 1, 2}
    BY <1>1, RecoveryAssumption
  <2>2. learned[w][y] = 0 /\ Rewards(w)[y] = 0 * RewardOf[y]
    BY <2>1 DEF NoReports, Rewards
  <2> QED BY <1>3, <2>1, <2>2
<1> HIDE DEF S
<1>5. /\ Trials(w, S) \in Nat /\ Trials(w, S) <= c * Cardinality(S)
      /\ Gained(w, S) \in Nat /\ Gained(w, S) <= c * Cardinality(S)
  BY <1>1, <1>4, TotalBounded DEF Trials, Gained
<1>6. Trials(w, S) = 0 /\ Gained(w, S) = 0
  BY <1>1, <1>3, <1>5
<1> QED BY <1>2, <1>6, RecoveryAssumption DEF MeanHolds, MeanIs, S

(* What one more report learned adds to the sums. *)
Added(w, r, S) ==
    /\ Trials(w, S) \in Nat /\ Gained(w, S) \in Nat
    /\ Trials(w, S)' = Trials(w, S) + (IF r \in S THEN 1 ELSE 0)
    /\ Gained(w, S)' = Gained(w, S) + (IF r \in S THEN RewardOf[r] ELSE 0)

LEMMA LearnAdds ==
    ASSUME TypeOK, TypeOK', NEW w \in Workers, NEW r \in Reports,
           learned' = [learned EXCEPT ![w][r] = @ + 1],
           NEW S \in SUBSET Reports, IsFiniteSet(S)
    PROVE  Added(w, r, S)
<1>1. IsFiniteSet(S) /\ S \subseteq Reports
  OBVIOUS
<1>2. /\ learned[w] \in [Reports -> Nat]
      /\ \A y \in Reports : RewardOf[y] \in Nat
      /\ \A y \in Reports : learned'[w][y] = learned[w][y] + (IF y = r THEN 1 ELSE 0)
  <2>1. \A y \in Reports : RewardOf[y] \in {0, 1, 2}
    BY RecoveryAssumption
  <2>2. learned \in [Workers -> [Reports -> Nat]]
    BY DEF TypeOK
  <2> QED BY <2>1, <2>2
<1>3. Changed(learned[w], learned'[w], r, 1, S)
  BY <1>1, <1>2 DEF Changed
<1>4. Changed(Rewards(w), Rewards(w)', r, RewardOf[r], S)
  <2>1. \A y \in Reports : /\ learned[w][y] \in Nat /\ RewardOf[y] \in Nat
                           /\ learned'[w][y] = learned[w][y] + (IF y = r THEN 1 ELSE 0)
    BY <1>2
  <2>2. \A a, b \in Nat : a * b \in Nat /\ (a + 1) * b = a * b + b
    OBVIOUS
  <2>3. \A y \in Reports : /\ Rewards(w)[y] = learned[w][y] * RewardOf[y]
                           /\ Rewards(w)'[y] = learned'[w][y] * RewardOf[y]
    BY DEF Rewards
  <2>4. ASSUME NEW y \in S
        PROVE  /\ Rewards(w)[y] \in Nat
               /\ Rewards(w)'[y] = Rewards(w)[y] + (IF y = r THEN RewardOf[r] ELSE 0)
    <3>1. y \in Reports
      BY <1>1
    <3>2. CASE y = r
      BY <2>1, <2>2, <2>3, <3>1, <3>2
    <3>3. CASE y # r
      BY <2>1, <2>2, <2>3, <3>1, <3>3
    <3> QED BY <3>2, <3>3
  <2> QED BY <2>4 DEF Changed
<1>5. /\ Trials(w, S) \in Nat
      /\ Trials(w, S)' = Trials(w, S) + (IF r \in S THEN 1 ELSE 0)
  <2>1. /\ SumFunctionOnSet(learned[w], S) \in Nat
        /\ SumFunctionOnSet(learned'[w], S)
             = SumFunctionOnSet(learned[w], S) + (IF r \in S THEN 1 ELSE 0)
    BY <1>1, <1>3, TotalChanges
  <2> QED BY <2>1 DEF Trials
<1>6. /\ Gained(w, S) \in Nat
      /\ Gained(w, S)' = Gained(w, S) + (IF r \in S THEN RewardOf[r] ELSE 0)
  <2>1. /\ SumFunctionOnSet(Rewards(w), S) \in Nat
        /\ SumFunctionOnSet(Rewards(w)', S)
             = SumFunctionOnSet(Rewards(w), S) + (IF r \in S THEN RewardOf[r] ELSE 0)
    BY <1>1, <1>2, <1>4, TotalChanges
  <2> QED BY <2>1 DEF Gained
<1> QED BY <1>5, <1>6 DEF Added

(* What stays. *)
LEMMA MeanRests ==
    ASSUME NEW w, NEW k, NEW p, MeanHolds(w, k, p),
           counts'[w] = counts[w], q'[w] = q[w], learned'[w] = learned[w]
    PROVE  MeanHolds(w, k, p)'
<1>1. Rewards(w)' = Rewards(w)
  BY DEF Rewards
<1>2. /\ Trials(w, Evidence(k, p))' = Trials(w, Evidence(k, p))
      /\ Gained(w, Evidence(k, p))' = Gained(w, Evidence(k, p))
  BY <1>1 DEF Trials, Gained, Evidence
<1> QED BY <1>2 DEF MeanHolds, MeanIs

(* The step of the bandit itself. *)
LEMMA OthersKept ==
    ASSUME NEW V, NEW f \in [Workers -> V], NEW w \in Workers, NEW v \in Workers, v # w,
           NEW a, NEW b, NEW x
    PROVE  [f EXCEPT ![w][a][b] = x][v] = f[v]
OBVIOUS

LEMMA CellChanged ==
    ASSUME NEW V, NEW f \in [Workers -> [Keys \cup Modes -> [Playbooks -> V]]],
           NEW w \in Workers, NEW a \in Keys, NEW b \in Playbooks, NEW x,
           NEW k \in Keys, NEW p \in Playbooks
    PROVE  [f EXCEPT ![w][a][b] = x][w][k][p] = IF k = a /\ p = b THEN x ELSE f[w][k][p]
OBVIOUS

LEMMA LearnStep ==
    ASSUME TypeOK, TypeOK', MemoryCounts', NEW w \in Workers, Learn(w),
           NEW k \in Keys, NEW p \in Playbooks, MeanHolds(w, k, p)
    PROVE  MeanHolds(w, k, p)'
<1> DEFINE r == running[w]
           S == Evidence(k, p)
           c == counts[w][k][p]
           n == c + 1
           old == q[w][k][p]
           T == Trials(w, S)
           G == Gained(w, S)
<1>1. /\ r \in Reports
      /\ learned' = [learned EXCEPT ![w][r] = @ + 1]
      /\ counts' = [counts EXCEPT ![w][KeyOf[r]][PlaybookOf[r]] = @ + 1]
      /\ q' = [q EXCEPT ![w][KeyOf[r]][PlaybookOf[r]] =
                 Mean(@, (RewardOf[r] * Scale) \div 2,
                      counts[w][KeyOf[r]][PlaybookOf[r]] + 1)]
  BY RunsReport DEF Learn
<1>2. /\ c \in Nat /\ old \in Nat /\ Scale \in Nat \ {0}
      /\ KeyOf[r] \in Keys /\ PlaybookOf[r] \in Playbooks
      /\ RewardOf[r] \in {0, 1, 2}
  <2>1. KeyOf[r] \in Keys /\ PlaybookOf[r] \in Playbooks /\ RewardOf[r] \in {0, 1, 2}
    BY <1>1, RecoveryAssumption
  <2>2. Scale \in Nat \ {0} /\ 0..Scale \subseteq Nat
    BY RecoveryAssumption
  <2>3. c \in Nat /\ old \in 0..Scale
    BY DEF TypeOK
  <2> QED BY <2>1, <2>2, <2>3
<1>3. /\ T \in Nat /\ G \in Nat
      /\ Trials(w, S)' = T + (IF r \in S THEN 1 ELSE 0)
      /\ Gained(w, S)' = G + (IF r \in S THEN RewardOf[r] ELSE 0)
  <2>1. IsFiniteSet(S) /\ S \in SUBSET Reports
    BY EvidenceFinite
  <2> HIDE DEF S, r
  <2>2. Added(w, r, S)
    BY <1>1, <2>1, LearnAdds
  <2> QED BY <2>2 DEF Added
<1>4. r \in S <=> KeyOf[r] = k /\ PlaybookOf[r] = p
  BY <1>1 DEF Evidence
<1>5. c = T /\ 2 * c * old = Scale * G
  BY DEF MeanHolds, MeanIs
<1>6. /\ counts'[w][k][p] = IF k = KeyOf[r] /\ p = PlaybookOf[r]
                              THEN counts[w][KeyOf[r]][PlaybookOf[r]] + 1 ELSE c
      /\ q'[w][k][p] = IF k = KeyOf[r] /\ p = PlaybookOf[r]
                         THEN Mean(q[w][KeyOf[r]][PlaybookOf[r]], (RewardOf[r] * Scale) \div 2,
                                   counts[w][KeyOf[r]][PlaybookOf[r]] + 1) ELSE old
  <2>1. /\ counts \in [Workers -> [Keys \cup Modes -> [Playbooks -> Nat]]]
        /\ q \in [Workers -> [Keys \cup Modes -> [Playbooks -> 0..Scale]]]
    BY DEF TypeOK
  <2> HIDE DEF r
  <2> QED BY <1>1, <1>2, <2>1, CellChanged
<1>7. CASE r \notin S
  <2>1. counts'[w][k][p] = c /\ q'[w][k][p] = old
    BY <1>4, <1>6, <1>7
  <2>2. Trials(w, S)' = T /\ Gained(w, S)' = G
    BY <1>3, <1>7
  <2> QED BY <1>5, <2>1, <2>2 DEF MeanHolds, MeanIs, Evidence
<1>8. CASE r \in S
  <2>1. /\ counts'[w][k][p] = n
        /\ q'[w][k][p] = Mean(old, (RewardOf[r] * Scale) \div 2, n)
    BY <1>4, <1>6, <1>8
  <2>2. Trials(w, S)' = n /\ Gained(w, S)' = G + RewardOf[r]
    BY <1>3, <1>5, <1>8
  <2>3. n \in 1..(MaxSends * Cardinality(Reports))
    <3>1. /\ IsFiniteSet(S) /\ S \subseteq Reports
          /\ Cardinality(S) \in Nat /\ Cardinality(Reports) \in Nat
          /\ Cardinality(S) <= Cardinality(Reports)
      BY EvidenceFinite
    <3>2. \A y \in S : learned'[w][y] \in 0..MaxSends
      <4> SUFFICES ASSUME NEW y \in S PROVE learned'[w][y] \in 0..MaxSends
        OBVIOUS
      <4>1. /\ learned'[w][y] \in Nat /\ sends'[y] \in 0..MaxSends
            /\ learned'[w][y] + (IF Unlearned(w, y)' THEN 1 ELSE 0) <= sends'[y]
        BY <3>1 DEF TypeOK, MemoryCounts
      <4> QED BY <4>1, RecoveryAssumption
    <3> HIDE DEF S
    <3>3. SumFunctionOnSet(learned'[w], S) <= MaxSends * Cardinality(S)
      BY <3>1, <3>2, TotalBounded, RecoveryAssumption
    <3>4. SumFunctionOnSet(learned'[w], S) = n
      BY <2>2 DEF Trials, S, Evidence
    <3>5. \A a, b, d \in Nat : a <= b => d * a <= d * b
      OBVIOUS
    <3>6. MaxSends * Cardinality(S) <= MaxSends * Cardinality(Reports)
      BY <3>1, <3>5, RecoveryAssumption
    <3>7. n \in Nat \ {0} /\ MaxSends * Cardinality(Reports) \in Nat
          /\ MaxSends * Cardinality(S) \in Nat
      <4>1. n \in Nat \ {0}
        BY <1>2
      <4>2. \A x \in Nat : MaxSends * x \in Nat
        BY RecoveryAssumption
      <4> HIDE DEF n
      <4> QED BY <3>1, <4>1, <4>2
    <3>8. n <= MaxSends * Cardinality(S)
      BY <3>3, <3>4
    <3> DEFINE some == MaxSends * Cardinality(S)
               all == MaxSends * Cardinality(Reports)
    <3> HIDE DEF n, some, all
    <3>9. n \in Nat \ {0} /\ some \in Nat /\ all \in Nat /\ n <= some /\ some <= all
      BY <3>6, <3>7, <3>8 DEF some, all
    <3>10. n \in 1..all
      BY <3>9
    <3> QED BY <3>10 DEF all
  <2>4. 2 * n * Mean(old, (RewardOf[r] * Scale) \div 2, n) = Scale * (G + RewardOf[r])
    <3>1. CASE c = 0
      <4>1. G = 0
        BY <1>2, <1>3, <1>5, <3>1
      <4>2. PICK d \in 1..Scale : Scale = 2 * d
        BY ExactScale
      <4>3. (RewardOf[r] * Scale) \div 2 = RewardOf[r] * d
        <5>1. RewardOf[r] * Scale = 2 * (RewardOf[r] * d) /\ RewardOf[r] * d \in Int
          BY <1>2, <4>2
        <5> QED BY <5>1, DivExact
      <4>4. Mean(old, RewardOf[r] * d, 1) = RewardOf[r] * d
        BY <1>2 DEF Mean
      <4> QED BY <1>2, <3>1, <4>1, <4>2, <4>3, <4>4
    <3>2. CASE c # 0
      <4>1. n \in 2..(MaxSends * Cardinality(Reports)) /\ n - 1 = c
        BY <1>2, <2>3, <3>2
      <4>2. PICK d \in 1..Scale : Scale = 2 * (n * (n - 1)) * d
        BY <4>1, ExactScale
      <4>3. Fine(c + 1, d) /\ d \in Nat
        BY <4>1, <4>2 DEF Fine
      <4>4. /\ c \in Nat \ {0} /\ G \in Nat /\ old \in Nat /\ RewardOf[r] \in Nat
            /\ MeanIs(c, old, G)
        BY <1>2, <1>3, <1>5, <3>2 DEF MeanIs
      <4> HIDE DEF c, G, old, r
      <4>5. MeanIs(c + 1, Mean(old, (RewardOf[r] * Scale) \div 2, c + 1), G + RewardOf[r])
        BY <4>3, <4>4, MeanIsExact
      <4> QED BY <4>5 DEF MeanIs
    <3> QED BY <3>1, <3>2
  <2> QED BY <2>1, <2>2, <2>4 DEF MeanHolds, MeanIs, Evidence
<1> QED BY <1>7, <1>8

(* Every mean is that of what was learned. *)
Means == \A w \in Workers, k \in Keys, p \in Playbooks : MeanHolds(w, k, p)

(* That a worker without experience has right means holds in any state.    *)
FreshMeans ==
    \A w \in Workers :
        counts[w] = Zero /\ q[w] = Zero /\ learned[w] = NoReports =>
            \A k \in Keys, p \in Playbooks : MeanHolds(w, k, p)

LEMMA FreshMeansNext == FreshMeans'
<1>1. FreshMeans
  BY NothingLearned DEF FreshMeans
<1> QED BY <1>1, PTL

LEMMA MeansStep ==
    ASSUME RecoveryInv, RecoveryInv', Means, [Next]_vars
    PROVE  Means'
<1> SUFFICES ASSUME NEW v \in Workers, NEW k \in Keys, NEW p \in Playbooks
             PROVE  MeanHolds(v, k, p)'
  BY DEF Means
<1>0. TypeOK /\ TypeOK' /\ MemoryCounts' /\ MeanHolds(v, k, p)
  BY DEF RecoveryInv, Means
<1>1. ASSUME NEW w \in Workers, Learn(w) PROVE MeanHolds(v, k, p)'
  <2>1. CASE v = w
    BY <1>0, <1>1, <2>1, LearnStep
  <2>2. CASE v # w
    <3>1. counts'[v] = counts[v] /\ q'[v] = q[v] /\ learned'[v] = learned[v]
      <4>1. counts'[v] = counts[v]
        <5>1. \E a, b, x : counts' = [counts EXCEPT ![w][a][b] = x]
          BY <1>1 DEF Learn
        <5>2. counts \in [Workers -> [Keys \cup Modes -> [Playbooks -> Nat]]]
          BY <1>0 DEF TypeOK
        <5> QED BY <2>2, <5>1, <5>2, OthersKept
      <4>2. q'[v] = q[v]
        <5>1. \E a, b, x : q' = [q EXCEPT ![w][a][b] = x]
          BY <1>1 DEF Learn
        <5>2. q \in [Workers -> [Keys \cup Modes -> [Playbooks -> 0..Scale]]]
          BY <1>0 DEF TypeOK
        <5> QED BY <2>2, <5>1, <5>2, OthersKept
      <4>3. learned'[v] = learned[v]
        <5>1. \E a, b : learned' = [learned EXCEPT ![w][a] = b]
          BY <1>1 DEF Learn
        <5>2. learned \in [Workers -> [Reports -> Nat]]
          BY <1>0 DEF TypeOK
        <5> QED BY <2>2, <5>1, <5>2
      <4> QED BY <4>1, <4>2, <4>3
    <3> QED BY <1>0, <3>1, MeanRests
  <2> QED BY <2>1, <2>2
<1>2. ASSUME NEW w \in Workers, Crash(w) PROVE MeanHolds(v, k, p)'
  <2>1. CASE v = w
    <3>1. counts'[v] = Zero /\ q'[v] = Zero /\ learned'[v] = NoReports
      BY <1>0, <1>2, <2>1 DEF Crash, TypeOK
    <3> QED BY <3>1, FreshMeansNext DEF FreshMeans, Zero, NoReports
  <2>2. CASE v # w
    <3>1. counts'[v] = counts[v] /\ q'[v] = q[v] /\ learned'[v] = learned[v]
      BY <1>0, <1>2, <2>2 DEF Crash, TypeOK
    <3> QED BY <1>0, <3>1, MeanRests
  <2> QED BY <2>1, <2>2
<1>3. CASE UNCHANGED <<counts, q, learned>>
  BY <1>0, <1>3, MeanRests
<1> QED BY <1>1, <1>2, <1>3
        DEF Next, Send, Reject, Accept, Disconnect, SaveOutcome, SaveSnapshot, Log, Boot,
            PostgresFails, PostgresReturns, vars, memory

THEOREM MeansInductive == Spec => []Means
<1>1. Init => Means
  BY NothingLearned DEF Init, Means
<1>2. RecoveryInv /\ RecoveryInv' /\ Means /\ [Next]_vars => Means'
  BY MeansStep
<1> QED BY <1>1, <1>2, RecoveryInductive, PTL DEF Spec

(* The incremental update computes the mean of the rewards that the        *)
(* process has learned for a key and a playbook, for any reports, retries  *)
(* and crashes (Recovery!QIsMean).                                         *)
THEOREM LearnedMeansAreMeans == Spec => []QIsMean
<1>1. Means => QIsMean
  BY DEF Means, MeanHolds, MeanIs, Evidence, QIsMean
<1> QED BY <1>1, MeansInductive, PTL

-----------------------------------------------------------------------------
(* The greedy choice.                                                      *)

LEMMA LeastNumber ==
    ASSUME NEW T \in SUBSET Nat, T # {}
    PROVE  \E x \in T : \A y \in T : x <= y
<1>1. PICK x \in T : \A y \in T : <<y, x>> \notin OpToRel(<, Nat)
  BY NatLessThanWellFounded, WFMin
<1>2. \A y \in T : ~(y < x)
  BY <1>1 DEF OpToRel
<1> QED BY <1>2

(* Pick finds a playbook of the mode with no lower value than another.     *)
LEMMA PickIsBest ==
    ASSUME TypeOK, NEW w \in Workers, NEW m \in Modes, NEW i \in DOMAIN Library[m]
    PROVE  /\ Pick(w, m) \in Playbooks /\ Library[m][i] \in Playbooks
           /\ q[w][m][Library[m][i]] <= q[w][m][Pick(w, m)]
<1> DEFINE D == DOMAIN Library[m]
           score(j) == q[w][m][Library[m][j]]
           Best(j) == \A l \in D \ {j} : score(l) < score(j) \/ (score(l) = score(j) /\ j < l)
           best == CHOOSE j \in D : Best(j)
<1>1. /\ D \subseteq Nat
      /\ \A j \in D : Library[m][j] \in Playbooks
  BY RecoveryAssumption
<1>2. /\ Scale \in Nat
      /\ \A j \in D : score(j) \in 0..Scale
  BY <1>1, RecoveryAssumption DEF TypeOK
<1>3. i \in D
  OBVIOUS
<1>4. Pick(w, m) = Library[m][best]
  BY DEF Pick
<1> HIDE DEF D, score
<1>5. \E j \in D : Best(j)
  <2> DEFINE V == {Scale - score(j) : j \in D}
  <2>1. PICK x \in V : \A y \in V : x <= y
    <3>1. V \in SUBSET Nat /\ V # {}
      BY <1>2, <1>3
    <3> HIDE DEF V
    <3> QED BY <3>1, LeastNumber
  <2> DEFINE I == {j \in D : Scale - score(j) = x}
  <2>2. PICK j \in I : \A l \in I : j <= l
    <3>1. I \in SUBSET Nat /\ I # {}
      BY <1>1, <2>1
    <3> HIDE DEF I
    <3> QED BY <3>1, LeastNumber
  <2>3. ASSUME NEW l \in D, l # j
        PROVE  score(l) < score(j) \/ (score(l) = score(j) /\ j < l)
    <3>1. /\ Scale - score(j) <= Scale - score(l)
          /\ score(j) \in 0..Scale /\ score(l) \in 0..Scale
          /\ j \in Nat /\ l \in Nat
      BY <1>1, <1>2, <2>1, <2>3
    <3>2. score(l) = score(j) => j <= l
      BY <2>2, <2>3
    <3> QED BY <1>2, <2>3, <3>1, <3>2
  <2> QED BY <2>3
<1>6. best \in D /\ Best(best)
  BY <1>5
<1> HIDE DEF best
<1>7. score(i) <= score(best)
  BY <1>2, <1>3, <1>6
<1> QED BY <1>1, <1>3, <1>4, <1>6, <1>7 DEF score

(* Means in the order of their values. *)
LEMMA BetterMean ==
    ASSUME NEW b \in Nat, NEW o \in Nat, NEW x \in Nat, NEW y \in Nat, x >= y,
           NEW g \in Nat, NEW h \in Nat, MeanIs(b, x, g), MeanIs(o, y, h)
    PROVE  g * o >= h * b
<1>1. Scale \in Nat \ {0}
  BY RecoveryAssumption
<1>2. 2 * b * x = Scale * g /\ 2 * o * y = Scale * h
  BY DEF MeanIs
<1>3. Scale * (g * o) = (2 * (b * o)) * x /\ Scale * (h * b) = (2 * (b * o)) * y
  BY <1>1, <1>2
<1>4. \A c \in Nat : c * x >= c * y
  OBVIOUS
<1>5. Scale * (g * o) >= Scale * (h * b)
  BY <1>3, <1>4
<1>6. \A c, d \in Nat : Scale * c >= Scale * d => c >= d
  BY <1>1
<1>7. g * o \in Nat /\ h * b \in Nat
  OBVIOUS
<1> QED BY <1>5, <1>6, <1>7

(* Whatever the session ids: the greedy choice has the best mean reward    *)
(* over the reports filed under the name of the mode                       *)
(* (Recovery!GreedyFollowsItsKey).                                         *)
THEOREM GreedyIsBest == Spec => []GreedyFollowsItsKey
<1>1. TypeOK /\ Means => GreedyFollowsItsKey
  <2> SUFFICES ASSUME TypeOK, Means, NEW w \in Workers, NEW m \in Modes,
                      NEW i \in DOMAIN Library[m],
                      Trials(w, Evidence(m, Pick(w, m))) > 0,
                      Trials(w, Evidence(m, Library[m][i])) > 0
               PROVE  Gained(w, Evidence(m, Pick(w, m))) * Trials(w, Evidence(m, Library[m][i]))
                        >= Gained(w, Evidence(m, Library[m][i]))
                             * Trials(w, Evidence(m, Pick(w, m)))
    BY DEF GreedyFollowsItsKey, Evidence
  <2> DEFINE a == Pick(w, m)
             b == Library[m][i]
  <2>1. a \in Playbooks /\ b \in Playbooks /\ q[w][m][b] <= q[w][m][a]
    BY PickIsBest
  <2> HIDE DEF a, b
  <2>2. m \in Keys
    <3>1. Evidence(m, b) # {}
      <4> SUFFICES ASSUME Evidence(m, b) = {} PROVE FALSE
        OBVIOUS
      <4>1. PICK c \in Nat : c = 0
        OBVIOUS
      <4>2. \A y \in {} : learned[w][y] \in 0..c
        OBVIOUS
      <4>3. SumFunctionOnSet(learned[w], {}) <= c * Cardinality({})
        BY <4>1, <4>2, FS_EmptySet, TotalBounded
      <4>4. SumFunctionOnSet(learned[w], {}) > 0
        BY DEF Trials, b
      <4>5. SumFunctionOnSet(learned[w], {}) \in Nat
        BY <4>1, <4>2, FS_EmptySet, TotalBounded
      <4> QED BY <4>1, <4>3, <4>4, <4>5, FS_EmptySet
    <3>2. PICK r \in Reports : KeyOf[r] = m
      BY <3>1 DEF Evidence
    <3> QED BY <3>2, RecoveryAssumption
  <2>3. /\ MeanIs(Trials(w, Evidence(m, a)), q[w][m][a], Gained(w, Evidence(m, a)))
        /\ MeanIs(Trials(w, Evidence(m, b)), q[w][m][b], Gained(w, Evidence(m, b)))
    BY <2>1, <2>2 DEF Means, MeanHolds
  <2>4. /\ Trials(w, Evidence(m, a)) \in Nat /\ Gained(w, Evidence(m, a)) \in Nat
        /\ Trials(w, Evidence(m, b)) \in Nat /\ Gained(w, Evidence(m, b)) \in Nat
    <3>1. ASSUME NEW S \in SUBSET Reports, IsFiniteSet(S)
          PROVE  Trials(w, S) \in Nat /\ Gained(w, S) \in Nat
      <4>1. \A y \in Reports : learned[w][y] \in Nat /\ RewardOf[y] \in {0, 1, 2}
        BY RecoveryAssumption DEF TypeOK
      <4>2. \A y \in S : Rewards(w)[y] \in Nat
        BY <4>1 DEF Rewards
      <4>3. PICK d \in Nat : d = 0
        OBVIOUS
      <4>4. /\ Changed(learned[w], learned[w], S, d, S)
            /\ Changed(Rewards(w), Rewards(w), S, d, S)
        BY <4>1, <4>2, <4>3 DEF Changed
      <4> QED BY <3>1, <4>4, TotalChanges DEF Trials, Gained
    <3> QED BY <3>1, EvidenceFinite
  <2>5. q[w][m][a] \in Nat /\ q[w][m][b] \in Nat
    BY <2>1, RecoveryAssumption DEF TypeOK
  <2> QED BY <2>1, <2>3, <2>4, <2>5, BetterMean DEF a, b
<1> QED BY <1>1, RecoveryTypeCorrect, MeansInductive, PTL
=============================================================================
