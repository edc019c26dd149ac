------------------------------ MODULE Recovery ------------------------------
(***************************************************************************)
(* POST /recovery/feedback.  A report of how a playbook fared updates the  *)
(* bandit and the reliability scorer of the worker that serves it, writes  *)
(* two rows to Postgres in two transactions, and is appended to the        *)
(* worker's _recovery_log.  Nothing undoes the first steps when a later    *)
(* one fails, the bandit lives in the process, and a client sends again    *)
(* what was not acknowledged.                                              *)
(***************************************************************************)
EXTENDS Integers, Sequences, FiniteSetsExt, Functions

CONSTANTS
    Reports,     \* reports a client must deliver
    Workers,     \* API worker processes
    Playbooks,   \* playbook names
    Modes,       \* failure modes, as they key q_values in select()
    Keys,        \* what _to_signature_key makes of the session ids
    PlaybookOf,  \* Reports -> Playbooks
    RewardOf,    \* Reports -> {0, 1, 2}: failure, partial, success
    ModeOf,      \* Reports -> Modes: the failure of the report's session
    KeyOf,       \* Reports -> Keys: its session id up to the last "_"
    Library,     \* Modes -> Seq(Playbooks): matching_playbooks
    Scale,       \* q values are in units of 1 / Scale
    MaxSends,    \* bound: deliveries of one report
    MaxFaults,   \* bound: crashes and outages
    None         \* no report, no worker

ASSUME RecoveryAssumption ==
    /\ PlaybookOf \in [Reports -> Playbooks]
    /\ RewardOf \in [Reports -> {0, 1, 2}]
    /\ ModeOf \in [Reports -> Modes]
    /\ KeyOf \in [Reports -> Keys]
    /\ Library \in [Modes -> Seq(Playbooks)]
    /\ Scale \in Nat \ {0}
    /\ MaxSends \in Nat
    /\ MaxFaults \in Nat
    /\ None \notin Reports \cup Workers

(* The unit is small enough for every mean of as many rewards as can be    *)
(* learned, and for every step on the way to it; the code has floats.      *)
ASSUME ExactScale ==
    /\ IsFiniteSet(Reports)
    /\ \E d \in 1..Scale : Scale = 2 * d
    /\ \A n \in 2..(MaxSends * Cardinality(Reports)) :
         \E d \in 1..Scale : Scale = 2 * (n * (n - 1)) * d

VARIABLES
    status,     \* what the client knows of each report
    sends,      \* deliveries of each report
    at,         \* the worker whose answer the client awaits, or None
    arrived,    \* arrived[w]: reports whose requests wait at w
    running,    \* the report whose handler owns w's loop, or None
    step,       \* the handler's program counter
    mode,       \* down, or up with _db set (postgres) or not (memory)
    dbUp,       \* Postgres answers
    faults,     \* faults left
    counts,     \* counts[w][k][p]: the bandit's _counts
    q,          \* q[w][k][p]: the bandit's _q_values
    logged,     \* logged[w][r]: entries of _recovery_log for r
    learned,    \* history: updates of w's bandit with r since w started
    outcomes,   \* rows of table recovery_logs for r
    snapshots   \* rows of table reliability_scores for r

client == <<status, sends, at>>
handler == <<running, step>>
memory == <<counts, q, logged, learned>>
tables == <<outcomes, snapshots>>
vars == <<client, arrived, handler, mode, dbUp, faults, memory, tables>>

Zero == [k \in Keys \cup Modes |-> [p \in Playbooks |-> 0]]
NoReports == [r \in Reports |-> 0]

Init ==
    /\ status = [r \in Reports |-> "ready"]
    /\ sends = NoReports
    /\ at = [r \in Reports |-> None]
    /\ arrived = [w \in Workers |-> {}]
    /\ running = [w \in Workers |-> None]
    /\ step = [w \in Workers |-> "idle"]
    /\ mode = [w \in Workers |-> "down"]
    /\ dbUp \in BOOLEAN
    /\ faults = MaxFaults
    /\ counts = [w \in Workers |-> Zero]
    /\ q = [w \in Workers |-> Zero]
    /\ logged = [w \in Workers |-> NoReports]
    /\ learned = [w \in Workers |-> NoReports]
    /\ outcomes = NoReports
    /\ snapshots = NoReports

-----------------------------------------------------------------------------
(* The client. *)

Send(w, r) ==
    /\ status[r] = "ready"
    /\ sends[r] < MaxSends
    /\ mode[w] # "down"
    /\ r \notin arrived[w]
    /\ running[w] # r
    /\ status' = [status EXCEPT ![r] = "waiting"]
    /\ sends' = [sends EXCEPT ![r] = @ + 1]
    /\ at' = [at EXCEPT ![r] = w]
    /\ arrived' = [arrived EXCEPT ![w] = @ \cup {r}]
    /\ UNCHANGED <<handler, mode, dbUp, faults, memory, tables>>

(* The connection breaks; the worker goes on.                              *)
Disconnect(r) ==
    /\ status[r] = "waiting"
    /\ status' = [status EXCEPT ![r] = "ready"]
    /\ at' = [at EXCEPT ![r] = None]
    /\ UNCHANGED <<sends, arrived, handler, mode, dbUp, faults, memory, tables>>

(* Every failure makes the client send again; a 200 ends the delivery.     *)
Answer(w, r, code) ==
    IF at[r] = w
    THEN /\ at' = [at EXCEPT ![r] = None]
         /\ status' = [status EXCEPT ![r] =
              IF code # 200 THEN "ready"
              ELSE IF mode[w] = "postgres" THEN "acked" ELSE "acked_unstored"]
    ELSE UNCHANGED <<status, at>>

-----------------------------------------------------------------------------
(* The worker. *)

(* The key check and the rate limit turn the request away: 401, 403, 429,  *)
(* or 503 when Postgres does not answer.                                   *)
Reject(w, r) ==
    /\ r \in arrived[w]
    /\ running[w] = None
    /\ arrived' = [arrived EXCEPT ![w] = @ \ {r}]
    /\ Answer(w, r, IF dbUp THEN 429 ELSE 503)
    /\ UNCHANGED <<sends, handler, mode, dbUp, faults, memory, tables>>

(* They let it in. *)
Accept(w, r) ==
    /\ r \in arrived[w]
    /\ running[w] = None
    /\ dbUp
    /\ arrived' = [arrived EXCEPT ![w] = @ \ {r}]
    /\ running' = [running EXCEPT ![w] = r]
    /\ step' = [step EXCEPT ![w] = "learn"]
    /\ UNCHANGED <<client, mode, dbUp, faults, memory, tables>>

Goto(w, s) ==
    /\ step' = [step EXCEPT ![w] = s]
    /\ UNCHANGED <<running, status, at>>

(* Mutant: the handler answers and runs on. *)
Finish_RunsOn(w, code) ==
    /\ running' = [running EXCEPT ![w] = None]
    /\ UNCHANGED step
    /\ Answer(w, running[w], code)

Finish(w, code) ==
    /\ running' = [running EXCEPT ![w] = None]
    /\ step' = [step EXCEPT ![w] = "idle"]
    /\ Answer(w, running[w], code)

(* Mutant: the step size is one over the trials before this one. *)
Mean_Late(old, reward, n) == old + (reward - old) \div (IF n > 1 THEN n - 1 ELSE 1)

(* The incremental mean of n rewards, from that of the first n - 1. *)
Mean(old, reward, n) == old + (reward - old) \div n

(* ContextualBanditSelector.update and ReliabilityScorer.record_session,   *)
(* which is appended to in the same breath and needs no state of its own.  *)
Learn(w) ==
    LET r == running[w]
        k == KeyOf[r]
        p == PlaybookOf[r]
        n == counts[w][k][p] + 1
    IN  /\ step[w] = "learn"
        /\ counts' = [counts EXCEPT ![w][k][p] = n]
        /\ q' = [q EXCEPT ![w][k][p] = Mean(@, (RewardOf[r] * Scale) \div 2, n)]
        /\ learned' = [learned EXCEPT ![w][r] = @ + 1]
        /\ Goto(w, IF mode[w] = "postgres" THEN "outcome" ELSE "log")
        /\ UNCHANGED <<sends, arrived, mode, dbUp, faults, logged, tables>>

(* Mutant: an exception of save_recovery_outcome is swallowed. *)
SaveOutcome_Swallows(w) ==
    LET r == running[w] IN
    /\ step[w] = "outcome"
    /\ IF ~dbUp
       THEN Goto(w, "snapshot") /\ UNCHANGED outcomes
       ELSE /\ outcomes' = [outcomes EXCEPT ![r] = @ + 1]
            /\ Goto(w, "snapshot") \/ Finish(w, 500)
    /\ UNCHANGED <<sends, arrived, mode, dbUp, faults, memory, snapshots>>

(* save_recovery_outcome; a reply lost after the commit raises too.        *)
SaveOutcome(w) ==
    LET r == running[w] IN
    /\ step[w] = "outcome"
    /\ IF ~dbUp
       THEN Finish(w, 500) /\ UNCHANGED outcomes
       ELSE /\ outcomes' = [outcomes EXCEPT ![r] = @ + 1]
            /\ Goto(w, "snapshot") \/ Finish(w, 500)
    /\ UNCHANGED <<sends, arrived, mode, dbUp, faults, memory, snapshots>>

(* Mutant: the second row is best effort. *)
SaveSnapshot_BestEffort(w) ==
    LET r == running[w] IN
    /\ step[w] = "snapshot"
    /\ snapshots' = IF dbUp THEN [snapshots EXCEPT ![r] = @ + 1] ELSE snapshots
    /\ Goto(w, "log")
    /\ UNCHANGED <<sends, arrived, mode, dbUp, faults, memory, outcomes>>

(* save_reliability_score of the agent's current score.                    *)
SaveSnapshot(w) ==
    LET r == running[w] IN
    /\ step[w] = "snapshot"
    /\ IF ~dbUp
       THEN Finish(w, 500) /\ UNCHANGED snapshots
       ELSE /\ snapshots' = [snapshots EXCEPT ![r] = @ + 1]
            /\ Goto(w, "log") \/ Finish(w, 500)
    /\ UNCHANGED <<sends, arrived, mode, dbUp, faults, memory, outcomes>>

(* _recovery_log.append and the 200.                                       *)
Log(w) ==
    /\ step[w] = "log"
    /\ logged' = [logged EXCEPT ![w][running[w]] = @ + 1]
    /\ Finish(w, 200)
    /\ UNCHANGED <<sends, arrived, mode, dbUp, faults, counts, q, learned, tables>>

-----------------------------------------------------------------------------
(* Faults. *)

(* lifespan; init_db may fail although Postgres answers.                   *)
Boot(w) ==
    /\ mode[w] = "down"
    /\ \E m \in IF dbUp THEN {"postgres", "memory"} ELSE {"memory"} :
         mode' = [mode EXCEPT ![w] = m]
    /\ UNCHANGED <<client, arrived, handler, dbUp, faults, memory, tables>>

(* The process dies with its requests and everything it learned.           *)
Crash(w) ==
    /\ faults > 0
    /\ mode[w] # "down"
    /\ faults' = faults - 1
    /\ mode' = [mode EXCEPT ![w] = "down"]
    /\ arrived' = [arrived EXCEPT ![w] = {}]
    /\ running' = [running EXCEPT ![w] = None]
    /\ step' = [step EXCEPT ![w] = "idle"]
    /\ counts' = [counts EXCEPT ![w] = Zero]
    /\ q' = [q EXCEPT ![w] = Zero]
    /\ logged' = [logged EXCEPT ![w] = NoReports]
    /\ learned' = [learned EXCEPT ![w] = NoReports]
    /\ status' = [r \in Reports |-> IF at[r] = w THEN "ready" ELSE status[r]]
    /\ at' = [r \in Reports |-> IF at[r] = w THEN None ELSE at[r]]
    /\ UNCHANGED <<sends, dbUp, tables>>

PostgresFails ==
    /\ faults > 0
    /\ dbUp
    /\ faults' = faults - 1
    /\ dbUp' = FALSE
    /\ UNCHANGED <<client, arrived, handler, mode, memory, tables>>

PostgresReturns ==
    /\ ~dbUp
    /\ dbUp' = TRUE
    /\ UNCHANGED <<client, arrived, handler, mode, faults, memory, tables>>

-----------------------------------------------------------------------------
Next ==
    \/ \E w \in Workers, r \in Reports : Send(w, r) \/ Reject(w, r) \/ Accept(w, r)
    \/ \E r \in Reports : Disconnect(r)
    \/ \E w \in Workers :
         \/ Learn(w) \/ SaveOutcome(w) \/ SaveSnapshot(w) \/ Log(w)
         \/ Boot(w) \/ Crash(w)
    \/ PostgresFails
    \/ PostgresReturns

Spec == Init /\ [][Next]_vars

-----------------------------------------------------------------------------
(* Mutant: the loop over the candidates ends after the first. *)
Pick_First(w, m) == Library[m][1]

(* The greedy branch of select(): a strict ">" keeps the first of equals.  *)
Pick(w, m) ==
    LET candidates == Library[m]
        score(i) == q[w][m][candidates[i]]
        best == CHOOSE i \in DOMAIN candidates :
                  \A j \in DOMAIN candidates \ {i} :
                      score(j) < score(i) \/ (score(j) = score(i) /\ i < j)
    IN  candidates[best]

Rewards(w) == [r \in Reports |-> learned[w][r] * RewardOf[r]]
Trials(w, S) == SumFunctionOnSet(learned[w], S)
Gained(w, S) == SumFunctionOnSet(Rewards(w), S)

(* Every variable stays in its range.                                      *)
TypeOK ==
    /\ status \in [Reports -> {"ready", "waiting", "acked", "acked_unstored"}]
    /\ sends \in [Reports -> 0..MaxSends]
    /\ at \in [Reports -> Workers \cup {None}]
    /\ arrived \in [Workers -> SUBSET Reports]
    /\ running \in [Workers -> Reports \cup {None}]
    /\ step \in [Workers -> {"idle", "learn", "outcome", "snapshot", "log"}]
    /\ mode \in [Workers -> {"down", "memory", "postgres"}]
    /\ dbUp \in BOOLEAN
    /\ faults \in 0..MaxFaults
    /\ counts \in [Workers -> [Keys \cup Modes -> [Playbooks -> Nat]]]
    /\ q \in [Workers -> [Keys \cup Modes -> [Playbooks -> 0..Scale]]]
    /\ logged \in [Workers -> [Reports -> Nat]]
    /\ learned \in [Workers -> [Reports -> Nat]]
    /\ outcomes \in [Reports -> Nat]
    /\ snapshots \in [Reports -> Nat]
    /\ \A w \in Workers : running[w] = None <=> step[w] = "idle"

(* The incremental update computes the mean of the rewards the process has *)
(* learned for a key and a playbook, in whatever order reports, retries    *)
(* and other keys come in (bandit.py 49-58).                               *)
QIsMean ==
    \A w \in Workers, k \in Keys, p \in Playbooks :
        LET S == {r \in Reports : KeyOf[r] = k /\ PlaybookOf[r] = p} IN
        /\ counts[w][k][p] = Trials(w, S)
        /\ 2 * counts[w][k][p] * q[w][k][p] = Scale * Gained(w, S)

(* An acknowledged report has both of its rows, whatever failed on the way *)
(* (api.py 478-484).                                                       *)
AckedReportIsStored ==
    \A r \in Reports : status[r] = "acked" => outcomes[r] > 0 /\ snapshots[r] > 0

(* A failure between the steps of the handler leaves a prefix of them: a   *)
(* snapshot never exists without its outcome, a log entry never without    *)
(* the update of the bandit, and no step runs twice in one delivery        *)
(* (api.py 470-492).                                                       *)
EffectsArePrefixes ==
    \A r \in Reports :
        /\ snapshots[r] <= outcomes[r]
        /\ outcomes[r] <= sends[r]
        /\ \A w \in Workers :
             logged[w][r] <= learned[w][r] /\ learned[w][r] <= sends[r]

(* What a report teaches is filed under a part of its session id           *)
(* (bandit.py 62), what is chosen is read under the name of the failure    *)
(* mode (31, 42): of the playbooks of a mode, the greedy choice has the    *)
(* best mean reward over the reports that were filed under that name,      *)
(* whichever they are, through retries of reports and restarts of the      *)
(* process.                                                                *)
GreedyFollowsItsKey ==
    \A w \in Workers, m \in Modes :
        LET S(p) == {r \in Reports : KeyOf[r] = m /\ PlaybookOf[r] = p}
            best == S(Pick(w, m))
        IN  \A i \in DOMAIN Library[m] :
              LET other == S(Library[m][i]) IN
              Trials(w, best) > 0 /\ Trials(w, other) > 0 =>
                  Gained(w, best) * Trials(w, other)
                    >= Gained(w, other) * Trials(w, best)

(* README.md 3, "learns which recovery strategy works per failure          *)
(* signature": among the playbooks of a failure mode, the greedy choice    *)
(* has the best mean reward over the sessions that failed in that mode.    *)
GreedyFollowsEvidence ==
    \A w \in Workers, m \in Modes :
        LET S(p) == {r \in Reports : ModeOf[r] = m /\ PlaybookOf[r] = p}
            best == S(Pick(w, m))
        IN  \A i \in DOMAIN Library[m] :
              LET other == S(Library[m][i]) IN
              Trials(w, best) > 0 /\ Trials(w, other) > 0 =>
                  Gained(w, best) * Trials(w, other)
                    >= Gained(w, other) * Trials(w, best)
=============================================================================
