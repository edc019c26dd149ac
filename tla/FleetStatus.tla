----------------------------- MODULE FleetStatus -----------------------------
(***************************************************************************)
(* How reliable each agent is said to be.  Ingestion writes one score per  *)
(* stored graph, after the session and in a transaction of its own (it is  *)
(* the abstract SessionStore that writes here, which Ingest implements).   *)
(* Feedback about a playbook goes through the ReliabilityScorer of the     *)
(* process, which forgets when the process ends, and writes its current    *)
(* average as another score.  GET /agents/status reads the scores, then    *)
(* counts the sessions, and weighs what it read.  Scores are percents.     *)
(***************************************************************************)
EXTENDS Integers, Sequences, FiniteSetsExt, SequencesExt

CONSTANTS
    Traces, Graphs, TraceOf, NoAttribution, NoSession,  \* see SessionStore
    Agents,      \* agent ids
    AgentOf,     \* Graphs -> Agents: as saved with session and score
    Failed,      \* the graphs with an error-flagged step
    Playbooks,   \* playbook names
    Outcomes,    \* scores of single outcomes: 100, 50 (partial) or 0
    Window,      \* agents_status_window
    ScorerWindow,\* window_size of the scorer
    Weights,     \* n -> the n weights exp(linspace(0, 2, n)), scaled
    Degraded,    \* reliability_health_degraded, in percent
    Critical,    \* reliability_health_critical, in percent
    MaxLag,      \* bound: rows that a commit may be late
    MaxRows,     \* bound: rows of reliability_scores
    MaxFeedback, \* bound: reports a process is given
    NoTrace,     \* a score that does not come from a graph
    Idle         \* no request

ASSUME FleetAssumption ==
    /\ IsFiniteSet(Traces)
    /\ TraceOf \in [Graphs -> Traces]
    /\ AgentOf \in [Graphs -> Agents]
    /\ Failed \subseteq Graphs
    /\ {Window, ScorerWindow} \subseteq Nat \ {0}
    /\ Outcomes \subseteq {0, 50, 100}
    /\ {Degraded, Critical, MaxLag, MaxRows, MaxFeedback} \subseteq Nat

(* With one score more the exponents 2(i-1)/(n-1) of exp(linspace(0, 2, n)) *)
(* become 2(i-1)/n: those of the weights of n scores lie between them.     *)
ASSUME WeightsInterlace ==
    /\ Weights \in Seq(Seq(Nat \ {0}))
    /\ \A n \in 1..Len(Weights) : Len(Weights[n]) = n
    /\ ScorerWindow <= Len(Weights)
    /\ \A n \in 1..(Len(Weights) - 1) : \A i \in 1..n :
         /\ Weights[n + 1][i] <= Weights[n][i]
         /\ Weights[n][i] <= Weights[n + 1][i + 1]

VARIABLES
    sessions,  \* table sessions, see SessionStore
    scores,    \* scores written for each graph, see SessionStore
    rows,      \* table reliability_scores; ids are in the order of commits
    tracked,   \* _sessions of the scorer: outcomes per agent
    picked     \* the scores a request to /agents/status has read, or Idle

vars == <<sessions, scores, rows, tracked, picked>>

Store == INSTANCE SessionStore WITH sessions <- sessions, scores <- scores

Init ==
    /\ Store!Init
    /\ rows = {}
    /\ tracked = [a \in Agents |-> <<>>]
    /\ picked = Idle

-----------------------------------------------------------------------------
(* Weighted averages. *)

Total(s) ==
    LET sum[i \in 0..Len(s)] == IF i = 0 THEN 0 ELSE sum[i - 1] + s[i]
    IN  sum[Len(s)]

(* Mutant: the weights fall with time. *)
Weight_Falling(n) == Reverse(Weights[n])

(* np.exp(np.linspace(0, 2, n)): the last score weighs most. *)
Weight(n) == Weights[n]

WeightedSum(s) == Total([i \in DOMAIN s |-> s[i] * Weight(Len(s))[i]])
WeightSum(s) == Total(Weight(Len(s)))

(* The last n of s. *)
LastN(s, n) == SubSeq(s, 1 + (IF Len(s) > n THEN Len(s) - n ELSE 0), Len(s))

(* _exponential_weighted_average, rounded down to a percent. *)
CurrentScore(outcomes) ==
    LET recent == LastN([i \in DOMAIN outcomes |-> outcomes[i].score], ScorerWindow)
    IN  IF recent = <<>> THEN 0 ELSE WeightedSum(recent) \div WeightSum(recent)

Health(s) ==
    IF s = <<>> THEN "unknown"
    ELSE IF WeightedSum(s) >= Degraded * WeightSum(s) THEN "healthy"
    ELSE IF WeightedSum(s) >= Critical * WeightSum(s) THEN "degraded"
    ELSE "critical"

Halves(s) ==
    LET mid == Len(s) \div 2
    IN  [first |-> SubSeq(s, 1, mid), second |-> SubSeq(s, mid + 1, Len(s))]

(* Mutant: the sums of the halves are compared, not the means. *)
Trend_Sums(s) ==
    LET gain == Total(Halves(s).second) - Total(Halves(s).first)
    IN  IF Len(s) < 2 THEN "flat"
        ELSE IF gain > 1 THEN "up" ELSE IF gain < -1 THEN "down" ELSE "flat"

(* The mean of the second half against that of the first, by more than a   *)
(* percent; multiplied by the lengths of both.                             *)
Trend(s) ==
    LET first == Halves(s).first
        second == Halves(s).second
        scale == Len(first) * Len(second)
        gain == Total(second) * Len(first) - Total(first) * Len(second)
    IN  IF gain > scale THEN "up" ELSE IF gain < -scale THEN "down" ELSE "flat"

(* Mutant: the first use of the playbook itself still counts as before. *)
BeforeAfter_Late(outcomes, p) ==
    LET walk[i \in 0..Len(outcomes)] ==
          IF i = 0 THEN [before |-> <<>>, after |-> <<>>, seen |-> FALSE]
          ELSE LET o == outcomes[i]
                   last == walk[i - 1]
               IN  [before |-> IF last.seen THEN last.before ELSE Append(last.before, o.score),
                    after |-> IF last.seen THEN Append(last.after, o.score) ELSE last.after,
                    seen |-> last.seen \/ o.playbook = p]
    IN  walk[Len(outcomes)]

(* reliability_trend: a walk over the outcomes with the flag seen_playbook. *)
BeforeAfter(outcomes, p) ==
    LET walk[i \in 0..Len(outcomes)] ==
          IF i = 0 THEN [before |-> <<>>, after |-> <<>>, seen |-> FALSE]
          ELSE LET o == outcomes[i]
                   last == walk[i - 1]
                   seen == last.seen \/ o.playbook = p
               IN  [before |-> IF seen THEN last.before ELSE Append(last.before, o.score),
                    after |-> IF seen THEN Append(last.after, o.score) ELSE last.after,
                    seen |-> seen]
    IN  walk[Len(outcomes)]

-----------------------------------------------------------------------------
(* Writers. *)

(* created_at is taken before the commit: it may repeat or be older than   *)
(* that of rows committed before.                                          *)
AddRow(a, score, trace) ==
    LET id == Cardinality(rows) + 1 IN
    /\ id <= MaxRows
    /\ \E lag \in 0..MaxLag :
         rows' = rows \cup {[id |-> id, agent |-> a, score |-> score,
                             created |-> id - lag, trace |-> trace]}

(* save_session *)
SaveSession(g) ==
    /\ Store!Save(g)
    /\ UNCHANGED <<rows, tracked, picked>>

(* Mutant: the score is written before the session. *)
RecordAtIngest_First(g) ==
    /\ AddRow(AgentOf[g], IF g \in Failed THEN 0 ELSE 100, TraceOf[g])
    /\ scores' = [scores EXCEPT ![g] = @ + 1]
    /\ UNCHANGED <<sessions, tracked, picked>>

(* _record_reliability_at_ingest: any flagged step makes a failure. *)
RecordAtIngest(g) ==
    /\ Store!RecordScore(g)
    /\ AddRow(AgentOf[g], IF g \in Failed THEN 0 ELSE 100, TraceOf[g])
    /\ UNCHANGED <<tracked, picked>>

(* record_from_outcome, then save_reliability_score of the new average;    *)
(* the row is missing when Postgres fails in between (see Recovery).       *)
Feedback(a, p, outcome) ==
    LET outcomes == Append(tracked[a], [score |-> outcome, playbook |-> p]) IN
    /\ Len(tracked[a]) < MaxFeedback
    /\ tracked' = [tracked EXCEPT ![a] = outcomes]
    /\ UNCHANGED rows \/ AddRow(a, CurrentScore(outcomes), NoTrace)
    /\ UNCHANGED <<sessions, scores, picked>>

Restart ==
    /\ tracked' = [a \in Agents |-> <<>>]
    /\ UNCHANGED <<sessions, scores, rows, picked>>

-----------------------------------------------------------------------------
(* The reader. *)

(* The last n of S in the order of time; the database may return rows of   *)
(* one time in any order.                                                  *)
Histories(S, n) ==
    {LastN(s, n) : s \in {q \in SetToSeqs(S) :
        \A i, j \in DOMAIN q : i < j => q[i].created <= q[j].created}}

(* Mutant: the first scores of an agent are kept, not the last ones. *)
Picks_Oldest(a) ==
    LET oldest(s) == SubSeq(s, 1, IF Len(s) > Window THEN Window ELSE Len(s))
    IN  {oldest(s) : s \in Histories({r \in rows : r.agent = a}, Cardinality(rows))}

(* ORDER BY agent_id, created_at DESC, the first Window of each agent,     *)
(* reversed in the end.                                                    *)
Picks(a) == Histories({r \in rows : r.agent = a}, Window)

ReadScores ==
    /\ picked = Idle
    /\ picked' \in {f \in [Agents -> UNION {Picks(a) : a \in Agents}] :
                      \A a \in Agents : f[a] \in Picks(a)}
    /\ UNCHANGED <<sessions, scores, rows, tracked>>

(* n_sessions: GROUP BY agent_id over the sessions. *)
SessionCount(a) ==
    Cardinality({t \in Traces : /\ sessions[t] # NoSession
                                /\ AgentOf[sessions[t].graph] = a})

(* The count is a statement of its own; then the answer is made. *)
CountAndAnswer ==
    /\ picked # Idle
    /\ picked' = Idle
    /\ UNCHANGED <<sessions, scores, rows, tracked>>

Next ==
    \/ \E g \in Graphs : SaveSession(g) \/ RecordAtIngest(g)
    \/ \E a \in Agents, p \in Playbooks, o \in Outcomes : Feedback(a, p, o)
    \/ Restart
    \/ ReadScores
    \/ CountAndAnswer

Spec == Init /\ [][Next]_vars

-----------------------------------------------------------------------------
Row == [id : 1..MaxRows, agent : Agents, score : 0..100, created : Int,
        trace : Traces \cup {NoTrace}]

SessionRow == [graph : Graphs, attribution : Graphs \cup {NoAttribution}]

Tracked == [score : Outcomes, playbook : Playbooks]

(* Every score written is a percent, however many outcomes it averages     *)
(* (scorer.py 77-84), and no more of them than the window are read.      *)
TypeOK ==
    /\ sessions \in [Traces -> {NoSession} \cup SessionRow]
    /\ scores \in [Graphs -> Nat]
    /\ rows \subseteq Row
    /\ tracked \in [Agents -> Seq(Tracked)]
    /\ \A a \in Agents : Len(tracked[a]) <= MaxFeedback
    /\ picked # Idle =>
         /\ picked \in [Agents -> Seq(Row)]
         /\ \A a \in Agents : Len(picked[a]) <= Window

Scores(h) == [i \in DOMAIN h |-> h[i].score]

(* Agents whose traces are theirs alone: a trace posted under two agents   *)
(* has its session with the one and a score with each.                     *)
Consistent(a) ==
    \A g, h \in Graphs : TraceOf[g] = TraceOf[h] /\ AgentOf[g] = a => AgentOf[h] = a

(* No agent is shown with the scores of more sessions than it is said to   *)
(* have, although sessions, scores and the two statements of the reader    *)
(* come in any order and redelivery repeats scores (repository.py 304-321, *)
(* api.py 174-185).  Scores from feedback name no trace and do not count.  *)
ScoredSessionsAreCounted ==
    picked # Idle =>
        \A a \in Agents : Consistent(a) =>
            LET scored == {picked[a][i].trace : i \in DOMAIN picked[a]} \ {NoTrace}
            IN  Cardinality(scored) <= SessionCount(a)

(* h is the end of agent a's scores in the order of time. *)
ShowsLatest(a, h) ==
    LET own == {r \in rows : r.agent = a}
        shown == {h[i] : i \in DOMAIN h}
    IN  /\ Cardinality(shown) = Min({Window, Cardinality(own)})
        /\ shown \subseteq own
        /\ \A r \in own \ shown, s \in shown : r.created <= s.created
        /\ \A i, j \in DOMAIN h : i < j => h[i].created <= h[j].created

(* What is shown is the end of the agent's history, in its order: no score *)
(* that was there is left out for an older one (repository.py 304-323).    *)
HistoryIsLatest ==
    [][ReadScores => \A a \in Agents : ShowsLatest(a, picked'[a])]_vars

(* Before a playbook is what precedes its first use, after is the rest     *)
(* (scorer.py 86-99).                                                      *)
TrendSplitsAtFirstUse ==
    \A a \in Agents, p \in Playbooks :
        LET outcomes == tracked[a]
            uses == {i \in DOMAIN outcomes : outcomes[i].playbook = p}
            first == IF uses = {} THEN Len(outcomes) + 1 ELSE Min(uses)
            split == BeforeAfter(outcomes, p)
        IN  /\ split.before = Scores(SubSeq(outcomes, 1, first - 1))
            /\ split.after = Scores(SubSeq(outcomes, first, Len(outcomes)))

Rank(health) == CASE health = "critical" -> 0 [] health = "degraded" -> 1 [] health = "healthy" -> 2

(* The number of scores averaged grows, then the window slides, and the    *)
(* weights change with it; still, however the history of the agents goes   *)
(* on from an empty table, one more failure never lifts an agent's score   *)
(* or its health, and one more success never lowers them (api.py 364-381). *)
NewestScoreMovesTheRightWay ==
    LET lower(g, h) ==
          /\ WeightedSum(g) * WeightSum(h) <= WeightedSum(h) * WeightSum(g)
          /\ Rank(Health(g)) <= Rank(Health(h))
    IN  rows = {} /\ picked # Idle =>
          \A window \in DOMAIN Weights : \A n \in 1..window :
            \A h \in [1..n -> {0, 50, 100}] :
              LET old == LastN(h, window)
              IN  /\ lower(LastN(Append(h, 0), window), old)
                  /\ lower(old, LastN(Append(h, 100), window))

(* From an empty table again, a history that never falls is never shown    *)
(* with a falling trend, nor one that never rises with a rising one, odd   *)
(* lengths included (api.py 369-374).                                      *)
TrendFollowsHistory ==
    rows = {} /\ picked # Idle =>
      \A n \in DOMAIN Weights : \A h \in [1..n -> {0, 50, 100}] :
        /\ (\A i \in 2..n : h[i - 1] <= h[i]) => Trend(h) # "down"
        /\ (\A i \in 2..n : h[i - 1] >= h[i]) => Trend(h) # "up"
=============================================================================
