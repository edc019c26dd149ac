---------------------------- MODULE Attribution ----------------------------
(***************************************************************************)
(* AttributionEngine.attribute: the classifier and the oracle are LLM      *)
(* calls whose answers are arbitrary, malformed or missing, so a run is a  *)
(* state machine over them.  chat_json tries each question three times,    *)
(* the plain chat that synthesizes the corrected output once.  Below both, *)
(* the SDK sends the request of one attempt up to three times by itself.   *)
(*                                                                         *)
(* A node is its position in the graph's insertion order.  Its step index  *)
(* may be set by the producer, so indexes repeat and need not follow the   *)
(* positions; sorted() is stable.                                          *)
(***************************************************************************)
EXTENDS Integers, FiniteSets

CONSTANTS
    MaxNodes,     \* bound: nodes of a graph
    MaxIndex,     \* bound: explicit step indexes
    Subtasks,     \* subtask ids
    Default,      \* the key "default", under which None is grouped
    NoSubtask,    \* subtask_id is None
    Confidences,  \* values of confidence_pct in the oracle's answers
    Sends,        \* bound: how many requests one attempt may take
    NoNode,       \* cause_node is None
    NoScore       \* the score is not computed yet

(* chat_json: range(3). *)
Attempts == 3

(* max_retries=2: the requests the SDK may send for one attempt, when the  *)
(* connection fails, the provider is slow, or it answers with 429 or 5xx.  *)
Requests == 3

ASSUME AttributionAssumption ==
    /\ MaxNodes \in Nat
    /\ MaxIndex \in Nat \ {0}
    /\ NoSubtask \notin Subtasks \cup {Default}
    /\ Confidences \subseteq Int
    /\ Sends \subseteq 1..Requests
    /\ NoNode \notin Nat
    /\ NoScore \notin Int

VARIABLES
    graph,    \* the graph under attribution
    pc,       \* the question asked next, or done, or failed (an exception)
    attempt,  \* malformed answers to the current question
    verdict,  \* the oracle on each subtask key
    judged,   \* the oracle on each node
    cause,    \* cause_node
    crs,      \* causal_responsibility_score, in percent
    calls     \* requests sent to the provider, those of the SDK included

engine == <<graph, pc, attempt, verdict, judged, cause, crs, calls>>

Keys == Subtasks \cup {Default}
Verdicts == {"correct", "content", "environment"}
Questions == {"classify", "subtasks", "nodes", "synthesize", "screen"}

Graphs == UNION {[subtask : [1..n -> Subtasks \cup {NoSubtask}],
                  flagged : [1..n -> BOOLEAN],
                  index : [1..n -> 0..MaxIndex]] : n \in 0..MaxNodes}

Nodes == DOMAIN graph.subtask

(* The engine before its first question. *)
EngineStart ==
    /\ pc = "classify"
    /\ attempt = 0
    /\ verdict = [s \in Keys |-> "unjudged"]
    /\ judged = [n \in Nodes |-> "unjudged"]
    /\ cause = NoNode
    /\ crs = NoScore
    /\ calls = 0

EngineInit == graph \in Graphs /\ EngineStart

-----------------------------------------------------------------------------
(* sorted(..., key=step_index) is stable. *)
Before(m, n) ==
    \/ graph.index[m] < graph.index[n]
    \/ graph.index[m] = graph.index[n] /\ m < n

First(S) == CHOOSE n \in S : \A m \in S \ {n} : Before(n, m)

(* reversed_nodes[0]: reverse=True keeps the order of equal indexes.       *)
LastStep ==
    CHOOSE n \in Nodes : \A m \in Nodes \ {n} :
        \/ graph.index[m] < graph.index[n]
        \/ graph.index[m] = graph.index[n] /\ n < m

(* decompose_into_subtasks: None is grouped under "default".               *)
Key(n) == IF graph.subtask[n] = NoSubtask THEN Default ELSE graph.subtask[n]

(* The subtasks come in the order of their first node.                     *)
Unjudged == {n \in Nodes : verdict[Key(n)] = "unjudged"}
NextKey == Key(CHOOSE n \in Unjudged : \A m \in Unjudged : n <= m)

(* The flagged nodes whose subtask_id got the verdict v: the test is on    *)
(* subtask_id itself, not on the key it was grouped under.                 *)
Candidates(vd, v) ==
    {n \in Nodes : /\ graph.flagged[n]
                   /\ graph.subtask[n] # NoSubtask
                   /\ vd[graph.subtask[n]] = v}

-----------------------------------------------------------------------------
(* One attempt: the request and the SDK's repetitions of it.               *)
Sent == \E k \in Sends : calls' = calls + k

Answered == attempt' = 0 /\ Sent

(* A well-formed answer to the classifier's question.  MastMode raises on  *)
(* a mode it does not know, and reversed_nodes[0] on a graph without nodes.*)
Classify ==
    /\ pc = "classify"
    /\ Answered
    /\ \E known \in BOOLEAN :
         pc' = IF known /\ Nodes # {} THEN "subtasks" ELSE "failed"
    /\ UNCHANGED <<graph, verdict, judged, cause, crs>>

(* Mutant: env_candidates[-1], by analogy with the last step. *)
JudgeSubtask_LastSymptom ==
    /\ pc = "subtasks"
    /\ Answered
    /\ \E v \in Verdicts :
         LET vd == [verdict EXCEPT ![NextKey] = v]
             left == {n \in Nodes : vd[Key(n)] = "unjudged"}
             env == Candidates(vd, "environment")
         IN  /\ verdict' = vd
             /\ IF left # {} THEN pc' = pc /\ UNCHANGED cause
                ELSE IF Candidates(vd, "content") # {}
                     THEN pc' = "nodes" /\ UNCHANGED cause
                ELSE /\ pc' = "synthesize"
                     /\ cause' \in IF env = {} THEN {LastStep}
                                   ELSE {n \in env : \A m \in env : ~Before(n, m)}
    /\ UNCHANGED <<graph, judged, crs>>

(* The oracle on the next subtask; after the last one, the candidates: the *)
(* flagged nodes of failed subtasks, else the first flagged node of an     *)
(* environmental one, else the last step.                                  *)
JudgeSubtask ==
    /\ pc = "subtasks"
    /\ Answered
    /\ \E v \in Verdicts :
         LET vd == [verdict EXCEPT ![NextKey] = v]
             left == {n \in Nodes : vd[Key(n)] = "unjudged"}
             env == Candidates(vd, "environment")
         IN  /\ verdict' = vd
             /\ IF left # {} THEN pc' = pc /\ UNCHANGED cause
                ELSE IF Candidates(vd, "content") # {}
                     THEN pc' = "nodes" /\ UNCHANGED cause
                ELSE /\ pc' = "synthesize"
                     /\ cause' = IF env # {} THEN First(env) ELSE LastStep
    /\ UNCHANGED <<graph, judged, crs>>

(* Mutant: an environmental verdict on a node ends the walk. *)
JudgeNode_StopsAtSymptom ==
    LET candidates == Candidates(verdict, "content")
        n == First({m \in candidates : judged[m] = "unjudged"})
    IN  /\ pc = "nodes"
        /\ Answered
        /\ \E v \in Verdicts :
             /\ judged' = [judged EXCEPT ![n] = v]
             /\ IF v # "correct" THEN pc' = "synthesize" /\ cause' = n
                ELSE IF \A m \in candidates : judged'[m] # "unjudged"
                THEN pc' = "synthesize" /\ cause' = First(candidates)
                ELSE UNCHANGED <<pc, cause>>
        /\ UNCHANGED <<graph, verdict, crs>>

(* The oracle on the next candidate: the first one at fault is the cause,  *)
(* and if none is, the first candidate.                                    *)
JudgeNode ==
    LET candidates == Candidates(verdict, "content")
        n == First({m \in candidates : judged[m] = "unjudged"})
    IN  /\ pc = "nodes"
        /\ Answered
        /\ \E v \in Verdicts :
             /\ judged' = [judged EXCEPT ![n] = v]
             /\ IF v = "content" THEN pc' = "synthesize" /\ cause' = n
                ELSE IF \A m \in candidates : judged'[m] # "unjudged"
                THEN pc' = "synthesize" /\ cause' = First(candidates)
                ELSE UNCHANGED <<pc, cause>>
        /\ UNCHANGED <<graph, verdict, crs>>

(* chat: an answer, or the SDK's exception after its repetitions.          *)
Synthesize ==
    /\ pc = "synthesize"
    /\ Answered
    /\ pc' \in {"screen", "failed"}
    /\ UNCHANGED <<graph, verdict, judged, cause, crs>>

(* Mutant: confidence_pct is taken as it is. *)
Clamp_Unbounded(c) == c

Clamp(c) == IF c < 0 THEN 0 ELSE IF c > 100 THEN 100 ELSE c

(* The counterfactual question: a confidence, or none and a yes or no.     *)
(* Then the evidence is worded, which raises when the confidence of the    *)
(* classifier, checked by nobody before, is not a number.                  *)
Screen ==
    /\ pc = "screen"
    /\ Answered
    /\ crs' \in {Clamp(c) : c \in Confidences} \cup {95, 15}
    /\ pc' \in {"done", "failed"}
    /\ UNCHANGED <<graph, verdict, judged, cause>>

(* Mutant: the loop around a question has no end. *)
Malformed_Loops ==
    /\ pc \in Questions \ {"synthesize"}
    /\ attempt' = (attempt + 1) % Attempts
    /\ UNCHANGED <<graph, pc, verdict, judged, cause, crs, calls>>

(* Mutant: failed attempts are not counted. *)
Malformed_Uncounted ==
    /\ pc \in Questions \ {"synthesize"}
    /\ Sent
    /\ calls <= Requests * (Attempts * (2 + 2 * MaxNodes) + 1)
    /\ UNCHANGED <<graph, pc, attempt, verdict, judged, cause, crs>>

(* chat_json: an exception or an answer that is not a JSON object.         *)
Malformed ==
    /\ pc \in Questions \ {"synthesize"}
    /\ Sent
    /\ IF attempt + 1 < Attempts
       THEN attempt' = attempt + 1 /\ UNCHANGED pc
       ELSE attempt' = 0 /\ pc' = "failed"
    /\ UNCHANGED <<graph, verdict, judged, cause, crs>>

EngineNext ==
    \/ Classify
    \/ JudgeSubtask
    \/ JudgeNode
    \/ Synthesize
    \/ Screen
    \/ Malformed

EngineSpec == EngineInit /\ [][EngineNext]_engine

(* The client's timeout ends every request, and the SDK's repetitions have *)
(* a bound.                                                                *)
EngineFairSpec == EngineSpec /\ WF_engine(EngineNext)

-----------------------------------------------------------------------------
(* Every variable stays in its range; the score is a percentage.           *)
EngineTypeOK ==
    /\ graph \in Graphs
    /\ pc \in Questions \cup {"done", "failed"}
    /\ attempt \in 0..(Attempts - 1)
    /\ verdict \in [Keys -> Verdicts \cup {"unjudged"}]
    /\ judged \in [Nodes -> Verdicts \cup {"unjudged"}]
    /\ cause \in Nodes \cup {NoNode}
    /\ crs \in 0..100 \cup {NoScore}
    /\ calls \in Nat

Chosen == pc \in {"synthesize", "screen", "done"}

(* "A downstream symptom is never chosen over its upstream cause": among   *)
(* the flagged nodes of failed subtasks the cause is the first that the    *)
(* oracle found at fault; only if it found none is it the first of them    *)
(* (engine.py 168-189).                                                    *)
CauseIsUpstream ==
    LET candidates == Candidates(verdict, "content")
        guilty == {n \in candidates : judged[n] = "content"}
    IN  Chosen /\ candidates # {} =>
            /\ cause \in IF guilty # {} THEN guilty ELSE candidates
            /\ \A n \in candidates : Before(n, cause) =>
                 guilty # {} /\ judged[n] \in {"correct", "environment"}

(* Environmental symptoms are attributed only when no flagged node belongs *)
(* to a subtask at fault, and then the earliest wins (engine.py 191-199).  *)
SymptomIsLastResort ==
    LET symptoms == Candidates(verdict, "environment")
    IN  Chosen /\ cause \in symptoms =>
            /\ Candidates(verdict, "content") = {}
            /\ \A n \in symptoms : ~Before(n, cause)

(* The event loop of the worker is blocked while attribution runs, so the  *)
(* number of requests to the provider must be bounded by the graph alone,  *)
(* whatever the provider answers: nine for each question, three attempts   *)
(* with two repetitions each, and three for the synthesis (llm.py 72, 95,  *)
(* engine.py 151, 177).                                                    *)
CallBudget ==
    LET flagged == {n \in Nodes : graph.flagged[n]}
        groups == {Key(n) : n \in Nodes}
    IN  calls <= Requests * (Attempts * (2 + Cardinality(groups) + Cardinality(flagged)) + 1)

(* Attribution ends, with a cause or with an exception.                    *)
AttributionEnds ==
    <>(pc = "failed" \/ (pc = "done" /\ cause \in Nodes /\ crs # NoScore))
=============================================================================
