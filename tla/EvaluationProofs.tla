--------------------------- MODULE EvaluationProofs ---------------------------
(***************************************************************************)
(* Theorems about the attribution engine (Attribution), for graphs of any  *)
(* size, with any indexes, subtasks and confidences, and then about the    *)
(* programs that evaluate it, for any benchmark.                           *)
(***************************************************************************)
EXTENDS Evaluation, FiniteSetTheorems, SequenceTheorems, WellFoundedInduction, TLAPS

(* The groups that the oracle has judged, and all of them.                 *)
Groups == {Key(n) : n \in Nodes}
JudgedGroups == {k \in Groups : verdict[k] # "unjudged"}
Flagged == {n \in Nodes : graph.flagged[n]}
JudgedNodes == {n \in Nodes : judged[n] # "unjudged"}

(* While groups are judged no node is, and one group at least is left.     *)
Decomposing ==
    /\ pc \in {"classify", "subtasks"} =>
         /\ cause = NoNode
         /\ \A n \in Nodes : judged[n] = "unjudged"
    /\ pc = "classify" => \A k \in Keys : verdict[k] = "unjudged"
    /\ pc = "subtasks" => Unjudged # {}

(* The walk over the candidates is at the first that is not judged, and    *)
(* none of those before was at fault.                                      *)
Walking ==
    LET candidates == Candidates(verdict, "content")
    IN  /\ pc = "nodes" =>
             /\ \E n \in candidates : judged[n] = "unjudged"
             /\ \A n \in candidates : judged[n] # "content"
             /\ \A m, n \in candidates :
                  judged[m] # "unjudged" /\ judged[n] = "unjudged" => Before(m, n)
        /\ pc \in {"nodes", "synthesize", "screen", "done"} =>
             \A n \in Nodes : judged[n] # "unjudged" => n \in candidates

(* Three attempts for every question asked so far, one for the synthesis,  *)
(* and three requests for every attempt.                                   *)
Spent ==
    LET base == 1 + Cardinality(Groups) + Cardinality(Flagged)
        asked == 1 + Cardinality(Groups) + Cardinality(JudgedNodes)
    IN  /\ pc = "classify" => calls <= Requests * attempt
        /\ pc = "subtasks" =>
             calls <= Requests * (Attempts * (1 + Cardinality(JudgedGroups)) + attempt)
        /\ pc = "nodes" => calls <= Requests * (Attempts * asked + attempt)
        /\ pc = "synthesize" => calls <= Requests * (Attempts * base)
        /\ pc = "screen" => calls <= Requests * (Attempts * base + 1 + attempt)

AttributionInv ==
    /\ EngineTypeOK
    /\ Decomposing
    /\ Walking
    /\ Spent
    /\ CauseIsUpstream
    /\ SymptomIsLastResort
    /\ CallBudget

-----------------------------------------------------------------------------
(* Nonempty sets of numbers have a least element. *)
LEMMA LeastNatural ==
    ASSUME NEW T \in SUBSET Nat, T # {}
    PROVE  \E x \in T : \A y \in T : x <= y
<1>1. PICK x \in T : \A y \in T : <<y, x>> \notin OpToRel(<, Nat)
  BY NatLessThanWellFounded, WFMin
<1>2. \A y \in T : ~(y < x)
  BY <1>1 DEF OpToRel
<1> QED BY <1>2

(* What a graph is. *)
LEMMA GraphType ==
    ASSUME graph \in Graphs
    PROVE  \E n \in 0..MaxNodes :
             /\ Nodes = 1..n
             /\ graph.subtask \in [1..n -> Subtasks \cup {NoSubtask}]
             /\ graph.flagged \in [1..n -> BOOLEAN]
             /\ graph.index \in [1..n -> 0..MaxIndex]
<1>1. PICK n \in 0..MaxNodes :
        graph \in [subtask : [1..n -> Subtasks \cup {NoSubtask}],
                   flagged : [1..n -> BOOLEAN],
                   index : [1..n -> 0..MaxIndex]]
  BY DEF Graphs
<1> QED BY <1>1 DEF Nodes

(* The attributes of a node of the graph.                                  *)
LEMMA NodeType ==
    ASSUME graph \in Graphs, NEW n \in Nodes
    PROVE  /\ n \in Nat
           /\ graph.index[n] \in 0..MaxIndex
           /\ graph.flagged[n] \in BOOLEAN
           /\ graph.subtask[n] # NoSubtask => graph.subtask[n] \in Subtasks
           /\ Key(n) \in Keys
<1>1. PICK k \in 0..MaxNodes :
             /\ Nodes = 1..k
             /\ graph.subtask \in [1..k -> Subtasks \cup {NoSubtask}]
             /\ graph.flagged \in [1..k -> BOOLEAN]
             /\ graph.index \in [1..k -> 0..MaxIndex]
  BY GraphType
<1>2. n \in 1..k
  BY <1>1
<1>3. n \in Nat /\ graph.index[n] \in 0..MaxIndex /\ graph.flagged[n] \in BOOLEAN
  BY <1>1, <1>2
<1>4. graph.subtask[n] \in Subtasks \cup {NoSubtask}
  BY <1>1, <1>2
<1> QED BY <1>3, <1>4 DEF Key, Keys

(* There are finitely many nodes to ask about.                             *)
LEMMA NodesFinite ==
    ASSUME graph \in Graphs
    PROVE  IsFiniteSet(Nodes) /\ Cardinality(Nodes) \in Nat
BY GraphType, FS_Interval, FS_CardinalityType, AttributionAssumption

(* Sorting by index, ties by position, is a strict total order.            *)
LEMMA BeforeIsOrder ==
    ASSUME graph \in Graphs
    PROVE  /\ \A m, n \in Nodes : m = n \/ Before(m, n) \/ Before(n, m)
           /\ \A m, n \in Nodes : ~(Before(m, n) /\ Before(n, m))
           /\ \A m \in Nodes : ~Before(m, m)
           /\ \A l, m, n \in Nodes : Before(l, m) /\ Before(m, n) => Before(l, n)
<1>1. MaxIndex \in Nat
  BY AttributionAssumption
<1>2. \A n \in Nodes : n \in Nat /\ graph.index[n] \in 0..MaxIndex
  BY NodeType
<1> QED BY <1>1, <1>2 DEF Before

(* First is the first of a set of nodes: the least index, then the least   *)
(* position.                                                               *)
LEMMA FirstIsFirst ==
    ASSUME graph \in Graphs, NEW S \in SUBSET Nodes, S # {}
    PROVE  First(S) \in S /\ \A m \in S \ {First(S)} : Before(First(S), m)
<1>0. MaxIndex \in Nat /\ \A n \in Nodes : n \in Nat /\ graph.index[n] \in 0..MaxIndex
  BY NodeType, AttributionAssumption
<1> DEFINE I == {graph.index[n] : n \in S}
<1>1. PICK i \in I : \A j \in I : i <= j
  <2>1. I \in SUBSET Nat /\ I # {}
    BY <1>0
  <2> HIDE DEF I
  <2> QED BY <2>1, LeastNatural
<1> DEFINE T == {n \in S : graph.index[n] = i}
<1>2. PICK n \in T : \A m \in T : n <= m
  <2>1. T \in SUBSET Nat /\ T # {}
    BY <1>0, <1>1
  <2> HIDE DEF T
  <2> QED BY <2>1, LeastNatural
<1>3. \A m \in S \ {n} : Before(n, m)
  <2> SUFFICES ASSUME NEW m \in S \ {n} PROVE Before(n, m)
    OBVIOUS
  <2>1. /\ n \in Nat /\ m \in Nat /\ n # m
        /\ graph.index[n] \in Nat /\ graph.index[m] \in Nat
        /\ graph.index[n] <= graph.index[m]
    BY <1>0, <1>1
  <2>2. graph.index[m] = graph.index[n] => n <= m
    BY <1>2
  <2> QED BY <2>1, <2>2 DEF Before
<1> QED BY <1>2, <1>3 DEF First

(* Hence no node of the set is before it. *)
LEMMA NoneBeforeFirst ==
    ASSUME graph \in Graphs, NEW S \in SUBSET Nodes, S # {}
    PROVE  First(S) \in S /\ \A m \in S : ~Before(m, First(S))
BY FirstIsFirst, BeforeIsOrder

(* The step that is blamed for lack of a candidate is one of the graph.    *)
LEMMA LastStepIsNode ==
    ASSUME graph \in Graphs, Nodes # {}
    PROVE  LastStep \in Nodes
<1>0. MaxIndex \in Nat /\ \A n \in Nodes : n \in Nat /\ graph.index[n] \in 0..MaxIndex
  BY NodeType, AttributionAssumption
<1> DEFINE I == {MaxIndex - graph.index[n] : n \in Nodes}
<1>1. PICK i \in I : \A j \in I : i <= j
  <2>1. I \in SUBSET Nat /\ I # {}
    BY <1>0
  <2> HIDE DEF I
  <2> QED BY <2>1, LeastNatural
<1> DEFINE T == {n \in Nodes : MaxIndex - graph.index[n] = i}
<1>2. PICK n \in T : \A m \in T : n <= m
  <2>1. T \in SUBSET Nat /\ T # {}
    BY <1>0, <1>1
  <2> HIDE DEF T
  <2> QED BY <2>1, LeastNatural
<1>3. \A m \in Nodes \ {n} :
        \/ graph.index[m] < graph.index[n]
        \/ graph.index[m] = graph.index[n] /\ n < m
  <2> SUFFICES ASSUME NEW m \in Nodes \ {n}
               PROVE  \/ graph.index[m] < graph.index[n]
                      \/ graph.index[m] = graph.index[n] /\ n < m
    OBVIOUS
  <2>1. n \in Nodes /\ m \in Nat /\ n \in Nat /\ MaxIndex - graph.index[n] = i
    BY <1>0
  <2>2. MaxIndex - graph.index[n] <= MaxIndex - graph.index[m]
    BY <1>1, <2>1
  <2>3. CASE MaxIndex - graph.index[m] = i
    <3>1. n <= m
      BY <1>2, <2>3
    <3> QED BY <1>0, <2>1, <2>3, <3>1
  <2>4. CASE MaxIndex - graph.index[m] # i
    BY <1>0, <2>1, <2>2, <2>4
  <2> QED BY <2>3, <2>4
<1> QED BY <1>2, <1>3 DEF LastStep

(* The next group is one of a node, and not judged yet. *)
LEMMA NextKeyIsUnjudged ==
    ASSUME graph \in Graphs, Unjudged # {}
    PROVE  NextKey \in Groups /\ verdict[NextKey] = "unjudged" /\ NextKey \in Keys
<1>1. Unjudged \in SUBSET Nat /\ Unjudged \subseteq Nodes
  BY NodeType DEF Unjudged
<1>2. PICK n \in Unjudged : \A m \in Unjudged : n <= m
  BY <1>1, LeastNatural
<1>3. \E l \in Unjudged : NextKey = Key(l)
  BY <1>2 DEF NextKey
<1> QED BY <1>1, <1>3, NodeType DEF Unjudged, Groups

-----------------------------------------------------------------------------
(* How many groups and flagged nodes there are.                            *)
LEMMA Counts ==
    ASSUME graph \in Graphs
    PROVE  /\ IsFiniteSet(Groups) /\ Cardinality(Groups) \in Nat
           /\ IsFiniteSet(Flagged) /\ Cardinality(Flagged) \in Nat
           /\ IsFiniteSet(JudgedGroups) /\ Cardinality(JudgedGroups) \in Nat
           /\ IsFiniteSet(JudgedNodes) /\ Cardinality(JudgedNodes) \in Nat
           /\ Cardinality(JudgedGroups) <= Cardinality(Groups)
           /\ JudgedNodes \subseteq Flagged => Cardinality(JudgedNodes) <= Cardinality(Flagged)
<1>1. IsFiniteSet(Nodes)
  BY NodesFinite
<1>2. IsFiniteSet(Groups)
  <2> DEFINE f == [n \in Nodes |-> Key(n)]
  <2>1. f \in Surjection(Nodes, Groups)
    BY DEF Surjection, Groups
  <2> QED BY <1>1, <2>1, FS_Surjection
<1>3. IsFiniteSet(Flagged) /\ IsFiniteSet(JudgedNodes)
  BY <1>1, FS_Subset DEF Flagged, JudgedNodes
<1>4. IsFiniteSet(JudgedGroups) /\ Cardinality(JudgedGroups) <= Cardinality(Groups)
  <2>1. JudgedGroups \in SUBSET Groups
    BY DEF JudgedGroups
  <2> QED BY <1>2, <2>1, FS_Subset
<1>5. JudgedNodes \subseteq Flagged => Cardinality(JudgedNodes) <= Cardinality(Flagged)
  BY <1>3, FS_Subset
<1> QED BY <1>2, <1>3, <1>4, <1>5, FS_CardinalityType

(* The graph is never changed, so what depends on it alone stays.          *)
LEMMA GraphStays ==
    ASSUME UNCHANGED graph
    PROVE  /\ Nodes' = Nodes /\ Groups' = Groups /\ Flagged' = Flagged
           /\ \A n : Key(n)' = Key(n)
           /\ \A m, n : Before(m, n)' = Before(m, n)
           /\ \A v : Candidates(verdict, v)' = Candidates(verdict', v)
           /\ LastStep' = LastStep
BY DEF Nodes, Groups, Flagged, Key, Before, Candidates, LastStep

(* Candidates are flagged nodes with a subtask id of their own.            *)
LEMMA CandidatesAreFlagged ==
    ASSUME NEW vd, NEW v
    PROVE  /\ Candidates(vd, v) \subseteq Nodes
           /\ Candidates(vd, v) \subseteq Flagged
           /\ \A u : u # v => Candidates(vd, v) \cap Candidates(vd, u) = {}
BY DEF Candidates, Flagged

(* One attempt is one to three requests.                                   *)
LEMMA SentIsBounded ==
    ASSUME calls \in Nat, Sent
    PROVE  calls' \in Nat /\ calls' <= calls + 3
BY AttributionAssumption DEF Sent, Requests

(* The arithmetic of the budget: one more attempt than c stays within the  *)
(* attempts at this question, within those at the next one, and at all.    *)
LEMMA BudgetNumbers ==
    ASSUME NEW g \in Nat, NEW f \in Nat, NEW c \in Nat, NEW d \in Nat, NEW a \in 0..2,
           d <= c + 3
    PROVE  /\ c <= 3 * a => d <= 9 /\ d <= 3 * (3 * (2 + g + f) + 1)
           /\ \A j \in Nat : c <= 3 * (3 * (1 + j) + a) =>
                /\ d <= 3 * (3 * (1 + (j + 1)))
                /\ j <= g => d <= 3 * (3 * (2 + g + f) + 1)
           /\ \A j \in Nat : c <= 3 * (3 * (1 + g + j) + a) =>
                /\ d <= 3 * (3 * (1 + g + (j + 1)))
                /\ j <= f => d <= 3 * (3 * (2 + g + f) + 1)
OBVIOUS

-----------------------------------------------------------------------------
(* The classifier is asked about everything: nothing is judged yet.        *)
LEMMA ClassifyKeeps ==
    ASSUME AttributionInv, Classify
    PROVE  AttributionInv'
<1>0. graph \in Graphs /\ pc = "classify" /\ calls \in Nat /\ attempt \in 0..2
  BY DEF AttributionInv, EngineTypeOK, Classify, Attempts
<1>1. /\ UNCHANGED <<graph, verdict, judged, cause, crs>>
      /\ attempt' = 0 /\ calls' \in Nat /\ calls' <= calls + 3
      /\ pc' \in {"subtasks", "failed"}
      /\ pc' = "subtasks" => Nodes # {}
  BY <1>0, SentIsBounded DEF Classify, Answered
<1>2. EngineTypeOK'
  BY <1>0, <1>1 DEF AttributionInv, EngineTypeOK, Questions, Nodes, Attempts
<1>3. calls' <= 9
  BY <1>0, <1>1 DEF AttributionInv, Spent, Requests
<1>4. Decomposing'
  <2>1. \A n \in Nodes : verdict[Key(n)] = "unjudged"
    BY <1>0, NodeType DEF AttributionInv, Decomposing
  <2> QED BY <1>0, <1>1, <2>1 DEF AttributionInv, Decomposing, Unjudged, Nodes, Key
<1>5. Walking' /\ CauseIsUpstream' /\ SymptomIsLastResort'
  BY <1>1 DEF Walking, CauseIsUpstream, SymptomIsLastResort, Chosen
<1>6. /\ IsFiniteSet(Groups') /\ Cardinality(Groups') \in Nat
      /\ Cardinality(Flagged') \in Nat /\ Cardinality(JudgedGroups') \in Nat
  <2>1. Groups' = Groups /\ Flagged' = Flagged /\ JudgedGroups' = JudgedGroups
    BY <1>1, GraphStays DEF JudgedGroups
  <2> QED BY <1>0, <2>1, Counts
<1>7. Spent'
  BY <1>1, <1>3, <1>6 DEF Spent, Attempts, Requests
<1>8. CallBudget'
  BY <1>0, <1>1, <1>3, <1>6 DEF CallBudget, Groups, Flagged, Attempts, Requests
<1> QED BY <1>2, <1>4, <1>5, <1>7, <1>8 DEF AttributionInv

(* One more group is judged, and after the last one the cause or the       *)
(* candidates are determined.                                              *)
LEMMA JudgeSubtaskKeeps ==
    ASSUME AttributionInv, JudgeSubtask
    PROVE  AttributionInv'
<1> DEFINE G == Cardinality(Groups)
           F == Cardinality(Flagged)
           J == Cardinality(JudgedGroups)
           env == Candidates(verdict', "environment")
           content == Candidates(verdict', "content")
<1>0. /\ graph \in Graphs /\ pc = "subtasks" /\ calls \in Nat /\ attempt \in 0..2
      /\ verdict \in [Keys -> Verdicts \cup {"unjudged"}]
      /\ cause = NoNode
      /\ \A n \in Nodes : judged[n] = "unjudged"
  BY DEF AttributionInv, EngineTypeOK, JudgeSubtask, Decomposing, Attempts
<1>1. /\ UNCHANGED <<graph, judged, crs>>
      /\ attempt' = 0 /\ calls' \in Nat /\ calls' <= calls + 3
  BY <1>0, SentIsBounded DEF JudgeSubtask, Answered
<1>2. NextKey \in Groups /\ verdict[NextKey] = "unjudged" /\ NextKey \in Keys
  BY <1>0, NextKeyIsUnjudged DEF AttributionInv, Decomposing
<1>3. /\ verdict' \in [Keys -> Verdicts \cup {"unjudged"}]
      /\ verdict'[NextKey] # "unjudged"
      /\ \A k \in Keys : k # NextKey => verdict'[k] = verdict[k]
  <2>1. PICK v \in Verdicts : verdict' = [verdict EXCEPT ![NextKey] = v]
    BY DEF JudgeSubtask
  <2>2. v # "unjudged"
    BY DEF Verdicts
  <2> QED BY <1>0, <1>2, <2>1, <2>2
<1>4. \/ /\ pc' = "subtasks" /\ cause' = cause
         /\ \E n \in Nodes : verdict'[Key(n)] = "unjudged"
      \/ /\ pc' = "nodes" /\ cause' = cause /\ content # {}
      \/ /\ pc' = "synthesize" /\ content = {}
         /\ cause' = IF env # {} THEN First(env) ELSE LastStep
  BY <1>0 DEF JudgeSubtask
<1>5. Nodes # {}
  BY <1>2 DEF Groups
<1>6. env \subseteq Nodes /\ content \subseteq Nodes
  BY CandidatesAreFlagged
<1>7. ASSUME pc' = "synthesize"
      PROVE  /\ cause' \in Nodes
             /\ cause' \in env => \A n \in env : ~Before(n, cause')
  <2>1. CASE env # {}
    BY <1>0, <1>4, <1>6, <1>7, <2>1, NoneBeforeFirst
  <2>2. CASE env = {}
    BY <1>0, <1>4, <1>5, <1>7, <2>2, LastStepIsNode
  <2> QED BY <2>1, <2>2
<1>8. EngineTypeOK'
  <2>1. cause' \in Nodes \cup {NoNode}
    BY <1>0, <1>4, <1>7
  <2>2. pc' \in Questions
    BY <1>4 DEF Questions
  <2>3. Nodes' = Nodes
    BY <1>1 DEF Nodes
  <2> QED BY <1>0, <1>1, <1>3, <2>1, <2>2, <2>3 DEF AttributionInv, EngineTypeOK, Attempts
<1>9. /\ Nodes' = Nodes /\ Groups' = Groups /\ Flagged' = Flagged
      /\ \A n : Key(n)' = Key(n)
      /\ \A m, n : Before(m, n)' = Before(m, n)
      /\ \A v : Candidates(verdict, v)' = Candidates(verdict', v)
  BY <1>1, GraphStays
<1>10. Decomposing'
  BY <1>0, <1>1, <1>4, <1>9 DEF Decomposing, Unjudged
<1>11. Walking'
  <2>1. \A n \in Nodes' : judged'[n] = "unjudged"
    BY <1>0, <1>1, <1>9
  <2>2. Candidates(verdict, "content")' = content
    BY <1>9
  <2> QED BY <1>4, <1>6, <1>9, <2>1, <2>2 DEF Walking
<1>12. CauseIsUpstream' /\ SymptomIsLastResort'
  <2>1. Chosen' => pc' = "synthesize" /\ content = {}
    BY <1>4 DEF Chosen
  <2> QED BY <1>7, <1>9, <2>1 DEF CauseIsUpstream, SymptomIsLastResort
<1>13. /\ G \in Nat /\ F \in Nat /\ J \in Nat
       /\ Cardinality(JudgedGroups') = J + 1
       /\ J + 1 <= G
  <2>1. /\ IsFiniteSet(Groups) /\ IsFiniteSet(JudgedGroups)
        /\ G \in Nat /\ F \in Nat /\ J \in Nat
    BY <1>0, Counts
  <2>2. JudgedGroups' = JudgedGroups \cup {NextKey}
    <3>1. \A k \in Groups : k \in Keys
      BY <1>0, NodeType DEF Groups
    <3> QED BY <1>2, <1>3, <1>9, <3>1 DEF JudgedGroups
  <2>3. NextKey \notin JudgedGroups
    BY <1>2 DEF JudgedGroups
  <2>4. Cardinality(JudgedGroups') = J + 1
    BY <2>1, <2>2, <2>3, FS_AddElement
  <2>5. JudgedGroups' \subseteq Groups
    BY <1>2, <2>2 DEF JudgedGroups
  <2> QED BY <2>1, <2>4, <2>5, FS_Subset
<1>14. /\ calls' <= 3 * (3 * (1 + (J + 1)))
       /\ calls' <= 3 * (3 * (2 + G + F) + 1)
  <2>1. calls <= 3 * (3 * (1 + J) + attempt)
    BY <1>0 DEF AttributionInv, Spent, Attempts, Requests
  <2>2. J <= G
    BY <1>13
  <2> QED BY <1>0, <1>1, <1>13, <2>1, <2>2, BudgetNumbers
<1>15. Spent'
  <2>1. /\ Cardinality(Groups)' = G /\ Cardinality(Flagged)' = F
        /\ Cardinality(JudgedGroups)' = J + 1
    BY <1>9, <1>13
  <2>2. Cardinality(JudgedNodes)' \in Nat
    <3>1. JudgedNodes' = JudgedNodes
      BY <1>1, <1>9 DEF JudgedNodes
    <3> QED BY <1>0, <3>1, Counts
  <2> HIDE DEF G, F, J
  <2> QED BY <1>1, <1>4, <1>13, <1>14, <2>1, <2>2 DEF Spent, Attempts, Requests
<1>16. CallBudget'
  <2>1. Cardinality(Groups)' = G /\ Cardinality(Flagged)' = F
    BY <1>9
  <2> HIDE DEF G, F, J
  <2> QED BY <1>14, <2>1 DEF CallBudget, Groups, Flagged, Attempts, Requests
<1> QED BY <1>8, <1>10, <1>11, <1>12, <1>15, <1>16 DEF AttributionInv

(* One more candidate is judged: the first at fault ends the walk.         *)
LEMMA JudgeNodeKeeps ==
    ASSUME AttributionInv, JudgeNode
    PROVE  AttributionInv'
<1> DEFINE C == Candidates(verdict, "content")
           U == {m \in C : judged[m] = "unjudged"}
           n == First(U)
           G == Cardinality(Groups)
           F == Cardinality(Flagged)
           W == Cardinality(JudgedNodes)
<1>0. /\ graph \in Graphs /\ pc = "nodes" /\ calls \in Nat /\ attempt \in 0..2
      /\ judged \in [Nodes -> Verdicts \cup {"unjudged"}]
      /\ C \subseteq Nodes /\ U \subseteq C
  BY CandidatesAreFlagged DEF AttributionInv, EngineTypeOK, JudgeNode, Attempts
<1>1. /\ UNCHANGED <<graph, verdict, crs>>
      /\ attempt' = 0 /\ calls' \in Nat /\ calls' <= calls + 3
  BY <1>0, SentIsBounded DEF JudgeNode, Answered
<1>2. /\ U # {} /\ \A m \in C : judged[m] # "content"
      /\ \A m, l \in C : judged[m] # "unjudged" /\ judged[l] = "unjudged" => Before(m, l)
      /\ \A m \in Nodes : judged[m] # "unjudged" => m \in C
  BY <1>0 DEF AttributionInv, Walking
<1>3. n \in U /\ \A m \in U \ {n} : Before(n, m)
  <2>1. U \in SUBSET Nodes
    BY <1>0
  <2> HIDE DEF U
  <2> QED BY <1>0, <1>2, <2>1, FirstIsFirst
<1>4. PICK v \in Verdicts :
        /\ judged' = [judged EXCEPT ![n] = v]
        /\ IF v = "content" THEN pc' = "synthesize" /\ cause' = n
           ELSE IF \A m \in C : judged'[m] # "unjudged"
           THEN pc' = "synthesize" /\ cause' = First(C)
           ELSE UNCHANGED <<pc, cause>>
  BY DEF JudgeNode
<1> HIDE DEF n
<1>5. /\ n \in C /\ n \in Nodes /\ judged[n] = "unjudged"
      /\ judged'[n] = v /\ v # "unjudged"
      /\ \A m \in Nodes : m # n => judged'[m] = judged[m]
      /\ judged' \in [Nodes -> Verdicts \cup {"unjudged"}]
  BY <1>0, <1>3, <1>4 DEF Verdicts
<1>6. /\ Nodes' = Nodes /\ Groups' = Groups /\ Flagged' = Flagged
      /\ \A m, l : Before(m, l)' = Before(m, l)
      /\ \A u : Candidates(verdict, u)' = Candidates(verdict, u)
  BY <1>1, GraphStays
<1>7. /\ C # {} /\ First(C) \in C /\ \A m \in C : ~Before(m, First(C))
  <2>1. C # {} /\ C \in SUBSET Nodes
    BY <1>0, <1>5
  <2> HIDE DEF C
  <2> QED BY <1>0, <2>1, NoneBeforeFirst
<1>8. \/ /\ v = "content" /\ pc' = "synthesize" /\ cause' = n
      \/ /\ v # "content" /\ pc' = "synthesize" /\ cause' = First(C)
         /\ \A m \in C : judged'[m] # "unjudged"
      \/ /\ v # "content" /\ pc' = "nodes" /\ cause' = cause
         /\ \E m \in C : judged'[m] = "unjudged"
  BY <1>0, <1>4
<1>9. EngineTypeOK'
  <2>1. cause' \in Nodes \cup {NoNode}
    BY <1>0, <1>5, <1>7, <1>8 DEF AttributionInv, EngineTypeOK
  <2>2. pc' \in Questions
    BY <1>8 DEF Questions
  <2> QED BY <1>0, <1>1, <1>5, <1>6, <2>1, <2>2 DEF AttributionInv, EngineTypeOK, Attempts
<1>10. Decomposing'
  BY <1>8 DEF Decomposing
<1>11. Walking'
  <2>1. \A m \in Nodes : judged'[m] # "unjudged" => m \in C
    BY <1>2, <1>5
  <2>2. ASSUME pc' = "nodes"
        PROVE  /\ \E m \in C : judged'[m] = "unjudged"
               /\ \A m \in C : judged'[m] # "content"
               /\ \A m, l \in C :
                    judged'[m] # "unjudged" /\ judged'[l] = "unjudged" => Before(m, l)
    <3>1. v # "content" /\ \E m \in C : judged'[m] = "unjudged"
      BY <1>8, <2>2
    <3>2. \A m \in C : judged'[m] # "content"
      BY <1>0, <1>2, <1>5, <3>1
    <3>3. ASSUME NEW m \in C, NEW l \in C,
                 judged'[m] # "unjudged", judged'[l] = "unjudged"
          PROVE  Before(m, l)
      <4>1. l # n /\ judged[l] = "unjudged" /\ l \in Nodes
        BY <1>0, <1>5, <3>3
      <4>2. CASE m = n
        BY <1>3, <4>1, <4>2
      <4>3. CASE m # n
        BY <1>0, <1>2, <1>5, <3>3, <4>1, <4>3
      <4> QED BY <4>2, <4>3
    <3> QED BY <3>1, <3>2, <3>3
  <2> HIDE DEF C
  <2> QED BY <1>6, <2>1, <2>2 DEF Walking, C
<1>12. ASSUME Chosen'
       PROVE  /\ cause' \in C
              /\ LET guilty == {m \in C : judged'[m] = "content"}
                 IN  /\ cause' \in IF guilty # {} THEN guilty ELSE C
                     /\ \A m \in C : Before(m, cause') =>
                          guilty # {} /\ judged'[m] \in {"correct", "environment"}
  <2>1. CASE v = "content"
    <3>1. cause' = n
      BY <1>8, <2>1
    <3>2. ASSUME NEW m \in C, Before(m, n)
          PROVE  judged'[m] \in {"correct", "environment"}
      <4>1. m # n
        BY <1>0, <1>5, <3>2, BeforeIsOrder
      <4>2. judged[m] # "unjudged"
        <5>1. ASSUME judged[m] = "unjudged" PROVE FALSE
          <6>1. Before(n, m)
            BY <1>3, <4>1, <5>1
          <6> QED BY <1>0, <1>5, <3>2, <6>1, BeforeIsOrder
        <5> QED BY <5>1
      <4>3. judged[m] \in {"correct", "environment"}
        BY <1>0, <1>2, <4>2 DEF Verdicts
      <4> QED BY <1>0, <1>5, <4>1, <4>3
    <3> QED BY <1>5, <2>1, <3>1, <3>2
  <2>2. CASE v # "content"
    <3>1. cause' = First(C)
      BY <1>8, <1>12, <2>2 DEF Chosen
    <3>2. {m \in C : judged'[m] = "content"} = {}
      BY <1>0, <1>2, <1>5, <2>2
    <3> QED BY <1>7, <3>1, <3>2
  <2> QED BY <2>1, <2>2
<1>13. CauseIsUpstream'
  BY <1>6, <1>12 DEF CauseIsUpstream
<1>14. SymptomIsLastResort'
  <2>1. Chosen' => cause' \notin Candidates(verdict, "environment")
    BY <1>12, CandidatesAreFlagged
  <2> QED BY <1>6, <2>1 DEF SymptomIsLastResort
<1>15. /\ G \in Nat /\ F \in Nat /\ W \in Nat
       /\ Cardinality(JudgedNodes') = W + 1
       /\ W + 1 <= F
  <2>1. /\ IsFiniteSet(JudgedNodes) /\ IsFiniteSet(Flagged)
        /\ G \in Nat /\ F \in Nat /\ W \in Nat
    BY <1>0, Counts
  <2>2. JudgedNodes' = JudgedNodes \cup {n} /\ n \notin JudgedNodes
    BY <1>5, <1>6 DEF JudgedNodes
  <2>3. Cardinality(JudgedNodes') = W + 1
    BY <2>1, <2>2, FS_AddElement
  <2>4. JudgedNodes' \subseteq Flagged
    BY <1>2, <1>5, <2>2, CandidatesAreFlagged DEF JudgedNodes
  <2> QED BY <2>1, <2>3, <2>4, FS_Subset
<1>16. /\ calls' <= 3 * (3 * (1 + G + (W + 1)))
       /\ calls' <= 3 * (3 * (2 + G + F) + 1)
  <2>1. calls <= 3 * (3 * (1 + G + W) + attempt)
    BY <1>0 DEF AttributionInv, Spent, Attempts, Requests
  <2>2. W <= F
    BY <1>15
  <2> QED BY <1>0, <1>1, <1>15, <2>1, <2>2, BudgetNumbers
<1>17. Spent'
  <2>1. /\ Cardinality(Groups)' = G /\ Cardinality(Flagged)' = F
        /\ Cardinality(JudgedNodes)' = W + 1
    BY <1>6, <1>15
  <2> HIDE DEF G, F, W
  <2>2. 3 * (3 * (1 + G + (W + 1))) <= 3 * (3 * (1 + G + F))
    BY <1>15
  <2>3. calls' <= 3 * (3 * (1 + G + F))
    BY <1>0, <1>1, <1>15, <1>16, <2>2
  <2> QED BY <1>1, <1>8, <1>15, <1>16, <2>1, <2>3 DEF Spent, Attempts, Requests
<1>18. CallBudget'
  <2>1. Cardinality(Groups)' = G /\ Cardinality(Flagged)' = F
    BY <1>6
  <2> HIDE DEF G, F, W
  <2> QED BY <1>16, <2>1 DEF CallBudget, Groups, Flagged, Attempts, Requests
<1> QED BY <1>9, <1>10, <1>11, <1>13, <1>14, <1>17, <1>18 DEF AttributionInv

(* The cause is determined: the two last questions do not change it.       *)
LEMMA LastQuestionsKeep ==
    ASSUME AttributionInv, Synthesize \/ Screen
    PROVE  AttributionInv'
<1> DEFINE G == Cardinality(Groups)
           F == Cardinality(Flagged)
<1>0. /\ graph \in Graphs /\ calls \in Nat /\ attempt \in 0..2
      /\ G \in Nat /\ F \in Nat
  BY Counts DEF AttributionInv, EngineTypeOK, Attempts
<1>1. /\ UNCHANGED <<graph, verdict, judged, cause>>
      /\ attempt' = 0 /\ calls' \in Nat /\ calls' <= calls + 3
      /\ pc \in {"synthesize", "screen"}
      /\ pc' \in {"screen", "done", "failed"}
  BY <1>0, SentIsBounded DEF Synthesize, Screen, Answered
<1>2. /\ Nodes' = Nodes /\ Groups' = Groups /\ Flagged' = Flagged
      /\ \A m, n : Before(m, n)' = Before(m, n)
      /\ \A v : Candidates(verdict, v)' = Candidates(verdict, v)
  BY <1>1, GraphStays
<1>3. EngineTypeOK'
  <2>1. crs' \in 0..100 \cup {NoScore}
    <3>1. \A c \in Confidences : Clamp(c) \in 0..100
      BY AttributionAssumption DEF Clamp
    <3>2. crs' = crs \/ crs' \in {Clamp(c) : c \in Confidences} \cup {95, 15}
      BY DEF Synthesize, Screen
    <3> QED BY <3>1, <3>2 DEF AttributionInv, EngineTypeOK
  <2>2. pc' \in Questions \cup {"done", "failed"}
    BY <1>1 DEF Questions
  <2>3. attempt' \in 0..(Attempts - 1) /\ calls' \in Nat
    BY <1>0, <1>1 DEF Attempts
  <2> QED BY <1>1, <1>2, <2>1, <2>2, <2>3 DEF AttributionInv, EngineTypeOK
<1>4. Decomposing'
  BY <1>1 DEF Decomposing
<1>5. Walking'
  BY <1>1, <1>2 DEF AttributionInv, Walking
<1>6. CauseIsUpstream' /\ SymptomIsLastResort'
  BY <1>1, <1>2 DEF AttributionInv, CauseIsUpstream, SymptomIsLastResort, Chosen
<1>7. Spent' /\ CallBudget'
  <2>1. Cardinality(Groups)' = G /\ Cardinality(Flagged)' = F
    BY <1>2
  <2>2. CASE Synthesize
    <3>1. calls <= 3 * (3 * (1 + G + F)) /\ pc' \in {"screen", "failed"}
      BY <2>2 DEF Synthesize, AttributionInv, Spent, Attempts, Requests
    <3> HIDE DEF G, F
    <3>2. calls' <= 3 * (3 * (1 + G + F) + 1) /\ calls' <= 3 * (3 * (2 + G + F) + 1)
      BY <1>0, <1>1, <3>1
    <3>3. Spent'
      BY <1>0, <1>1, <2>1, <3>1, <3>2 DEF Spent, Attempts, Requests
    <3>4. CallBudget'
      BY <2>1, <3>2 DEF CallBudget, Groups, Flagged, Attempts, Requests
    <3> QED BY <3>3, <3>4
  <2>3. CASE Screen
    <3>1. calls <= 3 * (3 * (1 + G + F) + 1 + attempt) /\ pc' \in {"done", "failed"}
      BY <2>3 DEF Screen, AttributionInv, Spent, Attempts, Requests
    <3> HIDE DEF G, F
    <3>2. calls' <= 3 * (3 * (2 + G + F) + 1)
      BY <1>0, <1>1, <3>1
    <3>3. Spent'
      BY <3>1 DEF Spent
    <3>4. CallBudget'
      BY <2>1, <3>2 DEF CallBudget, Groups, Flagged, Attempts, Requests
    <3> QED BY <3>3, <3>4
  <2> QED BY <2>2, <2>3
<1> QED BY <1>3, <1>4, <1>5, <1>6, <1>7 DEF AttributionInv

(* A malformed answer counts, and the third ends the attribution.          *)
LEMMA MalformedKeeps ==
    ASSUME AttributionInv, Malformed
    PROVE  AttributionInv'
<1> DEFINE G == Cardinality(Groups)
           F == Cardinality(Flagged)
           J == Cardinality(JudgedGroups)
           W == Cardinality(JudgedNodes)
<1>0. /\ graph \in Graphs /\ calls \in Nat /\ attempt \in 0..2
      /\ G \in Nat /\ F \in Nat /\ J \in Nat /\ W \in Nat /\ J <= G
  BY Counts DEF AttributionInv, EngineTypeOK, Attempts
<1>1. /\ UNCHANGED <<graph, verdict, judged, cause, crs>>
      /\ calls' \in Nat /\ calls' <= calls + 3
      /\ pc \in {"classify", "subtasks", "nodes", "screen"}
      /\ \/ attempt < 2 /\ attempt' = attempt + 1 /\ pc' = pc
         \/ attempt = 2 /\ attempt' = 0 /\ pc' = "failed"
  BY <1>0, SentIsBounded DEF Malformed, Attempts, Questions
<1>2. /\ Nodes' = Nodes /\ Groups' = Groups /\ Flagged' = Flagged
      /\ \A n : Key(n)' = Key(n)
      /\ \A m, n : Before(m, n)' = Before(m, n)
      /\ \A v : Candidates(verdict, v)' = Candidates(verdict, v)
  BY <1>1, GraphStays
<1>3. EngineTypeOK'
  <2>1. pc' \in Questions \cup {"done", "failed"}
    BY <1>1 DEF Questions
  <2>2. attempt' \in 0..(Attempts - 1) /\ calls' \in Nat
    BY <1>0, <1>1 DEF Attempts
  <2> QED BY <1>1, <1>2, <2>1, <2>2 DEF AttributionInv, EngineTypeOK
<1>4. Decomposing'
  BY <1>1, <1>2 DEF AttributionInv, Decomposing, Unjudged
<1>5. Walking'
  BY <1>1, <1>2 DEF AttributionInv, Walking
<1>6. CauseIsUpstream' /\ SymptomIsLastResort'
  BY <1>1, <1>2 DEF AttributionInv, CauseIsUpstream, SymptomIsLastResort, Chosen
<1>7. Spent' /\ CallBudget'
  <2>1. /\ Cardinality(Groups)' = G /\ Cardinality(Flagged)' = F
        /\ Cardinality(JudgedGroups)' = J /\ Cardinality(JudgedNodes)' = W
    BY <1>1, <1>2 DEF JudgedGroups, JudgedNodes
  <2>2. pc = "nodes" => W <= F
    <3>1. pc = "nodes" => JudgedNodes \subseteq Flagged
      BY CandidatesAreFlagged DEF AttributionInv, Walking, JudgedNodes
    <3> QED BY <1>0, <3>1, Counts
  <2>3. /\ pc = "classify" => calls <= 3 * attempt
        /\ pc = "subtasks" => calls <= 3 * (3 * (1 + J) + attempt)
        /\ pc = "nodes" => calls <= 3 * (3 * (1 + G + W) + attempt)
        /\ pc = "screen" => calls <= 3 * (3 * (1 + G + F) + 1 + attempt)
    BY DEF AttributionInv, Spent, Attempts, Requests
  <2> HIDE DEF G, F, J, W
  <2>4. /\ pc' = "classify" => calls' <= 3 * attempt'
        /\ pc' = "subtasks" => calls' <= 3 * (3 * (1 + J) + attempt')
        /\ pc' = "nodes" => calls' <= 3 * (3 * (1 + G + W) + attempt')
        /\ pc' = "screen" => calls' <= 3 * (3 * (1 + G + F) + 1 + attempt')
    BY <1>0, <1>1, <2>3
  <2>5. calls' <= 3 * (3 * (2 + G + F) + 1)
    BY <1>0, <1>1, <2>2, <2>3
  <2>6. pc' # "synthesize"
    BY <1>1
  <2>7. Spent'
    BY <2>1, <2>4, <2>6 DEF Spent, Attempts, Requests
  <2>8. CallBudget'
    BY <2>1, <2>5 DEF CallBudget, Groups, Flagged, Attempts, Requests
  <2> QED BY <2>7, <2>8
<1> QED BY <1>3, <1>4, <1>5, <1>6, <1>7 DEF AttributionInv

-----------------------------------------------------------------------------
(* The invariant holds before the first question,                          *)
LEMMA EngineStarts ==
    ASSUME graph \in Graphs, EngineStart
    PROVE  AttributionInv
<1>1. EngineTypeOK
  BY DEF EngineStart, EngineTypeOK, Questions, Attempts
<1>2. Decomposing /\ Walking /\ CauseIsUpstream /\ SymptomIsLastResort
  BY DEF EngineStart, Decomposing, Walking, CauseIsUpstream, SymptomIsLastResort, Chosen
<1>3. Spent
  BY DEF EngineStart, Spent, Requests
<1>4. CallBudget
  <2>1. /\ Cardinality({n \in Nodes : graph.flagged[n]}) \in Nat
        /\ Cardinality({Key(n) : n \in Nodes}) \in Nat
    BY Counts DEF Flagged, Groups
  <2> QED BY <2>1 DEF EngineStart, CallBudget, Attempts, Requests
<1> QED BY <1>1, <1>2, <1>3, <1>4 DEF AttributionInv

(* and every step keeps it.                                                *)
LEMMA EngineKeeps ==
    ASSUME AttributionInv, [EngineNext]_engine
    PROVE  AttributionInv'
<1>1. CASE UNCHANGED engine
  <2>1. UNCHANGED <<graph, pc, attempt, verdict, judged, cause, crs, calls>>
    BY <1>1 DEF engine
  <2>2. EngineTypeOK'
    BY <2>1 DEF AttributionInv, EngineTypeOK, Nodes
  <2>3. Decomposing'
    BY <2>1 DEF AttributionInv, Decomposing, Nodes, Unjudged, Key
  <2>4. Walking' /\ CauseIsUpstream' /\ SymptomIsLastResort'
    BY <2>1 DEF AttributionInv, Walking, CauseIsUpstream, SymptomIsLastResort,
                Candidates, Nodes, Before, Chosen
  <2>5. Spent' /\ CallBudget'
    BY <2>1 DEF AttributionInv, Spent, CallBudget, Groups, Flagged, JudgedGroups,
                JudgedNodes, Nodes, Key
  <2> QED BY <2>2, <2>3, <2>4, <2>5 DEF AttributionInv
<1> QED BY <1>1, ClassifyKeeps, JudgeSubtaskKeeps, JudgeNodeKeeps,
           LastQuestionsKeep, MalformedKeeps DEF EngineNext

(* The inductive invariant of the engine.                                  *)
THEOREM AttributionInductive == EngineSpec => []AttributionInv
<1>1. EngineInit => AttributionInv
  BY EngineStarts DEF EngineInit
<1>2. AttributionInv /\ [EngineNext]_engine => AttributionInv'
  BY EngineKeeps
<1> QED BY <1>1, <1>2, PTL DEF EngineSpec

-----------------------------------------------------------------------------
(* What is settled when the engine has chosen: every subtask is judged,    *)
(* the walk over the candidates went on until it found a fault or the end, *)
(* and without candidates a symptom is blamed if there is one.             *)
Concluded ==
    LET content == Candidates(verdict, "content")
        env == Candidates(verdict, "environment")
    IN  /\ pc = "nodes" \/ Chosen => Unjudged = {}
        /\ Chosen =>
             /\ cause \in Nodes
             /\ \/ \E n \in content : judged[n] = "content"
                \/ \A n \in content : judged[n] # "unjudged"
             /\ content = {} /\ env # {} => cause \in env
        /\ pc = "done" => crs # NoScore

(* The answer about the last subtask ends the decomposition.               *)
LEMMA JudgeSubtaskConcludes ==
    ASSUME AttributionInv, JudgeSubtask
    PROVE  Concluded'
<1> DEFINE content == Candidates(verdict', "content")
           env == Candidates(verdict', "environment")
           left == {n \in Nodes : verdict'[Key(n)] = "unjudged"}
<1>1. /\ graph \in Graphs
      /\ Nodes # {}
      /\ UNCHANGED graph
      /\ pc = "subtasks"
  BY DEF AttributionInv, EngineTypeOK, Decomposing, Unjudged, JudgeSubtask
<1>2. /\ left # {} => pc' = "subtasks"
      /\ left = {} /\ content # {} => pc' = "nodes"
      /\ left = {} /\ content = {} =>
           /\ pc' = "synthesize"
           /\ cause' = IF env # {} THEN First(env) ELSE LastStep
  BY <1>1 DEF JudgeSubtask
<1>3. /\ Nodes' = Nodes
      /\ Unjudged' = left
      /\ Candidates(verdict, "content")' = content
      /\ Candidates(verdict, "environment")' = env
  BY <1>1, GraphStays DEF Unjudged
<1>4. env \subseteq Nodes
  BY CandidatesAreFlagged
<1> HIDE DEF content, env, left
<1>5. CASE left # {} \/ content # {}
  BY <1>2, <1>3, <1>5 DEF Concluded, Chosen
<1>6. CASE left = {} /\ content = {}
  <2>1. env # {} => First(env) \in env
    BY <1>1, <1>4, FirstIsFirst
  <2>2. LastStep \in Nodes
    BY <1>1, LastStepIsNode
  <2> QED BY <1>2, <1>3, <1>4, <1>6, <2>1, <2>2 DEF Concluded, Chosen
<1> QED BY <1>5, <1>6

(* The walk ends at a fault, or when nothing is left to ask.               *)
LEMMA JudgeNodeConcludes ==
    ASSUME AttributionInv, Concluded, JudgeNode
    PROVE  Concluded'
<1> DEFINE content == Candidates(verdict, "content")
           n == First({m \in content : judged[m] = "unjudged"})
<1>1. /\ graph \in Graphs
      /\ judged \in [Nodes -> Verdicts \cup {"unjudged"}]
      /\ UNCHANGED <<graph, verdict>>
      /\ pc = "nodes"
      /\ Unjudged = {}
  BY DEF AttributionInv, EngineTypeOK, JudgeNode, Concluded
<1>2. content \subseteq Nodes
  BY CandidatesAreFlagged
<1>3. content # {} /\ n \in content
  <2>1. {m \in content : judged[m] = "unjudged"} # {}
    BY <1>1 DEF AttributionInv, Walking
  <2> QED BY <1>1, <1>2, <2>1, FirstIsFirst
<1>4. First(content) \in content
  BY <1>1, <1>2, <1>3, FirstIsFirst
<1>5. /\ Nodes' = Nodes
      /\ Unjudged' = {}
      /\ Candidates(verdict, "content")' = content
  BY <1>1, GraphStays DEF Unjudged
<1> HIDE DEF content, n
<1>6. PICK v \in Verdicts :
        /\ judged' = [judged EXCEPT ![n] = v]
        /\ IF v = "content" THEN pc' = "synthesize" /\ cause' = n
           ELSE IF \A m \in content : judged'[m] # "unjudged"
           THEN pc' = "synthesize" /\ cause' = First(content)
           ELSE UNCHANGED <<pc, cause>>
  BY DEF JudgeNode, content, n
<1>7. v = "content" => judged'[n] = "content"
  BY <1>1, <1>2, <1>3, <1>6
<1> QED BY <1>1, <1>2, <1>3, <1>4, <1>5, <1>6, <1>7 DEF Concluded, Chosen

(* Nothing that was settled is changed by the questions that follow.       *)
LEMMA ConcludedKeeps ==
    ASSUME AttributionInv, Concluded, [EngineNext]_engine
    PROVE  Concluded'
<1>1. CASE UNCHANGED engine
  BY <1>1 DEF engine, Concluded, Chosen, Unjudged, Candidates, Nodes, Key
<1>2. CASE Classify
  BY <1>2 DEF Classify, Concluded, Chosen
<1>3. CASE Synthesize \/ Screen \/ Malformed
  <2>1. /\ UNCHANGED <<graph, verdict, judged, cause>>
        /\ pc' = pc \/ pc' = "failed" \/ (Chosen /\ pc' \in {"screen", "done"})
        /\ pc' = "done" => crs' \in Int
    <3>1. CASE Synthesize
      BY <3>1 DEF Synthesize, Chosen
    <3>2. CASE Screen
      <4>1. \A c \in Confidences : Clamp(c) \in Int
        BY AttributionAssumption DEF Clamp
      <4> QED BY <3>2, <4>1 DEF Screen, Chosen
    <3>3. CASE Malformed
      BY <3>3 DEF Malformed, Questions
    <3> QED BY <1>3, <3>1, <3>2, <3>3
  <2>2. /\ Nodes' = Nodes
        /\ Unjudged' = Unjudged
        /\ \A v : Candidates(verdict, v)' = Candidates(verdict, v)
    BY <2>1, GraphStays DEF Unjudged
  <2> QED BY <2>1, <2>2, AttributionAssumption DEF Concluded, Chosen
<1> QED BY <1>1, <1>2, <1>3, JudgeSubtaskConcludes, JudgeNodeConcludes DEF EngineNext

(* Every variable stays in its range, the score is a percentage            *)
(* (Attribution!EngineTypeOK).                                                   *)
THEOREM AttributionTypeCorrect == EngineSpec => []EngineTypeOK
<1>1. AttributionInv => EngineTypeOK
  BY DEF AttributionInv
<1> QED BY <1>1, AttributionInductive, PTL

(* A downstream symptom is never chosen over its upstream cause            *)
(* (Attribution!CauseIsUpstream).                                          *)
THEOREM NoSymptomOverCause == EngineSpec => []CauseIsUpstream
<1>1. AttributionInv => CauseIsUpstream
  BY DEF AttributionInv
<1> QED BY <1>1, AttributionInductive, PTL

(* Environmental symptoms are attributed only when no flagged node belongs *)
(* to a subtask at fault (Attribution!SymptomIsLastResort).                *)
THEOREM SymptomsComeLast == EngineSpec => []SymptomIsLastResort
<1>1. AttributionInv => SymptomIsLastResort
  BY DEF AttributionInv
<1> QED BY <1>1, AttributionInductive, PTL

(* Whatever the provider answers, the number of requests is bounded by the *)
(* graph alone (Attribution!CallBudget).                                   *)
THEOREM RequestsAreBounded == EngineSpec => []CallBudget
<1>1. AttributionInv => CallBudget
  BY DEF AttributionInv
<1> QED BY <1>1, AttributionInductive, PTL

-----------------------------------------------------------------------------
(* The evaluation: what its programs walk through.                         *)

(* A step at fault that the engine can confirm, in a trace whose ids       *)
(* number the steps.                                                       *)
Confirmable(t) ==
    /\ \A n \in DOMAIN t.steps : t.ids[n] = n
    /\ t.steps[t.fault].flagged
    /\ t.steps[t.fault].subtask # NoSubtask

(* Labels that the earliest error has, and labels of a later one.          *)
FirstErrors ==
    {t \in Labelled : /\ Confirmable(t)
                      /\ \A n \in 1..(t.fault - 1) : ~t.steps[n].flagged}

Decoys ==
    {t \in Labelled : /\ Confirmable(t)
                      /\ t.kind = "content"
                      /\ \E n \in 1..(t.fault - 1) : t.steps[n].flagged}

(* The steps of the scenarios are steps.                                   *)
LEMMA ScenarioSteps ==
    /\ \A s \in {"a", "b", "c"} :
         /\ Err(s) \in Step /\ Err(s).flagged /\ Err(s).subtask # NoSubtask
         /\ Ok(s) \in Step /\ ~Ok(s).flagged
    /\ \A x, y, z, u \in Step :
         /\ <<x>> \in [1..1 -> Step]
         /\ <<x, y>> \in [1..2 -> Step]
         /\ <<x, y, z>> \in [1..3 -> Step]
         /\ <<x, y, z, u>> \in [1..4 -> Step]
<1>1. \A s \in {"a", "b", "c"} : s \in Subtasks /\ s # NoSubtask
  BY EvaluationAssumption, AttributionAssumption
<1>2. \A s \in {"a", "b", "c"} :
        /\ Err(s) \in Step /\ Err(s).flagged /\ Err(s).subtask # NoSubtask
        /\ Ok(s) \in Step /\ ~Ok(s).flagged
  BY <1>1 DEF Err, Ok, Step
<1> QED BY <1>2

(* The label of a trace of up to four steps.                               *)
LEMMA LabelType ==
    ASSUME NEW n \in 1..4, NEW steps \in [1..n -> Step], NEW f \in 1..n
    PROVE  Content(f, steps) \in Labelled /\ Infra(f, steps) \in Labelled
<1>1. n \in 1..MaxNodes /\ n <= MaxIndex /\ n \in Nat /\ MaxIndex \in Nat
  BY EvaluationAssumption, AttributionAssumption
<1>2. steps \in Seq(Step) /\ Len(steps) = n /\ DOMAIN steps = 1..n
  BY <1>1
<1>3. Numbered(steps) \in [1..n -> Endings]
  BY <1>1, <1>2 DEF Numbered, Endings
<1>4. Numbered(steps) \in Seq(Endings) /\ Len(Numbered(steps)) = n
  BY <1>1, <1>3
<1> QED BY <1>1, <1>2, <1>4 DEF Content, Infra, Labelled

(* The fields of a scenario, whose ids number its steps.                   *)
LEMMA ScenarioFields ==
    \A n, steps :
      /\ Content(n, steps).steps = steps /\ Content(n, steps).fault = n
      /\ Content(n, steps).kind = "content"
      /\ \A i \in DOMAIN steps : Content(n, steps).ids[i] = i
      /\ Infra(n, steps).steps = steps /\ Infra(n, steps).fault = n
      /\ Infra(n, steps).kind = "environment"
      /\ \A i \in DOMAIN steps : Infra(n, steps).ids[i] = i
BY DEF Content, Infra, Numbered

(* In the scenarios from coord_misaligned_assumptions to infra_unknown the *)
(* label names the earliest error.                                         *)
LEMMA BaseScenarios ==
    /\ OverviewScenarios \in Seq(FirstErrors) /\ Len(OverviewScenarios) = 6
    /\ SpecificationScenarios \in Seq(FirstErrors) /\ Len(SpecificationScenarios) = 3
    /\ CoordinationScenarios \in Seq(FirstErrors) /\ Len(CoordinationScenarios) = 3
    /\ VerificationScenarios \in Seq(FirstErrors) /\ Len(VerificationScenarios) = 3
    /\ CascadeScenarios \in Seq(FirstErrors) /\ Len(CascadeScenarios) = 3
<1> DEFINE a == Err("a")
           b == Err("b")
           c == Ok("a")
           d == Ok("b")
<1>1. /\ a \in Step /\ a.flagged /\ a.subtask # NoSubtask
      /\ b \in Step /\ b.flagged /\ b.subtask # NoSubtask
      /\ c \in Step /\ ~c.flagged
      /\ d \in Step /\ ~d.flagged
  BY ScenarioSteps
<1> HIDE DEF a, b, c, d
<1>2. /\ Content(1, <<a, b, d>>) \in FirstErrors
      /\ Content(1, <<a, b>>) \in FirstErrors
      /\ Content(1, <<a, d>>) \in FirstErrors
      /\ Content(1, <<a>>) \in FirstErrors
      /\ Content(2, <<c, b>>) \in FirstErrors
      /\ Content(1, <<a, b, a>>) \in FirstErrors
      /\ Content(1, <<a, c>>) \in FirstErrors
      /\ Content(1, <<a, a>>) \in FirstErrors
  <2>1. /\ Content(1, <<a, b, d>>) \in Labelled
        /\ Content(1, <<a, b>>) \in Labelled
        /\ Content(1, <<a, d>>) \in Labelled
        /\ Content(1, <<a>>) \in Labelled
        /\ Content(2, <<c, b>>) \in Labelled
        /\ Content(1, <<a, b, a>>) \in Labelled
        /\ Content(1, <<a, c>>) \in Labelled
        /\ Content(1, <<a, a>>) \in Labelled
    BY <1>1, ScenarioSteps, LabelType
  <2> QED BY <1>1, <2>1, ScenarioFields DEF FirstErrors, Confirmable
<1>3. /\ Infra(1, <<a, a>>) \in FirstErrors
      /\ Infra(1, <<a, a, a>>) \in FirstErrors
      /\ Infra(3, <<c, c, a>>) \in FirstErrors
  <2>1. /\ Infra(1, <<a, a>>) \in Labelled
        /\ Infra(1, <<a, a, a>>) \in Labelled
        /\ Infra(3, <<c, c, a>>) \in Labelled
    BY <1>1, ScenarioSteps, LabelType
  <2> QED BY <1>1, <2>1, ScenarioFields DEF FirstErrors, Confirmable
<1>4. \A p, q, r \in FirstErrors :
        <<p, q, r>> \in Seq(FirstErrors) /\ Len(<<p, q, r>>) = 3
  OBVIOUS
<1>5. \A p, q, r, t, u, v \in FirstErrors :
        <<p, q, r, t, u, v>> \in Seq(FirstErrors) /\ Len(<<p, q, r, t, u, v>>) = 6
  OBVIOUS
<1>6. OverviewScenarios \in Seq(FirstErrors) /\ Len(OverviewScenarios) = 6
  BY <1>2, <1>3, <1>5 DEF OverviewScenarios, a, b, c, d
<1>7. SpecificationScenarios \in Seq(FirstErrors) /\ Len(SpecificationScenarios) = 3
  BY <1>2, <1>4 DEF SpecificationScenarios, a, b, d
<1>8. CoordinationScenarios \in Seq(FirstErrors) /\ Len(CoordinationScenarios) = 3
  BY <1>2, <1>4 DEF CoordinationScenarios, a, b, c
<1>9. VerificationScenarios \in Seq(FirstErrors) /\ Len(VerificationScenarios) = 3
  BY <1>2, <1>4 DEF VerificationScenarios, a, c, d
<1>10. CascadeScenarios \in Seq(FirstErrors) /\ Len(CascadeScenarios) = 3
  BY <1>2, <1>3, <1>4 DEF CascadeScenarios, a, d
<1> QED BY <1>6, <1>7, <1>8, <1>9, <1>10

(* In the others it names an error that comes after another one.           *)
LEMMA DecoyScenarios ==
    RecoveredScenarios \in Seq(Decoys) /\ Len(RecoveredScenarios) = 4
<1> DEFINE a == Err("a")
           b == Err("b")
           c == Ok("a")
           d == Ok("c")
           e == Err("c")
<1>1. /\ a \in Step /\ a.flagged
      /\ b \in Step /\ b.flagged /\ b.subtask # NoSubtask
      /\ c \in Step /\ d \in Step /\ e \in Step
  BY ScenarioSteps
<1> HIDE DEF a, b, c, d, e
<1>2. Content(3, <<a, c, b, d>>) \in Labelled /\ Content(3, <<a, c, b, e>>) \in Labelled
  BY <1>1, ScenarioSteps, LabelType
<1>3. 1 \in 1..(3 - 1)
  OBVIOUS
<1>4. Content(3, <<a, c, b, d>>) \in Decoys /\ Content(3, <<a, c, b, e>>) \in Decoys
  BY <1>1, <1>2, <1>3, ScenarioFields DEF Decoys, Confirmable
<1>5. \A p, q, r, t \in Decoys :
        <<p, q, r, t>> \in Seq(Decoys) /\ Len(<<p, q, r, t>>) = 4
  OBVIOUS
<1> QED BY <1>4, <1>5 DEF RecoveredScenarios, a, b, c, d, e

(* Which labels are of the earliest error, over all the scenarios.         *)
LEMMA ScenarioLabels ==
    /\ Scenarios \in Seq(Labelled)
    /\ Len(Scenarios) = 22
    /\ \A i \in 1..22 : IF i <= 18 THEN Scenarios[i] \in FirstErrors
                        ELSE Scenarios[i] \in Decoys
<1> DEFINE two == OverviewScenarios \o SpecificationScenarios
           three == two \o CoordinationScenarios
           four == three \o VerificationScenarios
           base == four \o CascadeScenarios
<1>0. \A s, t \in Seq(FirstErrors) :
        /\ s \o t \in Seq(FirstErrors) /\ Len(s \o t) = Len(s) + Len(t)
        /\ Len(s) \in Nat
  BY ConcatProperties
<1>1. /\ base \in Seq(FirstErrors)
      /\ Len(base) = Len(OverviewScenarios) + Len(SpecificationScenarios)
                       + Len(CoordinationScenarios) + Len(VerificationScenarios)
                       + Len(CascadeScenarios)
  <2>0. /\ OverviewScenarios \in Seq(FirstErrors)
        /\ SpecificationScenarios \in Seq(FirstErrors)
        /\ CoordinationScenarios \in Seq(FirstErrors)
        /\ VerificationScenarios \in Seq(FirstErrors)
        /\ CascadeScenarios \in Seq(FirstErrors)
    BY BaseScenarios
  <2>1. /\ two \in Seq(FirstErrors)
        /\ Len(two) = Len(OverviewScenarios) + Len(SpecificationScenarios)
    BY <1>0, <2>0
  <2> HIDE DEF two
  <2>2. three \in Seq(FirstErrors) /\ Len(three) = Len(two) + Len(CoordinationScenarios)
    BY <1>0, <2>0, <2>1
  <2> HIDE DEF three
  <2>3. four \in Seq(FirstErrors) /\ Len(four) = Len(three) + Len(VerificationScenarios)
    BY <1>0, <2>0, <2>2
  <2> HIDE DEF four
  <2>4. base \in Seq(FirstErrors) /\ Len(base) = Len(four) + Len(CascadeScenarios)
    BY <1>0, <2>0, <2>3
  <2> HIDE DEF base
  <2> QED BY <2>1, <2>2, <2>3, <2>4
<1>2. Scenarios = base \o RecoveredScenarios
  BY DEF Scenarios
<1> HIDE DEF base
<1>3. Len(base) = 18 /\ Len(RecoveredScenarios) = 4
  <2>1. \A l, m, n, o, p, q : l = m + n + o + p + q /\ m = 6 /\ n = 3 /\ o = 3
                              /\ p = 3 /\ q = 3 => l = 18
    OBVIOUS
  <2> QED BY <1>1, <2>1, BaseScenarios, DecoyScenarios
<1>4. FirstErrors \subseteq Labelled /\ Decoys \subseteq Labelled
  BY DEF FirstErrors, Decoys
<1>5. base \in Seq(Labelled) /\ RecoveredScenarios \in Seq(Labelled)
  BY <1>1, <1>4, DecoyScenarios, SeqMonotonic
<1>6. /\ Scenarios \in Seq(Labelled)
      /\ Len(Scenarios) = Len(base) + Len(RecoveredScenarios)
      /\ \A i \in 1..(Len(base) + Len(RecoveredScenarios)) :
           Scenarios[i] = IF i <= Len(base) THEN base[i] ELSE RecoveredScenarios[i - Len(base)]
  BY <1>2, <1>5, ConcatProperties
<1>7. /\ \A i \in 1..Len(base) : base[i] \in FirstErrors
      /\ \A i \in 1..Len(RecoveredScenarios) : RecoveredScenarios[i] \in Decoys
  BY <1>1, DecoyScenarios, ElementOfSeq
<1> DEFINE l == Len(base)
           m == Len(RecoveredScenarios)
<1>8. /\ Len(Scenarios) = l + m /\ l = 18 /\ m = 4
      /\ \A i \in 1..(l + m) :
           Scenarios[i] = IF i <= l THEN base[i] ELSE RecoveredScenarios[i - l]
      /\ \A i \in 1..l : base[i] \in FirstErrors
      /\ \A i \in 1..m : RecoveredScenarios[i] \in Decoys
  BY <1>3, <1>6, <1>7
<1> HIDE DEF l, m
<1>9. l + m = 22
  BY <1>8
<1>10. ASSUME NEW i \in 1..22
       PROVE  IF i <= 18 THEN Scenarios[i] \in FirstErrors ELSE Scenarios[i] \in Decoys
  <2>1. CASE i <= l
    BY <1>8, <1>9, <2>1
  <2>2. CASE ~(i <= l)
    <3>1. i - l \in 1..m
      BY <1>8, <2>2
    <3> QED BY <1>8, <1>9, <2>2, <3>1
  <2> QED BY <1>8, <2>1, <2>2
<1> QED BY <1>6, <1>8, <1>9, <1>10

(* What a program walks: at least one suite of labelled traces.            *)
LEMMA PlanType ==
    ASSUME datasets \in Seq(Labelled) \X Seq(Labelled)
    PROVE  Plan \in Seq(Seq(Labelled)) /\ Len(Plan) \in Nat \ {0}
<1>1. Scenarios \in Seq(Labelled)
  BY ScenarioLabels
<1>2. Iterated \in Seq(Seq(Labelled)) /\ Len(Iterated) = Runs
  BY <1>1, EvaluationAssumption DEF Iterated
<1>3. Ablation \in Seq(Seq(Labelled)) /\ Len(Ablation) = 2
  BY <1>1 DEF Ablation
<1>4. datasets \in Seq(Seq(Labelled)) /\ Len(datasets) = 2
  <2>1. PICK s, t \in Seq(Labelled) : datasets = <<s, t>>
    OBVIOUS
  <2> QED BY <2>1
<1>5. <<Scenarios>> \in Seq(Seq(Labelled)) /\ Len(<<Scenarios>>) = 1
  BY <1>1
<1>6. \/ Plan = Iterated
      \/ Plan = Ablation
      \/ Plan = datasets
      \/ Plan = <<Scenarios>>
  BY DEF Plan, CrossBenchmark
<1> DEFINE p == Plan
           L == Len(p)
<1>7. p \in Seq(Seq(Labelled)) /\ (L = Runs \/ L = 2 \/ L = 1)
  BY <1>2, <1>3, <1>4, <1>5, <1>6
<1> HIDE DEF p, L
<1>8. L \in Nat \ {0}
  BY <1>7, EvaluationAssumption
<1> QED BY <1>7, <1>8 DEF p, L

(* The suites of a program, one by one.                                    *)
LEMMA SuiteType ==
    ASSUME datasets \in Seq(Labelled) \X Seq(Labelled), NEW i \in 1..Len(Plan)
    PROVE  /\ Plan[i] \in Seq(Labelled)
           /\ Len(Plan[i]) \in Nat
           /\ \A j \in 1..Len(Plan[i]) : Plan[i][j] \in Labelled
<1>1. Plan[i] \in Seq(Labelled)
  BY PlanType, ElementOfSeq
<1> QED BY <1>1, ElementOfSeq, LenProperties

(* What a label says.                                                      *)
LEMMA LabelFields ==
    ASSUME NEW t \in Labelled
    PROVE  \E n \in 1..MaxNodes :
             /\ t.steps \in [1..n -> Step]
             /\ t.ids \in [1..n -> Endings]
             /\ t.fault \in 1..n
             /\ t.kind \in {"content", "environment"}
<1>1. /\ t.steps \in Seq(Step) /\ t.ids \in Seq(Endings)
      /\ Len(t.steps) \in Nat /\ Len(t.steps) <= MaxNodes /\ Len(t.ids) = Len(t.steps)
      /\ t.fault \in 1..Len(t.steps)
      /\ t.kind \in {"content", "environment"}
  BY DEF Labelled
<1>2. /\ t.steps \in [1..Len(t.steps) -> Step]
      /\ t.ids \in [1..Len(t.steps) -> Endings]
      /\ Len(t.steps) \in 1..MaxNodes
  <2>1. Len(t.steps) >= 1
    BY <1>1
  <2> QED BY <1>1, <2>1, AttributionAssumption
<1> QED BY <1>1, <1>2

(* The graph built from a trace is a graph, with the label's step in it.   *)
LEMMA BuiltGraph ==
    ASSUME NEW t \in Labelled, ~Unparsable(t)
    PROVE  /\ BuildGraph(t) \in Graphs
           /\ DOMAIN BuildGraph(t).subtask = DOMAIN t.steps
           /\ t.fault \in DOMAIN t.steps
           /\ \A n \in DOMAIN t.steps :
                /\ n \in Nat
                /\ BuildGraph(t).flagged[n] = t.steps[n].flagged
                /\ BuildGraph(t).subtask[n] = t.steps[n].subtask
                /\ BuildGraph(t).index[n] = StepIndex(t, n)
<1>1. PICK n \in 1..MaxNodes : /\ t.steps \in [1..n -> Step]
                               /\ t.ids \in [1..n -> Endings]
                               /\ t.fault \in 1..n
  BY LabelFields
<1>2. DOMAIN t.steps = 1..n /\ n \in 0..MaxNodes
  BY <1>1
<1>3. \A i \in 1..n :
        /\ t.steps[i].flagged \in BOOLEAN
        /\ t.steps[i].subtask \in Subtasks \cup {NoSubtask}
        /\ StepIndex(t, i) \in 0..MaxIndex
  <2>1. \A i \in 1..n : t.steps[i] \in Step
    BY <1>1
  <2>2. \A i \in 1..n : StepIndex(t, i) \in 0..MaxIndex
    <3>1. ASSUME NEW i \in 1..n
          PROVE  t.ids[i] \in Endings /\ t.ids[i] # NotANumber
      BY <1>1, <1>2 DEF Unparsable
    <3> QED BY <3>1, AttributionAssumption DEF StepIndex, Endings
  <2> QED BY <2>1, <2>2 DEF Step
<1>4. BuildGraph(t) \in [subtask : [1..n -> Subtasks \cup {NoSubtask}],
                         flagged : [1..n -> BOOLEAN],
                         index : [1..n -> 0..MaxIndex]]
  BY <1>2, <1>3 DEF BuildGraph
<1>5. BuildGraph(t) \in Graphs
  BY <1>2, <1>4 DEF Graphs
<1> QED BY <1>1, <1>2, <1>5 DEF BuildGraph

-----------------------------------------------------------------------------
(* A program is at a trace of its plan, and the graph is of that trace.    *)
Placed ==
    /\ program \in Programs
    /\ datasets \in Seq(Labelled) \X Seq(Labelled)
    /\ suite \in 1..Len(Plan)
    /\ at \in 1..(Len(Plan[suite]) + 1)
    /\ phase \in {"build", "attribute"}
    /\ outcome \in {"running", "reported", "raised", "refused"}
    /\ phase = "attribute" =>
         /\ at <= Len(Plan[suite])
         /\ ~Unparsable(Trace)
         /\ graph = BuildGraph(Trace)

(* What the oracle has said of the trace is the truth.                     *)
Truthful ==
    phase = "attribute" =>
        /\ \A k \in Keys : verdict[k] # "unjudged" =>
             verdict[k] \in Truth({n \in Nodes : Key(n) = k})
        /\ \A n \in Nodes : judged[n] # "unjudged" => judged[n] \in Truth({n})

(* One comparison for every trace so far, one report for every suite.      *)
Comparisons == Seq([step : BOOLEAN, naive : BOOLEAN])

Counted ==
    /\ details \in Comparisons
    /\ reports \in Seq(Comparisons)
    /\ Len(details) = at - 1
    /\ Len(reports) = IF outcome = "reported" THEN suite ELSE suite - 1
    /\ \A i \in 1..Len(reports) : Len(reports[i]) = Len(Plan[i])
    /\ outcome = "reported" => suite = Len(Plan)

(* The engine is right on every scenario, the baseline on the first 18.    *)
Marked(report) ==
    \A i \in 1..Len(report) : report[i].step /\ (report[i].naive <=> i <= 18)

Compared ==
    program = "comparison" =>
        Marked(details) /\ \A j \in 1..Len(reports) : Marked(reports[j])

EvaluationInv ==
    /\ AttributionInv
    /\ Concluded
    /\ Placed
    /\ Truthful
    /\ Counted
    /\ Compared

(* The engine blames the step at fault: the oracle told the truth of       *)
(* everything it was asked, and was asked all that matters.                *)
LEMMA CauseIsFault ==
    ASSUME EvaluationInv, phase = "attribute", Chosen, Findable(Trace)
    PROVE  cause = Trace.fault
<1> DEFINE f == Trace.fault
           content == Candidates(verdict, "content")
           env == Candidates(verdict, "environment")
<1>1. graph \in Graphs /\ Trace \in Labelled /\ graph = BuildGraph(Trace)
  BY SuiteType DEF EvaluationInv, AttributionInv, EngineTypeOK, Placed, Trace
<1>0. ~Unparsable(Trace)
  BY DEF EvaluationInv, Placed
<1>2. /\ f \in Nodes
      /\ graph.flagged[f]
      /\ graph.subtask[f] # NoSubtask
      /\ Trace.kind \in {"content", "environment"}
  BY <1>0, <1>1, BuiltGraph, LabelFields DEF Nodes, Findable
<1>3. /\ cause \in Nodes
      /\ \A n \in Nodes : verdict[Key(n)] \in Truth({m \in Nodes : Key(m) = Key(n)})
      /\ \A n \in Nodes : judged[n] # "unjudged" => judged[n] \in Truth({n})
  BY <1>1, NodeType DEF EvaluationInv, Concluded, Truthful, Unjudged
<1>4. f \in Candidates(verdict, Trace.kind)
  <2>0. \A S : f \in S => Truth(S) = {Trace.kind}
    BY DEF Truth
  <2>1. f \in {m \in Nodes : Key(m) = Key(f)}
    BY <1>2
  <2>2. Truth({m \in Nodes : Key(m) = Key(f)}) = {Trace.kind}
    BY <2>0, <2>1
  <2>3. verdict[Key(f)] = Trace.kind
    BY <1>2, <1>3, <2>2
  <2> QED BY <1>2, <2>3 DEF Candidates, Key
<1>5. CASE Trace.kind = "content"
  <2>1. f \in content
    BY <1>4, <1>5
  <2>2. judged[f] # "unjudged" => judged[f] = "content"
    <3>1. Truth({f}) = {"content"}
      BY <1>5 DEF Truth
    <3> QED BY <1>2, <1>3, <3>1
  <2>3. \A n \in Nodes : Before(n, f) /\ judged[n] # "unjudged" => judged[n] # "content"
    <3> SUFFICES ASSUME NEW n \in Nodes, Before(n, f), judged[n] # "unjudged"
                 PROVE  judged[n] # "content"
      OBVIOUS
    <3>1. n # f /\ ~Before(f, n)
      BY <1>1, <1>2, BeforeIsOrder
    <3> QED BY <1>3, <1>5, <3>1 DEF Truth
  <2>4. \E n \in content : judged[n] = "content"
    BY <2>1, <2>2 DEF EvaluationInv, Concluded
  <2>5. /\ cause \in content /\ judged[cause] = "content"
        /\ \A n \in content : Before(n, cause) => judged[n] \in {"correct", "environment"}
    BY <2>1, <2>4 DEF EvaluationInv, AttributionInv, CauseIsUpstream
  <2>6. ~Before(cause, f) /\ ~Before(f, cause)
    BY <1>3, <2>1, <2>2, <2>3, <2>5
  <2> QED BY <1>1, <1>2, <1>3, <2>6, BeforeIsOrder
<1>6. CASE Trace.kind = "environment"
  <2>1. content = {}
    <3>1. \A S : "content" \notin Truth(S)
      BY <1>6 DEF Truth
    <3> QED BY <1>3, <3>1 DEF Candidates, Key
  <2>2. cause \in env /\ ~Before(f, cause)
    BY <1>4, <1>6, <2>1 DEF EvaluationInv, AttributionInv, Concluded, SymptomIsLastResort
  <2>3. ~Before(cause, f)
    <3> SUFFICES ASSUME Before(cause, f) PROVE FALSE
      OBVIOUS
    <3> DEFINE group == {m \in Nodes : Key(m) = Key(cause)}
    <3>1. graph.flagged[cause] /\ verdict[Key(cause)] = "environment"
      BY <2>2 DEF Candidates, Key
    <3>2. \A n \in group : Before(n, f)
      BY <1>3, <1>6, <3>1 DEF Findable
    <3>3. f \notin group /\ ~\E n \in group : Before(f, n)
      BY <1>1, <1>2, <3>2, BeforeIsOrder
    <3>4. Truth(group) = {"correct"}
      BY <1>6, <3>3 DEF Truth
    <3> QED BY <1>3, <3>1, <3>4
  <2> QED BY <1>1, <1>2, <1>3, <2>2, <2>3, BeforeIsOrder
<1> QED BY <1>2, <1>5, <1>6

(* The baseline's answer is the earliest error. *)
LEMMA BaselineIsRight ==
    ASSUME graph \in Graphs, Trace \in Labelled, ~Unparsable(Trace),
           graph = BuildGraph(Trace)
    PROVE  /\ Trace \in FirstErrors => NaiveCause = Trace.fault
           /\ Trace \in Decoys => NaiveCause # Trace.fault
<1> DEFINE f == Trace.fault
<1>1. ASSUME Confirmable(Trace)
      PROVE  /\ f \in Flagged /\ f \in Nat
             /\ \A n \in Nodes : Before(n, f) <=> n < f
             /\ \A n \in Nodes : n \in Nat
  <2>1. f \in Nodes /\ \A n \in Nodes : n \in Nat /\ graph.index[n] = n
    BY <1>1, BuiltGraph, EvaluationAssumption DEF Nodes, Confirmable, StepIndex
  <2> QED BY <1>1, <2>1, BuiltGraph DEF Nodes, Flagged, Confirmable, Before
<1>2. \A n \in Nodes : n < f /\ f \in Nat => n \in 1..(f - 1)
  BY GraphType
<1>3. \A n \in Nodes : graph.flagged[n] = Trace.steps[n].flagged
  BY BuiltGraph DEF Nodes
<1>4. Flagged # {} => /\ NaiveCause \in Flagged
                      /\ \A n \in Flagged : ~Before(n, NaiveCause)
  BY NoneBeforeFirst DEF NaiveCause, Flagged
<1>5. ASSUME Trace \in FirstErrors PROVE NaiveCause = f
  <2>1. Confirmable(Trace) /\ \A n \in 1..(f - 1) : ~Trace.steps[n].flagged
    BY <1>5 DEF FirstErrors
  <2>2. ~Before(NaiveCause, f) /\ ~Before(f, NaiveCause)
    BY <1>1, <1>2, <1>3, <1>4, <2>1 DEF Flagged
  <2> QED BY <1>1, <1>4, <2>1, <2>2, BeforeIsOrder DEF Flagged
<1>6. ASSUME Trace \in Decoys PROVE NaiveCause # f
  <2>1. PICK n \in 1..(f - 1) : Confirmable(Trace) /\ Trace.steps[n].flagged
    BY <1>6 DEF Decoys
  <2>2. n \in Nodes /\ n < f
    <3>1. PICK k \in 0..MaxNodes : Nodes = 1..k
      BY GraphType
    <3>2. f \in 1..k
      BY <1>1, <2>1, <3>1 DEF Flagged
    <3> QED BY <3>1, <3>2
  <2>3. n \in Flagged /\ Before(n, f)
    BY <1>1, <1>3, <2>1, <2>2 DEF Flagged
  <2> QED BY <1>4, <2>3
<1> QED BY <1>5, <1>6

(* On every scenario the engine is right; the baseline is on the first 18. *)
LEMMA ScenarioIsMarked ==
    ASSUME EvaluationInv, program = "comparison", phase = "attribute", Chosen
    PROVE  cause = Trace.fault /\ (NaiveCause = Trace.fault <=> at <= 18)
<1>1. Plan = <<Scenarios>>
  BY DEF Plan
<1>2. Trace = Scenarios[at] /\ at \in 1..22
  <2>1. Plan[1] = Scenarios /\ Len(Plan) = 1
    BY <1>1
  <2>2. suite = 1
    BY <2>1 DEF EvaluationInv, Placed
  <2>3. Trace = Scenarios[at] /\ at \in 1..(Len(Scenarios) + 1) /\ at <= Len(Scenarios)
    BY <2>1, <2>2 DEF EvaluationInv, Placed, Trace
  <2> DEFINE l == Len(Scenarios)
  <2>4. at \in 1..(l + 1) /\ at <= l /\ l = 22
    BY <2>3, ScenarioLabels
  <2> HIDE DEF l
  <2> QED BY <2>3, <2>4
<1>3. IF at <= 18 THEN Trace \in FirstErrors ELSE Trace \in Decoys
  BY <1>2, ScenarioLabels
<1>4. /\ graph \in Graphs /\ Trace \in Labelled
      /\ ~Unparsable(Trace) /\ graph = BuildGraph(Trace)
  BY SuiteType DEF EvaluationInv, AttributionInv, EngineTypeOK, Placed, Trace
<1>5. Findable(Trace)
  <2>1. Confirmable(Trace)
    BY <1>3 DEF FirstErrors, Decoys
  <2>2. CASE Trace.kind # "environment"
    BY <2>1, <2>2 DEF Confirmable, Findable
  <2>3. CASE Trace.kind = "environment"
    <3>1. \A n \in 1..(Trace.fault - 1) : ~Trace.steps[n].flagged
      BY <1>3, <2>3 DEF FirstErrors, Decoys
    <3>2. ASSUME NEW m \in Nodes, Before(m, Trace.fault)
          PROVE  ~graph.flagged[m]
      <4>1. /\ m \in Nat /\ Trace.fault \in Nodes
            /\ graph.index[m] = m /\ graph.index[Trace.fault] = Trace.fault
            /\ graph.flagged[m] = Trace.steps[m].flagged
        BY <1>4, <2>1, BuiltGraph, EvaluationAssumption DEF Nodes, Confirmable, StepIndex
      <4>2. m \in 1..(Trace.fault - 1)
        <5>1. PICK k \in 0..MaxNodes : Nodes = 1..k
          BY <1>4, GraphType
        <5> QED BY <3>2, <4>1, <5>1 DEF Before
      <4> QED BY <3>1, <4>1, <4>2
    <3> QED BY <2>1, <3>2 DEF Confirmable, Findable
  <2> QED BY <2>2, <2>3
<1> QED BY <1>3, <1>4, <1>5, CauseIsFault, BaselineIsRight

-----------------------------------------------------------------------------
(* The engine's start, as the next state. *)
LEMMA EngineRestarts == EngineInit' => AttributionInv'
<1>1. EngineInit => AttributionInv
  BY EngineStarts DEF EngineInit
<1> QED BY <1>1, PTL

(* Fresh is the engine's start on the graph it is given. *)
LEMMA FreshStarts ==
    ASSUME NEW g, g \in Graphs, Fresh(g)
    PROVE  AttributionInv' /\ Concluded'
<1>1. EngineInit'
  BY DEF Fresh, EngineInit, EngineStart, Nodes
<1>2. Concluded'
  BY DEF Fresh, Concluded, Chosen
<1> QED BY <1>1, <1>2, EngineRestarts

(* The plan of a program is fixed, and the truth about a trace too.        *)
LEMMA PlanStays ==
    ASSUME UNCHANGED <<program, datasets>>
    PROVE  Plan' = Plan
BY DEF Plan, CrossBenchmark

LEMMA TruthStays ==
    ASSUME UNCHANGED <<graph, program, datasets, suite, at>>
    PROVE  Trace' = Trace /\ \A S : Truth(S)' = Truth(S)
<1>1. Trace' = Trace
  BY PlanStays DEF Trace
<1> QED BY <1>1 DEF Truth, Before

(* While the engine rests its part of the invariant stays.                 *)
LEMMA EngineRests ==
    ASSUME EvaluationInv, UNCHANGED engine
    PROVE  AttributionInv' /\ Concluded'
BY EngineKeeps, ConcludedKeeps DEF EvaluationInv

(* Before the first trace of the first suite.                              *)
LEMMA EvaluationStarts ==
    ASSUME Init
    PROVE  EvaluationInv
<1>1. datasets \in Seq(Labelled) \X Seq(Labelled)
  <2>1. datasets \in Datasets \/ datasets = << <<>>, <<>> >>
    BY DEF Init
  <2>2. <<>> \in Seq(Labelled)
    BY EmptySeq
  <2>3. CASE datasets \in Datasets
    BY <2>3, EvaluationAssumption
  <2>4. CASE datasets = << <<>>, <<>> >>
    BY <2>2, <2>4
  <2> QED BY <2>1, <2>3, <2>4
<1>2. suite \in 1..Len(Plan) /\ at \in 1..(Len(Plan[suite]) + 1)
  <2>1. suite \in 1..Len(Plan)
    BY <1>1, PlanType DEF Init
  <2>2. Len(Plan[suite]) \in Nat
    BY <1>1, <2>1, SuiteType
  <2> QED BY <2>1, <2>2 DEF Init
<1>3. Placed
  BY <1>1, <1>2 DEF Init, Placed, Programs
<1>4. graph \in Graphs
  <2> DEFINE t == [steps |-> <<>>, ids |-> <<>>]
  <2>1. DOMAIN t.steps = 1..0
    OBVIOUS
  <2>2. BuildGraph(t) \in [subtask : [1..0 -> Subtasks \cup {NoSubtask}],
                           flagged : [1..0 -> BOOLEAN],
                           index : [1..0 -> 0..MaxIndex]]
    BY <2>1 DEF BuildGraph
  <2>3. 0 \in 0..MaxNodes
    BY AttributionAssumption
  <2> QED BY <2>2, <2>3 DEF Init, Graphs
<1>5. AttributionInv /\ Concluded
  BY <1>4, EngineStarts DEF Init, EngineStart, Concluded, Chosen
<1>6. Counted /\ Compared /\ Truthful
  BY DEF Init, Counted, Comparisons, Compared, Marked, Truthful
<1> QED BY <1>3, <1>5, <1>6 DEF EvaluationInv

(* The engine starts on the next trace, or the program ends in an          *)
(* exception.                                                              *)
LEMMA BuildKeeps ==
    ASSUME EvaluationInv, Build
    PROVE  EvaluationInv'
<1>1. /\ UNCHANGED <<program, datasets, suite, at, details, reports>>
      /\ outcome = "running" /\ outcome' \in {"running", "raised"}
      /\ phase' \in {"build", "attribute"}
      /\ at <= Len(Plan[suite])
  BY DEF Build, Running
<1>2. Plan' = Plan /\ Trace' = Trace
  BY <1>1, PlanStays DEF Trace
<1>3. Trace \in Labelled
  <2>1. /\ datasets \in Seq(Labelled) \X Seq(Labelled) /\ suite \in 1..Len(Plan)
        /\ at \in 1..(Len(Plan[suite]) + 1)
    BY DEF EvaluationInv, Placed
  <2>2. /\ Len(Plan[suite]) \in Nat
        /\ \A j \in 1..Len(Plan[suite]) : Plan[suite][j] \in Labelled
    BY <2>1, SuiteType
  <2>3. at \in 1..Len(Plan[suite])
    BY <1>1, <2>1, <2>2
  <2> QED BY <2>2, <2>3 DEF Trace
<1>4. Counted' /\ Compared'
  BY <1>1, <1>2 DEF EvaluationInv, Counted, Compared, Marked
<1>5. CASE Unparsable(Trace)
  <2>1. UNCHANGED engine /\ phase' = "build"
    BY <1>5 DEF Build
  <2> QED BY <1>1, <1>2, <1>4, <2>1, EngineRests DEF EvaluationInv, Placed, Truthful
<1>6. CASE ~Unparsable(Trace)
  <2>1. Fresh(BuildGraph(Trace))
    BY <1>6 DEF Build
  <2>2. AttributionInv' /\ Concluded'
    BY <1>3, <1>6, <2>1, BuiltGraph, FreshStarts
  <2>0. ~Unparsable(Trace)'
    BY <1>2, <1>6 DEF Unparsable
  <2>3. Placed'
    BY <1>1, <1>2, <2>0, <2>1 DEF EvaluationInv, Placed, Fresh
  <2>4. Truthful'
    BY <2>1 DEF Fresh, Truthful, Nodes
  <2> QED BY <1>4, <2>2, <2>3, <2>4 DEF EvaluationInv
<1> QED BY <1>5, <1>6

(* A truthful oracle adds a truth to those it has told.                    *)
LEMMA AttributeKeeps ==
    ASSUME EvaluationInv, Attribute
    PROVE  EvaluationInv'
<1>1. UNCHANGED <<program, datasets, suite, at, phase, details, reports, outcome>>
  BY DEF Attribute
<1>2. UNCHANGED graph
  BY DEF Attribute, EngineNext, Classify, JudgeSubtask, JudgeNode, Synthesize, Screen, Malformed
<1>3. AttributionInv' /\ Concluded'
  BY EngineKeeps, ConcludedKeeps DEF EvaluationInv, Attribute
<1>4. Plan' = Plan /\ Trace' = Trace /\ \A S : Truth(S)' = Truth(S)
  BY <1>1, <1>2, PlanStays, TruthStays
<1>5. Nodes' = Nodes /\ \A n : Key(n)' = Key(n)
  BY <1>2, GraphStays
<1>6. Placed'
  BY <1>1, <1>2, <1>4 DEF EvaluationInv, Placed
<1>7. Counted' /\ Compared'
  BY <1>1, <1>4 DEF EvaluationInv, Counted, Compared, Marked
<1>8. Truthful'
  <2> SUFFICES ASSUME phase = "attribute"
               PROVE  /\ \A k \in Keys : verdict'[k] # "unjudged" =>
                           verdict'[k] \in Truth({n \in Nodes : Key(n) = k})
                      /\ \A n \in Nodes : judged'[n] # "unjudged" => judged'[n] \in Truth({n})
    BY <1>1, <1>4, <1>5 DEF Truthful
  <2> QED BY DEF EvaluationInv, Truthful, Attribute, OracleIsTruthful
<1> QED BY <1>3, <1>6, <1>7, <1>8 DEF EvaluationInv

(* One more comparison for one more trace.                                 *)
LEMMA CompareKeeps ==
    ASSUME EvaluationInv, Compare
    PROVE  EvaluationInv'
<1> DEFINE d == [step |-> cause = Trace.fault,
                 naive |-> program = "comparison" /\ NaiveCause = Trace.fault]
<1>1. /\ UNCHANGED <<engine, program, datasets, suite, reports, outcome>>
      /\ outcome = "running" /\ phase = "attribute" /\ Chosen
      /\ phase' = "build"
      /\ at' = at + 1
      /\ details' = Append(details, d)
  BY DEF Compare, Running, Chosen
<1>2. Plan' = Plan
  BY <1>1, PlanStays
<1>3. Placed'
  <2>1. at \in 1..(Len(Plan[suite]) + 1) /\ at <= Len(Plan[suite]) /\ Len(Plan[suite]) \in Nat
    BY <1>1, SuiteType DEF EvaluationInv, Placed
  <2> DEFINE l == Len(Plan[suite])
  <2>2. at' \in 1..(l + 1)
    <3> HIDE DEF l
    <3> QED BY <1>1, <2>1 DEF l
  <2> QED BY <1>1, <1>2, <2>2 DEF EvaluationInv, Placed
<1>4. d \in [step : BOOLEAN, naive : BOOLEAN]
  OBVIOUS
<1> HIDE DEF d
<1>5. /\ details' \in Comparisons
      /\ Len(details') = Len(details) + 1
      /\ \A i \in 1..Len(details) : details'[i] = details[i]
      /\ details'[Len(details) + 1] = d
      /\ Len(details) = at - 1 /\ Len(details) \in Nat
  BY <1>1, <1>4, AppendProperties, LenProperties DEF EvaluationInv, Counted, Comparisons
<1>6. Counted'
  BY <1>1, <1>2, <1>5 DEF EvaluationInv, Counted, Placed
<1>7. Compared'
  <2> SUFFICES ASSUME program = "comparison"
               PROVE  Marked(details') /\ \A j \in 1..Len(reports) : Marked(reports[j])
    BY <1>1 DEF Compared, Marked
  <2>1. d.step /\ (d.naive <=> at <= 18)
    BY <1>1, ScenarioIsMarked DEF d
  <2>2. Marked(details) /\ \A j \in 1..Len(reports) : Marked(reports[j])
    BY DEF EvaluationInv, Compared
  <2>3. ASSUME NEW i \in 1..Len(details')
        PROVE  details'[i].step /\ (details'[i].naive <=> i <= 18)
    <3>1. CASE i \in 1..Len(details)
      BY <1>5, <2>2, <3>1 DEF Marked
    <3>2. CASE i \notin 1..Len(details)
      <4>1. i = Len(details) + 1 /\ i = at
        BY <1>5, <3>2 DEF EvaluationInv, Placed
      <4> QED BY <1>5, <2>1, <4>1
    <3> QED BY <3>1, <3>2
  <2> QED BY <2>2, <2>3 DEF Marked
<1> QED BY <1>1, <1>3, <1>6, <1>7, EngineRests DEF EvaluationInv, Truthful

(* One more report for one more suite.                                     *)
LEMMA CloseSuiteKeeps ==
    ASSUME EvaluationInv, CloseSuite
    PROVE  EvaluationInv'
<1>1. /\ UNCHANGED <<engine, program, datasets, phase>>
      /\ outcome = "running" /\ phase = "build"
      /\ reports' = Append(reports, details) /\ details' = <<>> /\ at' = 1
      /\ at > Len(Plan[suite])
      /\ IF suite = Len(Plan) THEN outcome' = "reported" /\ UNCHANGED suite
         ELSE suite' = suite + 1 /\ UNCHANGED outcome
  BY DEF CloseSuite, Running
<1>2. Plan' = Plan
  BY <1>1, PlanStays
<1>3. /\ suite' \in 1..Len(Plan)
      /\ outcome' \in {"running", "reported"}
      /\ outcome' = "reported" => suite' = Len(Plan)
  <2>1. suite \in 1..Len(Plan) /\ Len(Plan) \in Nat
    BY PlanType DEF EvaluationInv, Placed
  <2> QED BY <1>1, <2>1
<1>4. Placed'
  <2>1. Len(Plan[suite']) \in Nat
    BY <1>3, SuiteType DEF EvaluationInv, Placed
  <2> QED BY <1>1, <1>2, <1>3, <2>1 DEF EvaluationInv, Placed
<1>5. Len(details) = Len(Plan[suite])
  <2>1. /\ at \in 1..(Len(Plan[suite]) + 1) /\ Len(Plan[suite]) \in Nat
        /\ Len(details) = at - 1
    BY SuiteType DEF EvaluationInv, Placed, Counted
  <2> QED BY <1>1, <2>1
<1>6. /\ reports' \in Seq(Comparisons)
      /\ Len(reports') = Len(reports) + 1
      /\ \A i \in 1..Len(reports) : reports'[i] = reports[i]
      /\ reports'[Len(reports) + 1] = details
      /\ Len(reports) = suite - 1 /\ Len(reports) \in Nat /\ suite \in Nat
  BY <1>1, AppendProperties, LenProperties DEF EvaluationInv, Counted, Placed
<1>7. \A i \in 1..Len(reports') : i \in 1..Len(reports) \/ i = Len(reports) + 1
  BY <1>6
<1>8. Counted'
  <2>1. details' \in Comparisons /\ Len(details') = at' - 1
    BY <1>1 DEF Comparisons
  <2>2. Len(reports') = IF outcome' = "reported" THEN suite' ELSE suite' - 1
    BY <1>1, <1>6
  <2>3. \A i \in 1..Len(reports') : Len(reports'[i]) = Len(Plan[i])
    BY <1>5, <1>6, <1>7 DEF EvaluationInv, Counted
  <2> QED BY <1>2, <1>3, <1>6, <2>1, <2>2, <2>3 DEF Counted
<1>9. Compared'
  BY <1>1, <1>6, <1>7 DEF EvaluationInv, Compared, Marked
<1> QED BY <1>1, <1>4, <1>8, <1>9, EngineRests DEF EvaluationInv, Truthful

(* What ends without a report changes nothing else.                        *)
LEMMA RaiseKeeps ==
    ASSUME EvaluationInv, Raise \/ UNCHANGED vars
    PROVE  EvaluationInv'
<1>1. /\ UNCHANGED <<engine, program, datasets, suite, at, phase, details, reports>>
      /\ outcome' = outcome \/ (outcome = "running" /\ outcome' = "raised")
  BY DEF Raise, Running, vars
<1>2. UNCHANGED <<graph, verdict, judged>>
  BY <1>1 DEF engine
<1>3. Plan' = Plan /\ Trace' = Trace /\ \A S : Truth(S)' = Truth(S)
  BY <1>1, <1>2, PlanStays, TruthStays
<1>4. Nodes' = Nodes /\ \A n : Key(n)' = Key(n)
  BY <1>2, GraphStays
<1>5. Placed'
  BY <1>1, <1>2, <1>3 DEF EvaluationInv, Placed
<1>6. Counted' /\ Compared'
  BY <1>1, <1>3 DEF EvaluationInv, Counted, Compared, Marked
<1>7. Truthful'
  BY <1>1, <1>2, <1>3, <1>4 DEF EvaluationInv, Truthful
<1> QED BY <1>1, <1>5, <1>6, <1>7, EngineRests DEF EvaluationInv

(* The inductive invariant of the evaluation programs.                     *)
THEOREM EvaluationInductive == Spec => []EvaluationInv
<1>1. Init => EvaluationInv
  BY EvaluationStarts
<1>2. EvaluationInv /\ [Next]_vars => EvaluationInv'
  BY BuildKeeps, AttributeKeeps, CompareKeeps, CloseSuiteKeeps, RaiseKeeps DEF Next
<1> QED BY <1>1, <1>2, PTL DEF Spec

(* Every variable stays in its range, for any benchmark                    *)
(* (Evaluation!TypeOK).                                                    *)
THEOREM EvaluationTypeCorrect == Spec => []TypeOK
<1>1. EvaluationInv => TypeOK
  BY DEF EvaluationInv, AttributionInv, EngineTypeOK, Concluded, Chosen, Placed, Counted,
         Comparisons, TypeOK
<1> QED BY <1>1, EvaluationInductive, PTL

(* Where the oracle tells the truth the engine blames the step at fault,   *)
(* on every trace of every benchmark whose label can be confirmed          *)
(* (Evaluation!TrueCauseIsFound).                                          *)
THEOREM TruthIsFound == Spec => []TrueCauseIsFound
<1>1. EvaluationInv => TrueCauseIsFound
  BY CauseIsFault DEF TrueCauseIsFound
<1> QED BY <1>1, EvaluationInductive, PTL

(* A report has one comparison for each trace of its suite, and an         *)
(* evaluation that is reported has one for each suite                      *)
(* (Evaluation!ReportIsWhole).                                             *)
THEOREM ReportsAreWhole == Spec => []ReportIsWhole
<1>1. EvaluationInv => ReportIsWhole
  <2> SUFFICES ASSUME EvaluationInv PROVE ReportIsWhole
    OBVIOUS
  <2>1. DOMAIN reports = 1..Len(reports)
    BY LenProperties DEF EvaluationInv, Counted
  <2> QED BY <2>1 DEF EvaluationInv, Counted, ReportIsWhole
<1> QED BY <1>1, EvaluationInductive, PTL

(* The comparison counts the engine right on every scenario and the        *)
(* earliest-error baseline on the base scenarios alone                     *)
(* (Evaluation!OnlyDecoysDefeatTheBaseline).                               *)
THEOREM DecoysDefeatTheBaseline == Spec => []OnlyDecoysDefeatTheBaseline
<1>1. EvaluationInv => OnlyDecoysDefeatTheBaseline
  <2> SUFFICES ASSUME EvaluationInv, outcome = "reported", program = "comparison"
               PROVE  /\ Hits(reports[1], "step") = Len(Scenarios)
                      /\ Hits(reports[1], "naive") = Len(Scenarios) - Len(RecoveredScenarios)
    BY DEF OnlyDecoysDefeatTheBaseline
  <2> DEFINE r == reports[1]
  <2>1. Plan = <<Scenarios>>
    BY DEF Plan
  <2>2. Len(reports) = 1
    BY <2>1 DEF EvaluationInv, Counted
  <2>3. r \in Comparisons /\ Len(r) = Len(Scenarios) /\ Marked(r)
    BY <2>1, <2>2, ElementOfSeq DEF EvaluationInv, Counted, Compared
  <2>4. DOMAIN r = 1..22
    BY <2>3, ScenarioLabels, LenProperties DEF Comparisons
  <2>5. \A i \in 1..22 : r[i]["step"] /\ (r[i]["naive"] <=> i <= 18)
    BY <2>3, ScenarioLabels DEF Marked
  <2> HIDE DEF r
  <2>6. {i \in 1..22 : r[i]["step"]} = 1..22 /\ {i \in 1..22 : r[i]["naive"]} = 1..18
    BY <2>5
  <2>7. Cardinality(1..22) = 22 /\ Cardinality(1..18) = 18
    <3>1. \A n \in Nat : n > 0 => Cardinality(1..n) = n
      BY FS_Interval
    <3>2. 22 \in Nat /\ 18 \in Nat /\ 22 > 0 /\ 18 > 0
      OBVIOUS
    <3> QED BY <3>1, <3>2, Zenon
  <2>8. Hits(r, "step") = 22 /\ Hits(r, "naive") = 18
    BY <2>4, <2>6, <2>7 DEF Hits
  <2>9. Len(Scenarios) = 22 /\ Len(RecoveredScenarios) = 4
    BY ScenarioLabels, DecoyScenarios
  <2> QED BY <2>8, <2>9 DEF r
<1> QED BY <1>1, EvaluationInductive, PTL
=============================================================================
