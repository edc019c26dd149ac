----------------------------- MODULE GraphBuild -----------------------------
(***************************************************************************)
(* From the spans of one trace to a causal graph, to the tables, and back: *)
(* spans_to_graph, the rows save_session writes, and get_graph.            *)
(*                                                                         *)
(* A span is its position in the export and its own id.  The text of the   *)
(* steps matters only for which results feed which observations: feeds is  *)
(* an arbitrary relation between spans.                                    *)
(***************************************************************************)
EXTENDS Naturals, SequencesExt

CONSTANTS
    MaxSpans,   \* bound: spans of the trace
    Times,      \* readable start times
    Unreadable, \* a start time that is missing or cannot be read
    T0,         \* _T0_NS, the time of a span whose time cannot be read
    Indexes,    \* values of agent_reflex.step.index
    NoIndex,    \* the attribute is absent, or is not a number once decoded
    NoParent,   \* a root span
    Elsewhere   \* a parent that is not in this export

ASSUME GraphAssumption ==
    /\ MaxSpans \in Nat \ {0}
    /\ Times \subseteq Nat
    /\ Unreadable \notin Nat
    /\ T0 \in Nat
    /\ Indexes \subseteq Nat
    /\ NoIndex \notin Nat
    /\ {NoParent, Elsewhere} \cap Nat = {}

VARIABLES
    spans,   \* the trace: starts, parents, indexes and feeds
    pc,      \* the pass over the spans that runs next
    todo,    \* spans the pass has left, in order
    nodes,   \* node ids in the order of _nodes
    index,   \* step_index of each node
    edges,   \* edge_type of each edge, a pair of node ids
    stored,  \* the rows: step_index of each node, edge_type of each edge
    loaded   \* what get_graph builds: its nodes in order, and its edges

vars == <<spans, pc, todo, nodes, index, edges, stored, loaded>>

Ids == 1..MaxSpans
Empty == [e \in {} |-> ""]
Types == {"control_flow", "data_dependency"}

(* Few relations stand for the 2^(n*n): none, one pair either way, a chain *)
(* and all.                                                                *)
Feedings(n) ==
    {{}, (1..n) \X (1..n), {<<i, i + 1>> : i \in 1..(n - 1)}}
      \cup {{<<1, n>>}, {<<n, 1>>}}

Traces == UNION {
    [start : [1..n -> Times \cup {Unreadable}],
     parent : {p \in [1..n -> 1..n \cup {NoParent, Elsewhere}] :
                 \A i \in 1..n : p[i] # i},
     index : [1..n -> Indexes \cup {NoIndex}],
     feeds : Feedings(n)] : n \in 1..MaxSpans}

Spans == DOMAIN spans.start

-----------------------------------------------------------------------------
(* Span by span, a time is readable as a number above 1e15 or an ISO       *)
(* string.  OTLP JSON and the protobuf conversion carry nanoseconds in a   *)
(* string, which is neither.                                               *)
StartTime(i) == IF spans.start[i] = Unreadable THEN T0 ELSE spans.start[i]

(* sorted(): the elements of S in the order of a relation, each one after  *)
(* as many as come before it.                                              *)
InOrder(S, before) ==
    [k \in 1..Cardinality(S) |->
        CHOOSE i \in S : Cardinality({j \in S : <<j, i>> \in before}) = k - 1]

(* sorted() is stable. *)
StartsBefore ==
    {e \in Spans \X Spans :
        \/ StartTime(e[1]) < StartTime(e[2])
        \/ StartTime(e[1]) = StartTime(e[2]) /\ e[1] < e[2]}

ByStart == InOrder(Spans, StartsBefore)

(* Mutant: add_dependency leaves an edge that is already there as it is.   *)
Add_First(es, u, v, type) ==
    [e \in DOMAIN es \cup {<<u, v>>} |-> IF e \in DOMAIN es THEN es[e] ELSE type]

(* One edge for a pair: the last type wins.                                *)
Add(es, u, v, type) ==
    [e \in DOMAIN es \cup {<<u, v>>} |-> IF e = <<u, v>> THEN type ELSE es[e]]

Init ==
    /\ spans \in Traces
    /\ pc = "add"
    /\ todo = ByStart
    /\ nodes = <<>>
    /\ index = [i \in Spans |-> 0]
    /\ edges = Empty
    /\ stored = [index |-> index, edges |-> Empty]
    /\ loaded = [nodes |-> <<>>, edges |-> Empty]

(* add_step: the node, and an edge from its parent if that is already in.  *)
AddStep ==
    /\ pc = "add"
    /\ LET i == Head(todo)
           p == spans.parent[i]
       IN  /\ nodes' = Append(nodes, i)
           /\ index' = [index EXCEPT ![i] =
                IF spans.index[i] = NoIndex THEN Len(nodes) + 1 ELSE spans.index[i]]
           /\ edges' = IF p \in ToSet(nodes)
                       THEN Add(edges, p, i, "control_flow") ELSE edges
    /\ IF Len(todo) > 1
       THEN todo' = Tail(todo) /\ UNCHANGED pc
       ELSE todo' = ByStart /\ pc' = "relink"
    /\ UNCHANGED <<spans, stored, loaded>>

(* Mutant: only parents that came before their children are linked. *)
Relink_InOrder ==
    /\ pc = "relink"
    /\ pc' = "infer"
    /\ todo' = <<>>
    /\ UNCHANGED <<spans, nodes, index, edges, stored, loaded>>

(* The second pass links every parent that is in the export; the edge type *)
(* of add_dependency replaces the one already there.                       *)
Relink ==
    /\ pc = "relink"
    /\ LET i == Head(todo)
           p == spans.parent[i]
       IN  edges' = IF p \in ToSet(nodes)
                    THEN Add(edges, p, i, "data_dependency") ELSE edges
    /\ todo' = Tail(todo)
    /\ pc' = IF Len(todo) > 1 THEN pc ELSE "infer"
    /\ UNCHANGED <<spans, nodes, index, stored, loaded>>

(* sorted(nodes, key=step_index) is stable: ties keep the insertion order. *)
IndexedBefore(order, idx) ==
    {e \in ToSet(order) \X ToSet(order) :
        \/ idx[e[1]] < idx[e[2]]
        \/ /\ idx[e[1]] = idx[e[2]]
           /\ \E a, b \in DOMAIN order : a < b /\ e = <<order[a], order[b]>>}

ByIndex(order, idx) == InOrder(ToSet(order), IndexedBefore(order, idx))

(* Mutant: every other node is looked at, not only the previous ones. *)
Feeders_Any(order) ==
    {e \in spans.feeds : e[1] # e[2] /\ {e[1], e[2]} \subseteq ToSet(order)}

(* The pairs of a previous and a later node whose result and observation   *)
(* share a word.                                                           *)
Feeders(order) ==
    {e \in spans.feeds : \E a, b \in DOMAIN order :
                            a < b /\ e = <<order[a], order[b]>>}

InferDataDependencies ==
    /\ pc = "infer"
    /\ LET inferred == Feeders(ByIndex(nodes, index))
       IN  edges' = [e \in DOMAIN edges \cup inferred |->
                       IF e \in inferred THEN "data_dependency" ELSE edges[e]]
    /\ pc' = "save"
    /\ UNCHANGED <<spans, todo, nodes, index, stored, loaded>>

(* The trace_steps and graph_edges rows of save_session.                   *)
Save ==
    /\ pc = "save"
    /\ stored' = [index |-> index, edges |-> edges]
    /\ pc' = "load"
    /\ UNCHANGED <<spans, todo, nodes, index, edges, loaded>>

(* get_graph: steps by step_index (ties in any order), each linked to a    *)
(* parent already in; then add_dependency for every row of graph_edges.    *)
Load ==
    /\ pc = "load"
    /\ \E order \in {o \in [Spans -> Spans] : ToSet(o) = Spans} :
         LET parentFirst == {e \in Spans \X Spans :
               /\ spans.parent[e[2]] = e[1]
               /\ SelectInSeq(order, LAMBDA x : x = e[1])
                    < SelectInSeq(order, LAMBDA x : x = e[2])}
         IN  /\ \A a, b \in Spans :
                  a < b => stored.index[order[a]] <= stored.index[order[b]]
             /\ loaded' = [nodes |-> order,
                           edges |-> [e \in parentFirst \cup DOMAIN stored.edges |->
                                       IF e \in DOMAIN stored.edges
                                       THEN "data_dependency" ELSE "control_flow"]]
    /\ pc' = "done"
    /\ UNCHANGED <<spans, todo, nodes, index, edges, stored>>

Next ==
    \/ AddStep
    \/ Relink
    \/ InferDataDependencies
    \/ Save
    \/ Load

Spec == Init /\ [][Next]_vars

-----------------------------------------------------------------------------
Built == pc \in {"save", "load", "done"}

(* Every variable stays in its range.                                      *)
TypeOK ==
    /\ spans \in Traces
    /\ pc \in {"add", "relink", "infer", "save", "load", "done"}
    /\ IsInjective(nodes) /\ ToSet(nodes) \subseteq Spans
    /\ index \in [Spans -> Nat]
    /\ DOMAIN edges \subseteq Spans \X Spans
    /\ edges \in [DOMAIN edges -> Types]

(* No parent link inside an export is lost, in whatever order its spans    *)
(* arrive and sort (span_ingest.py 146-182).                               *)
ParentLinksAreKept ==
    Built => \A i \in Spans : spans.parent[i] \in Spans =>
                <<spans.parent[i], i>> \in DOMAIN edges

(* Every edge is a parent link or leads from an earlier step to a later    *)
(* one it feeds: inference never points backward (models.py 180-186).      *)
EdgesAreJustified ==
    \A e \in DOMAIN edges :
        \/ spans.parent[e[2]] = e[1]
        \/ e \in spans.feeds /\ e[1] # e[2] /\ index[e[1]] <= index[e[2]]

(* The graph read back has the nodes and the links of the graph built, the *)
(* links with their types, its nodes by step index: storing in two tables  *)
(* and rebuilding from parent ids and rows invents and loses no link       *)
(* (repository.py 74-97, 275-294).  get_graph forgets the types it reads;  *)
(* that no link changes its type rests on the second pass of the build,    *)
(* whose add_dependency has retyped every link (models.py 149-150).        *)
RoundTrip ==
    pc = "done" =>
        /\ ToSet(loaded.nodes) = ToSet(nodes)
        /\ loaded.edges = edges
        /\ \A a, b \in DOMAIN loaded.nodes :
             a < b => index[loaded.nodes[a]] <= index[loaded.nodes[b]]
=============================================================================
