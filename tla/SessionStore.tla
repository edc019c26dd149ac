---------------------------- MODULE SessionStore ----------------------------
(***************************************************************************)
(* What the persistence layer promises to the rest of AgentReflex,         *)
(* whatever crashes, retries and outages happen on the ingestion path:     *)
(*                                                                         *)
(*   - the first graph stored for a trace wins and never changes;          *)
(*   - a session row appears whole: the graph together with the            *)
(*     attribution computed from that very graph, or with no attribution;  *)
(*   - a reliability row of an ingested graph exists only for a trace that *)
(*     already has a session, and rows are only ever added, one at a time. *)
(***************************************************************************)
EXTENDS Naturals

CONSTANTS
    Traces,         \* trace ids, used as session ids
    Graphs,         \* the causal graphs that requests carry
    TraceOf,        \* Graphs -> Traces
    NoAttribution,  \* failure_type is NULL: the LLM failed at ingest
    NoSession       \* no row in table sessions

VARIABLES
    sessions,  \* sessions[t]: the row of trace t, or NoSession
    scores     \* scores[g]: reliability rows written for graph g

vars == <<sessions, scores>>

(* A row: the graph stored and the graph its attribution was computed from. *)
Row(g, a) == [graph |-> g, attribution |-> a]

Init ==
    /\ sessions = [t \in Traces |-> NoSession]
    /\ scores = [g \in Graphs |-> 0]

Save(g) ==
    /\ sessions[TraceOf[g]] = NoSession
    /\ \E a \in {g, NoAttribution} :
         sessions' = [sessions EXCEPT ![TraceOf[g]] = Row(g, a)]
    /\ UNCHANGED scores

RecordScore(g) ==
    /\ sessions[TraceOf[g]] # NoSession
    /\ scores' = [scores EXCEPT ![g] = @ + 1]
    /\ UNCHANGED sessions

Next == \E g \in Graphs : Save(g) \/ RecordScore(g)

Spec == Init /\ [][Next]_vars
=============================================================================
