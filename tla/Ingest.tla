------------------------------- MODULE Ingest -------------------------------
(***************************************************************************)
(* The ingestion path: an exporter (the OTel collector, or a client of     *)
(* POST /traces) delivers batches of causal graphs to API worker           *)
(* processes, which attribute each graph and persist it in Postgres.       *)
(*                                                                         *)
(* A worker is one asyncio event loop.  The handlers are coroutines whose  *)
(* only await is the request body, so from then on a handler owns its      *)
(* worker until it returns: running[w], step[w], pos[w] and result[w] are  *)
(* its local state.  The key check is a plain function, which FastAPI runs *)
(* in a thread: it overlaps with the handler of another request.  The      *)
(* database transactions of two workers interleave freely.                 *)
(*                                                                         *)
(* Workers crash and boot, Postgres goes away and comes back, connections  *)
(* break while the handler keeps working, and the exporter sends again.    *)
(***************************************************************************)
EXTENDS Naturals, Sequences

CONSTANTS
    Batches,        \* requests the exporter must deliver
    Workers,        \* API worker processes
    Traces,         \* trace ids, used as session ids
    Graphs,         \* the causal graphs the batches carry
    TraceOf,        \* Graphs -> Traces
    Payload,        \* Batches -> Seq(Graphs), as the parser returns them
    Malformed,      \* batches whose body does not parse
    Rest,           \* batches posted to /traces; the others to /v1/traces
    MaxSends,       \* bound: Batches -> deliveries of the batch
    MaxFaults,      \* bound: crashes and outages in a behaviour
    None,           \* no batch, no worker
    NoAttribution,  \* the attribution result is None
    NoSession       \* no row in table sessions

(* A row of table sessions with its steps and edges: the graph stored and  *)
(* the graph its attribution was computed from.                            *)
Row(g, a) == [graph |-> g, attribution |-> a]
Rows == [graph : Graphs, attribution : Graphs \cup {NoAttribution}]

ASSUME IngestAssumption ==
    /\ TraceOf \in [Graphs -> Traces]
    /\ Payload \in [Batches -> Seq(Graphs)]
    /\ Malformed \subseteq Batches
    /\ Rest \subseteq Batches
    /\ MaxSends \in [Batches -> Nat]
    /\ MaxFaults \in Nat
    /\ None \notin Batches \cup Workers
    /\ NoAttribution \notin Graphs
    /\ NoSession \notin Rows

(* The parser builds a graph for one place of one batch. *)
ASSUME DistinctGraphs ==
    \A b, c \in Batches :
        \A i \in DOMAIN Payload[b], j \in DOMAIN Payload[c] :
            Payload[b][i] = Payload[c][j] => b = c /\ i = j

VARIABLES
    status,    \* status[b]: what the exporter knows of batch b
    sends,     \* sends[b]: deliveries of b so far
    at,        \* at[b]: the worker whose answer the exporter awaits, or None
    phase,     \* phase[w][b]: where b waits before its handler starts at w
    running,   \* running[w]: the batch whose handler owns w's loop, or None
    step,      \* step[w]: the handler's program counter
    pos,       \* pos[w]: index of the graph being ingested
    result,    \* result[w]: the local "result": a graph's attribution or None
    mode,      \* mode[w]: down, or up with _db set (postgres) or not (memory)
    dbUp,      \* Postgres answers
    faults,    \* faults left
    sessions,  \* table sessions (with trace_steps and graph_edges)
    scores     \* scores[g]: rows of table reliability_scores written for g

exporter == <<status, sends, at>>
handler == <<running, step, pos, result>>
tables == <<sessions, scores>>
vars == <<exporter, phase, handler, mode, dbUp, faults, tables>>

Statuses == {"ready", "waiting", "acked", "acked_unstored", "dropped"}
Phases == {"none", "auth", "limit", "body"}
Steps == {"idle", "attribute", "save", "insert", "score"}
Modes == {"down", "memory", "postgres"}

Init ==
    /\ status = [b \in Batches |-> "ready"]
    /\ sends = [b \in Batches |-> 0]
    /\ at = [b \in Batches |-> None]
    /\ phase = [w \in Workers |-> [b \in Batches |-> "none"]]
    /\ running = [w \in Workers |-> None]
    /\ step = [w \in Workers |-> "idle"]
    /\ pos = [w \in Workers |-> 0]
    /\ result = [w \in Workers |-> NoAttribution]
    /\ mode = [w \in Workers |-> "down"]
    /\ dbUp \in BOOLEAN
    /\ faults = MaxFaults
    /\ sessions = [t \in Traces |-> NoSession]
    /\ scores = [g \in Graphs |-> 0]

-----------------------------------------------------------------------------
(* The exporter.                                                           *)

(* One copy of a batch at a time on a worker: a second one would only      *)
(* queue behind the first.                                                 *)
Send(w, b) ==
    /\ status[b] = "ready"
    /\ sends[b] < MaxSends[b]
    /\ mode[w] # "down"
    /\ phase[w][b] = "none"
    /\ running[w] # b
    /\ status' = [status EXCEPT ![b] = "waiting"]
    /\ sends' = [sends EXCEPT ![b] = @ + 1]
    /\ at' = [at EXCEPT ![b] = w]
    /\ phase' = [phase EXCEPT ![w][b] = "auth"]
    /\ UNCHANGED <<handler, mode, dbUp, faults, tables>>

(* Connection refused: retried like any other transient failure.           *)
SendRefused(b) ==
    /\ status[b] = "ready"
    /\ sends[b] < MaxSends[b]
    /\ \E w \in Workers : mode[w] = "down"
    /\ sends' = [sends EXCEPT ![b] = @ + 1]
    /\ UNCHANGED <<status, at, phase, handler, mode, dbUp, faults, tables>>

(* The connection breaks, or the exporter's timeout expires: it will send  *)
(* again, and the worker never learns of it.                               *)
Disconnect(b) ==
    /\ status[b] = "waiting"
    /\ status' = [status EXCEPT ![b] = "ready"]
    /\ at' = [at EXCEPT ![b] = None]
    /\ UNCHANGED <<sends, phase, handler, mode, dbUp, faults, tables>>

(* retry_on_failure.max_elapsed_time is over.                              *)
GiveUp(b) ==
    /\ status[b] = "ready"
    /\ sends[b] > 0
    /\ status' = [status EXCEPT ![b] = "dropped"]
    /\ UNCHANGED <<sends, at, phase, handler, mode, dbUp, faults, tables>>

(* What the exporter makes of a status code: 429 and 503 are retried, any  *)
(* other failure is permanent and the batch is dropped.                    *)
Verdict(w, code) ==
    CASE code = 200 /\ mode[w] = "postgres" -> "acked"
      [] code = 200 /\ mode[w] # "postgres" -> "acked_unstored"
      [] code \in {429, 503} -> "ready"
      [] OTHER -> "dropped"

(* The answer reaches the exporter only on the connection it waits on.     *)
Answer(w, b, code) ==
    IF at[b] = w
    THEN /\ status' = [status EXCEPT ![b] = Verdict(w, code)]
         /\ at' = [at EXCEPT ![b] = None]
    ELSE UNCHANGED <<status, at>>

-----------------------------------------------------------------------------
(* Before the handler: the dependencies of the two write endpoints.        *)

(* Mutant: the request is turned away without an answer. *)
Refuse_Silent(w, b, code) ==
    /\ phase' = [phase EXCEPT ![w][b] = "none"]
    /\ UNCHANGED <<status, at>>

Refuse(w, b, code) ==
    /\ phase' = [phase EXCEPT ![w][b] = "none"]
    /\ Answer(w, b, code)

(* ApiKeyAuth: every request reads table api_keys, whatever _db is.  Which *)
(* keys are live and in scope is left open (401 stands for 403 too).       *)
Authenticate(w, b) ==
    /\ phase[w][b] = "auth"
    /\ \/ /\ dbUp
          /\ phase' = [phase EXCEPT ![w][b] = "limit"]
          /\ UNCHANGED <<status, at>>
       \/ dbUp /\ Refuse(w, b, 401)
       \/ ~dbUp /\ Refuse(w, b, 503)
    /\ UNCHANGED <<sends, handler, mode, dbUp, faults, tables>>

(* _rate_limit_write runs on the loop; how it counts is module             *)
(* RateLimiter, here it may refuse any request.                            *)
RateLimit(w, b) ==
    /\ phase[w][b] = "limit"
    /\ running[w] = None
    /\ \/ /\ phase' = [phase EXCEPT ![w][b] = "body"]
          /\ UNCHANGED <<status, at>>
       \/ Refuse(w, b, 429)
    /\ UNCHANGED <<sends, handler, mode, dbUp, faults, tables>>

(* The body has arrived: parse it and enter the loop over its graphs.      *)
StartHandler(w, b) ==
    /\ phase[w][b] = "body"
    /\ running[w] = None
    /\ IF b \in Malformed
       THEN /\ Refuse(w, b, IF b \in Rest THEN 500 ELSE 400)
            /\ UNCHANGED handler
       ELSE IF Payload[b] = <<>>
       THEN Refuse(w, b, 200) /\ UNCHANGED handler
       ELSE /\ phase' = [phase EXCEPT ![w][b] = "none"]
            /\ running' = [running EXCEPT ![w] = b]
            /\ step' = [step EXCEPT ![w] = "attribute"]
            /\ pos' = [pos EXCEPT ![w] = 1]
            /\ UNCHANGED <<status, at, result>>
    /\ UNCHANGED <<sends, mode, dbUp, faults, tables>>

-----------------------------------------------------------------------------
(* The handler: otlp_receive, and ingest_trace with its single graph.      *)

Current(w) == Payload[running[w]][pos[w]]

Goto(w, s) ==
    /\ step' = [step EXCEPT ![w] = s]
    /\ UNCHANGED <<running, pos, status, at>>

Finish(w, code) ==
    /\ running' = [running EXCEPT ![w] = None]
    /\ step' = [step EXCEPT ![w] = "idle"]
    /\ pos' = [pos EXCEPT ![w] = 0]
    /\ result' = [result EXCEPT ![w] = NoAttribution]
    /\ Answer(w, running[w], code)

(* Mutant: the loop runs past the last graph. *)
Advance_OffByOne(w) ==
    IF pos[w] <= Len(Payload[running[w]])
    THEN /\ pos' = [pos EXCEPT ![w] = @ + 1]
         /\ step' = [step EXCEPT ![w] = "attribute"]
         /\ UNCHANGED <<running, result, status, at>>
    ELSE Finish(w, 200)

(* The end of an iteration: the next graph, or the 200.                    *)
Advance(w) ==
    IF pos[w] < Len(Payload[running[w]])
    THEN /\ pos' = [pos EXCEPT ![w] = @ + 1]
         /\ step' = [step EXCEPT ![w] = "attribute"]
         /\ UNCHANGED <<running, result, status, at>>
    ELSE Finish(w, 200)

(* Mutant: the LLM fails and the loop skips the graph (a "continue"). *)
Attribute_SkipsGraph(w) ==
    /\ step[w] = "attribute"
    /\ \/ /\ result' = [result EXCEPT ![w] = Current(w)]
          /\ Goto(w, "save")
       \/ Advance(w)
    /\ UNCHANGED <<sends, phase, mode, dbUp, faults, tables>>

(* Mutant: "result = None" stands before the loop, not inside it. *)
Attribute_KeepsResult(w) ==
    /\ step[w] = "attribute"
    /\ \/ result' = [result EXCEPT ![w] = Current(w)]
       \/ UNCHANGED result
    /\ Goto(w, "save")
    /\ UNCHANGED <<sends, phase, mode, dbUp, faults, tables>>

(* Mutant: an LLM failure is an internal server error on both endpoints. *)
Attribute_Rejects(w) ==
    /\ step[w] = "attribute"
    /\ \/ /\ result' = [result EXCEPT ![w] = Current(w)]
          /\ Goto(w, "save")
       \/ Finish(w, 500)
    /\ UNCHANGED <<sends, phase, mode, dbUp, faults, tables>>

(* attribute() returns, or the LLM fails.  The receiver of /v1/traces goes *)
(* on with result = None; /traces lets the exception out.                  *)
Attribute(w) ==
    /\ step[w] = "attribute"
    /\ \/ /\ result' = [result EXCEPT ![w] = Current(w)]
          /\ Goto(w, "save")
       \/ /\ running[w] \notin Rest
          /\ result' = [result EXCEPT ![w] = NoAttribution]
          /\ Goto(w, "save")
       \/ running[w] \in Rest /\ Finish(w, 500)
    /\ UNCHANGED <<sends, phase, mode, dbUp, faults, tables>>

(* Without _db neither the session nor the score is written.               *)
SkipSave(w) ==
    /\ step[w] = "save"
    /\ mode[w] = "memory"
    /\ Advance(w)
    /\ UNCHANGED <<sends, phase, mode, dbUp, faults, tables>>

(* save_session, first half: return at once when the session exists.       *)
SelectSession(w) ==
    /\ step[w] = "save"
    /\ mode[w] = "postgres"
    /\ IF ~dbUp
       THEN Finish(w, 500)
       ELSE /\ Goto(w, IF sessions[TraceOf[Current(w)]] = NoSession
                       THEN "insert" ELSE "score")
            /\ UNCHANGED result
    /\ UNCHANGED <<sends, phase, mode, dbUp, faults, tables>>

(* Mutant: errors of save_session are logged and the loop goes on. *)
InsertSession_SwallowsErrors(w) ==
    LET g == Current(w) IN
    /\ step[w] = "insert"
    /\ Goto(w, "score")
    /\ IF ~dbUp \/ sessions[TraceOf[g]] # NoSession
       THEN UNCHANGED sessions
       ELSE sessions' = [sessions EXCEPT ![TraceOf[g]] = Row(g, result[w])]
    /\ UNCHANGED <<sends, phase, mode, dbUp, faults, scores, result>>

(* Mutant: session_id is not unique, the last insert wins. *)
InsertSession_LastWins(w) ==
    LET g == Current(w) IN
    /\ step[w] = "insert"
    /\ IF ~dbUp
       THEN Finish(w, 500) /\ UNCHANGED sessions
       ELSE /\ sessions' = [sessions EXCEPT ![TraceOf[g]] = Row(g, result[w])]
            /\ Goto(w, "score") /\ UNCHANGED result
    /\ UNCHANGED <<sends, phase, mode, dbUp, faults, scores>>

(* save_session, second half: one transaction inserts the session, its     *)
(* steps and its edges.  session_id is unique, so the loser of a race gets *)
(* an IntegrityError; a reply lost after the commit raises as well.        *)
InsertSession(w) ==
    LET g == Current(w) IN
    /\ step[w] = "insert"
    /\ IF ~dbUp \/ sessions[TraceOf[g]] # NoSession
       THEN Finish(w, 500) /\ UNCHANGED sessions
       ELSE /\ sessions' = [sessions EXCEPT ![TraceOf[g]] = Row(g, result[w])]
            /\ \/ Goto(w, "score") /\ UNCHANGED result
               \/ Finish(w, 500)
    /\ UNCHANGED <<sends, phase, mode, dbUp, faults, scores>>

(* Mutant: a lost reply makes the worker write the row again. *)
RecordScore_Retries(w) ==
    LET g == Current(w) IN
    /\ step[w] = "score"
    /\ IF ~dbUp
       THEN Finish(w, 500) /\ UNCHANGED scores
       ELSE /\ scores[g] <= MaxSends[running[w]]
            /\ scores' = [scores EXCEPT ![g] = @ + 1]
            /\ \/ Advance(w)
               \/ Goto(w, "score") /\ UNCHANGED result
    /\ UNCHANGED <<sends, phase, mode, dbUp, faults, sessions>>

(* _record_reliability_at_ingest: a transaction of its own.                *)
RecordScore(w) ==
    LET g == Current(w) IN
    /\ step[w] = "score"
    /\ IF ~dbUp
       THEN Finish(w, 500) /\ UNCHANGED scores
       ELSE /\ scores' = [scores EXCEPT ![g] = @ + 1]
            /\ Advance(w) \/ Finish(w, 500)
    /\ UNCHANGED <<sends, phase, mode, dbUp, faults, sessions>>

HandlerStep(w) ==
    \/ Attribute(w)
    \/ SkipSave(w)
    \/ SelectSession(w)
    \/ InsertSession(w)
    \/ RecordScore(w)

-----------------------------------------------------------------------------
(* Faults and recovery.                                                    *)

(* lifespan: _db is set for the life of the process, or never.  Any        *)
(* exception of init_db loses it, an outage or two workers that create the *)
(* tables at once.                                                         *)
Boot(w) ==
    /\ mode[w] = "down"
    /\ \E m \in IF dbUp THEN {"postgres", "memory"} ELSE {"memory"} :
         mode' = [mode EXCEPT ![w] = m]
    /\ UNCHANGED <<exporter, phase, handler, dbUp, faults, tables>>

(* The process dies with every request it holds.                           *)
Crash(w) ==
    /\ faults > 0
    /\ mode[w] # "down"
    /\ faults' = faults - 1
    /\ mode' = [mode EXCEPT ![w] = "down"]
    /\ phase' = [phase EXCEPT ![w] = [b \in Batches |-> "none"]]
    /\ running' = [running EXCEPT ![w] = None]
    /\ step' = [step EXCEPT ![w] = "idle"]
    /\ pos' = [pos EXCEPT ![w] = 0]
    /\ result' = [result EXCEPT ![w] = NoAttribution]
    /\ status' = [b \in Batches |-> IF at[b] = w THEN "ready" ELSE status[b]]
    /\ at' = [b \in Batches |-> IF at[b] = w THEN None ELSE at[b]]
    /\ UNCHANGED <<sends, dbUp, tables>>

PostgresFails ==
    /\ faults > 0
    /\ dbUp
    /\ faults' = faults - 1
    /\ dbUp' = FALSE
    /\ UNCHANGED <<exporter, phase, handler, mode, tables>>

PostgresReturns ==
    /\ ~dbUp
    /\ dbUp' = TRUE
    /\ UNCHANGED <<exporter, phase, handler, mode, faults, tables>>

-----------------------------------------------------------------------------
ExporterStep(b) ==
    \/ \E w \in Workers : Send(w, b)
    \/ SendRefused(b)
    \/ GiveUp(b)

Next ==
    \/ \E b \in Batches : ExporterStep(b) \/ Disconnect(b)
    \/ \E w \in Workers, b \in Batches :
         Authenticate(w, b) \/ RateLimit(w, b) \/ StartHandler(w, b)
    \/ \E w \in Workers : HandlerStep(w) \/ Boot(w) \/ Crash(w)
    \/ PostgresFails
    \/ PostgresReturns

Spec == Init /\ [][Next]_vars

(* Every call of the code returns: the LLM client has a timeout, so has    *)
(* the exporter's retry, and the loop serves its ready queue in order.     *)
(* Nothing makes a process boot, Postgres return or a fault happen.        *)
Fairness ==
    /\ \A b \in Batches : WF_vars(ExporterStep(b))
    /\ \A w \in Workers : WF_vars(HandlerStep(w))
    /\ \A w \in Workers, b \in Batches :
         /\ WF_vars(Authenticate(w, b))
         /\ WF_vars(RateLimit(w, b))
         /\ WF_vars(StartHandler(w, b))

FairSpec == Spec /\ Fairness

-----------------------------------------------------------------------------
(* Properties.                                                             *)

(* The graphs of batch b. *)
GraphsIn(b) == {Payload[b][i] : i \in DOMAIN Payload[b]}

(* Every variable stays in its range, and a handler that runs is at a      *)
(* graph of the batch it runs.                                             *)
TypeOK ==
    /\ status \in [Batches -> Statuses]
    /\ sends \in [Batches -> Nat]
    /\ \A b \in Batches : sends[b] <= MaxSends[b]
    /\ at \in [Batches -> Workers \cup {None}]
    /\ phase \in [Workers -> [Batches -> Phases]]
    /\ running \in [Workers -> Batches \cup {None}]
    /\ step \in [Workers -> Steps]
    /\ pos \in [Workers -> Nat]
    /\ result \in [Workers -> Graphs \cup {NoAttribution}]
    /\ mode \in [Workers -> Modes]
    /\ dbUp \in BOOLEAN
    /\ faults \in 0..MaxFaults
    /\ sessions \in [Traces -> Rows \cup {NoSession}]
    /\ scores \in [Graphs -> Nat]
    /\ \A w \in Workers :
         IF running[w] = None
         THEN step[w] = "idle"
         ELSE step[w] # "idle" /\ pos[w] \in DOMAIN Payload[running[w]]

(* A reliability row written at ingest never precedes its session: a crash *)
(* or outage between the two transactions of an iteration can lose the     *)
(* score but cannot leave a score without a session (api.py 180-188).      *)
ScoreHasSession ==
    \A g \in Graphs : scores[g] > 0 => sessions[TraceOf[g]] # NoSession

(* A 200 from a worker that has _db means that every trace of the batch    *)
(* has a session and that its graph was scored, across redeliveries, races *)
(* between workers, crashes and outages (api.py 164-191).                  *)
AckedIsDurable ==
    \A b \in Batches : status[b] = "acked" /\ b \notin Malformed =>
        \A g \in GraphsIn(b) :
            sessions[TraceOf[g]] # NoSession /\ scores[g] > 0

(* The attribution of a stored session was computed from the graph stored  *)
(* with it, or is null: the result of one graph of a batch never leaks     *)
(* into the row of the next one (api.py 165, repository.py 62-72).         *)
AttributionMatchesGraph ==
    \A t \in Traces : sessions[t] # NoSession =>
        sessions[t].attribution \in {sessions[t].graph, NoAttribution}

(* A graph gets at most one reliability row per delivery of its batch:     *)
(* only redelivery multiplies rows (api.py 188, repository.py 114-121).    *)
OneScorePerDelivery ==
    \A b \in Batches : \A g \in GraphsIn(b) : scores[g] <= sends[b]

(* The persistence layer keeps the promise of module SessionStore: rows    *)
(* appear whole, the first one wins, and nothing changes or deletes them.  *)
Store == INSTANCE SessionStore
StoreSpec == Store!Spec

(* Every batch is eventually acknowledged or dropped: no interleaving of   *)
(* crashes, outages, refusals and resends keeps the exporter waiting.      *)
EveryBatchSettles ==
    \A b \in Batches :
        <>[](status[b] \in {"acked", "acked_unstored", "dropped"})

(* A provider outage must not reject the trace (api.py 172-174): once the  *)
(* receiver of /v1/traces has reached a graph, its trace gets a session    *)
(* unless Postgres or the worker fails meanwhile.                          *)
ProviderOutageStillPersists ==
    \A w \in Workers, b \in Batches \ Rest :
        \A i \in DOMAIN Payload[b] :
            (running[w] = b /\ pos[w] = i /\ mode[w] = "postgres")
            ~> \/ sessions[TraceOf[Payload[b][i]]] # NoSession
               \/ ~dbUp
               \/ mode[w] = "down"

(* docs/otel_ingestion_schema.md 123, "Spans are grouped by traceId -> one *)
(* session per trace": the session of an acknowledged trace would hold     *)
(* every graph the batch carried for it.  The code keeps the first one.    *)
AckedTraceIsWhole ==
    \A b \in Batches : status[b] = "acked" /\ b \notin Malformed =>
        \A g \in GraphsIn(b) : sessions[TraceOf[g]].graph = g
=============================================================================
