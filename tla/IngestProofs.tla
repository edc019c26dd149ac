---------------------------- MODULE IngestProofs ----------------------------
(***************************************************************************)
(* Theorems about Ingest, for every number of workers, batches, traces,    *)
(* deliveries and faults.                                                  *)
(***************************************************************************)
EXTENDS Ingest, FiniteSetTheorems, TLAPS

(* A worker's handler is at a graph of the batch it runs. *)
LEMMA CurrentIsGraph ==
    ASSUME TypeOK, NEW w \in Workers, step[w] # "idle"
    PROVE  /\ running[w] \in Batches
           /\ pos[w] \in 1..Len(Payload[running[w]])
           /\ Current(w) \in Graphs
           /\ TraceOf[Current(w)] \in Traces
  BY IngestAssumption DEF TypeOK, Current

(* The answer of a request leaves the exporter's variables in their ranges. *)
LEMMA AnswerType ==
    ASSUME TypeOK, NEW w \in Workers, NEW b \in Batches, NEW code,
           Answer(w, b, code)
    PROVE  /\ status' \in [Batches -> Statuses]
           /\ at' \in [Batches -> Workers \cup {None}]
  <1>1. Verdict(w, code) \in Statuses
    BY DEF Verdict, Statuses
  <1> QED BY <1>1 DEF TypeOK, Answer

(* Moving one request to another phase. *)
LEMMA PhaseType ==
    ASSUME TypeOK, NEW w \in Workers, NEW b \in Batches, NEW p \in Phases,
           phase' = [phase EXCEPT ![w][b] = p]
    PROVE  phase' \in [Workers -> [Batches -> Phases]]
  BY DEF TypeOK

(* Ending a handler idles its worker and answers. *)
LEMMA FinishType ==
    ASSUME TypeOK, NEW w \in Workers, step[w] # "idle", NEW code,
           Finish(w, code)
    PROVE  /\ status' \in [Batches -> Statuses]
           /\ at' \in [Batches -> Workers \cup {None}]
           /\ running' \in [Workers -> Batches \cup {None}]
           /\ step' \in [Workers -> Steps]
           /\ pos' \in [Workers -> Nat]
           /\ result' \in [Workers -> Graphs \cup {NoAttribution}]
           /\ \A v \in Workers :
                IF running'[v] = None
                THEN step'[v] = "idle"
                ELSE step'[v] # "idle" /\ pos'[v] \in DOMAIN Payload[running'[v]]
  <1>1. running[w] \in Batches
    BY CurrentIsGraph
  <1>2. /\ status' \in [Batches -> Statuses]
        /\ at' \in [Batches -> Workers \cup {None}]
    BY <1>1, AnswerType DEF Finish
  <1> QED BY <1>2 DEF Finish, TypeOK, Steps

(* The variables that the end of an iteration changes keep their ranges.   *)
LEMMA AdvanceType ==
    ASSUME TypeOK, NEW w \in Workers, step[w] # "idle", Advance(w)
    PROVE  /\ status' \in [Batches -> Statuses]
           /\ at' \in [Batches -> Workers \cup {None}]
           /\ running' \in [Workers -> Batches \cup {None}]
           /\ step' \in [Workers -> Steps]
           /\ pos' \in [Workers -> Nat]
           /\ result' \in [Workers -> Graphs \cup {NoAttribution}]
           /\ \A v \in Workers :
                IF running'[v] = None
                THEN step'[v] = "idle"
                ELSE step'[v] # "idle" /\ pos'[v] \in DOMAIN Payload[running'[v]]
  <1>1. CASE pos[w] < Len(Payload[running[w]])
    <2>1. /\ running[w] \in Batches
          /\ Payload[running[w]] \in Seq(Graphs)
          /\ pos[w] \in Nat
      BY CurrentIsGraph, IngestAssumption DEF TypeOK
    <2>2. pos[w] + 1 \in DOMAIN Payload[running[w]]
      BY <1>1, <2>1
    <2>3. /\ pos' = [pos EXCEPT ![w] = @ + 1]
          /\ step' = [step EXCEPT ![w] = "attribute"]
          /\ UNCHANGED <<running, result, status, at>>
      BY <1>1 DEF Advance
    <2>4. ASSUME NEW v \in Workers
          PROVE  IF running'[v] = None
                 THEN step'[v] = "idle"
                 ELSE step'[v] # "idle" /\ pos'[v] \in DOMAIN Payload[running'[v]]
      <3>1. running[w] # None
        BY <2>1, IngestAssumption
      <3>2. CASE v = w
        BY <2>2, <2>3, <3>1, <3>2 DEF TypeOK
      <3>3. CASE v # w
        BY <2>3, <3>3 DEF TypeOK
      <3> QED BY <3>2, <3>3
    <2> QED BY <2>1, <2>3, <2>4 DEF TypeOK, Steps
  <1>2. CASE ~(pos[w] < Len(Payload[running[w]]))
    BY <1>2, FinishType DEF Advance
  <1> QED BY <1>1, <1>2

(* A step to a label inside the iteration leaves all but the label alone.  *)
LEMMA GotoType ==
    ASSUME TypeOK, NEW w \in Workers, step[w] # "idle",
           NEW s \in Steps \ {"idle"}, Goto(w, s)
    PROVE  /\ status' \in [Batches -> Statuses]
           /\ at' \in [Batches -> Workers \cup {None}]
           /\ running' \in [Workers -> Batches \cup {None}]
           /\ step' \in [Workers -> Steps]
           /\ pos' \in [Workers -> Nat]
           /\ \A v \in Workers :
                IF running'[v] = None
                THEN step'[v] = "idle"
                ELSE step'[v] # "idle" /\ pos'[v] \in DOMAIN Payload[running'[v]]
  BY CurrentIsGraph DEF Goto, TypeOK

(* One more delivery stays within the bound. *)
LEMMA SendsBound ==
    ASSUME TypeOK, NEW b \in Batches, sends[b] < MaxSends[b],
           sends' = [sends EXCEPT ![b] = sends[b] + 1]
    PROVE  sends' \in [Batches -> Nat] /\ \A c \in Batches : sends'[c] <= MaxSends[c]
<1>1. sends \in [Batches -> Nat] /\ MaxSends \in [Batches -> Nat]
  BY IngestAssumption DEF TypeOK
<1>2. sends' \in [Batches -> Nat]
  BY <1>1
<1>3. ASSUME NEW c \in Batches PROVE sends'[c] <= MaxSends[c]
  <2>1. sends[c] \in Nat /\ MaxSends[c] \in Nat /\ sends[c] <= MaxSends[c]
    BY <1>1 DEF TypeOK
  <2>2. CASE c = b
    BY <1>1, <2>1, <2>2
  <2>3. CASE c # b
    BY <1>1, <2>1, <2>3
  <2> QED BY <2>2, <2>3
<1> QED BY <1>2, <1>3

-----------------------------------------------------------------------------
(* Every variable stays in its range (Ingest!TypeOK). *)
THEOREM TypeCorrect == Spec => []TypeOK
<1>1. Init => TypeOK
  BY IngestAssumption DEF Init, TypeOK, Statuses, Phases, Steps, Modes
<1>2. TypeOK /\ [Next]_vars => TypeOK'
  <2> SUFFICES ASSUME TypeOK, [Next]_vars PROVE TypeOK'
    OBVIOUS
  <2>1. ASSUME NEW b \in Batches, NEW w \in Workers, Send(w, b)
        PROVE  TypeOK'
    <3>1. phase' \in [Workers -> [Batches -> Phases]]
      BY <2>1, PhaseType DEF Send, Phases
    <3>2. sends' = [sends EXCEPT ![b] = sends[b] + 1] /\ sends[b] < MaxSends[b]
      BY <2>1 DEF Send
    <3>3. sends' \in [Batches -> Nat] /\ \A c \in Batches : sends'[c] <= MaxSends[c]
      BY <3>2, SendsBound
    <3> QED BY <2>1, <3>1, <3>3 DEF TypeOK, Send, handler, tables, Statuses
  <2>2. ASSUME NEW b \in Batches, SendRefused(b)
        PROVE  TypeOK'
    <3>1. sends' = [sends EXCEPT ![b] = sends[b] + 1] /\ sends[b] < MaxSends[b]
      BY <2>2 DEF SendRefused
    <3>2. sends' \in [Batches -> Nat] /\ \A c \in Batches : sends'[c] <= MaxSends[c]
      BY <3>1, SendsBound
    <3> QED BY <2>2, <3>2 DEF TypeOK, SendRefused, handler, tables
  <2>3. ASSUME NEW b \in Batches, GiveUp(b)
        PROVE  TypeOK'
    BY <2>3 DEF TypeOK, GiveUp, handler, tables, Statuses
  <2>4. ASSUME NEW b \in Batches, Disconnect(b)
        PROVE  TypeOK'
    BY <2>4 DEF TypeOK, Disconnect, handler, tables, Statuses
  <2>5. ASSUME NEW w \in Workers, NEW b \in Batches, Authenticate(w, b)
        PROVE  TypeOK'
    <3>1. /\ status' \in [Batches -> Statuses]
          /\ at' \in [Batches -> Workers \cup {None}]
      BY <2>5, AnswerType DEF Authenticate, Refuse, TypeOK
    <3>2. phase' \in [Workers -> [Batches -> Phases]]
      BY <2>5, PhaseType DEF Authenticate, Refuse, Phases
    <3> QED BY <2>5, <3>1, <3>2 DEF TypeOK, Authenticate, handler, tables
  <2>6. ASSUME NEW w \in Workers, NEW b \in Batches, RateLimit(w, b)
        PROVE  TypeOK'
    <3>1. /\ status' \in [Batches -> Statuses]
          /\ at' \in [Batches -> Workers \cup {None}]
      BY <2>6, AnswerType DEF RateLimit, Refuse, TypeOK
    <3>2. phase' \in [Workers -> [Batches -> Phases]]
      BY <2>6, PhaseType DEF RateLimit, Refuse, Phases
    <3> QED BY <2>6, <3>1, <3>2 DEF TypeOK, RateLimit, handler, tables
  <2>7. ASSUME NEW w \in Workers, NEW b \in Batches, StartHandler(w, b)
        PROVE  TypeOK'
    <3>1. /\ status' \in [Batches -> Statuses]
          /\ at' \in [Batches -> Workers \cup {None}]
      BY <2>7, AnswerType DEF StartHandler, Refuse, TypeOK
    <3>2. phase' \in [Workers -> [Batches -> Phases]]
      BY <2>7, PhaseType DEF StartHandler, Refuse, Phases
    <3>3. CASE b \in Malformed \/ Payload[b] = <<>>
      BY <2>7, <3>1, <3>2, <3>3 DEF TypeOK, StartHandler, handler, tables
    <3>4. CASE ~(b \in Malformed \/ Payload[b] = <<>>)
      <4>1. Payload[b] \in Seq(Graphs) /\ b # None
        BY IngestAssumption
      <4>2. 1 \in DOMAIN Payload[b]
        BY <3>4, <4>1
      <4>3. /\ running' = [running EXCEPT ![w] = b]
            /\ step' = [step EXCEPT ![w] = "attribute"]
            /\ pos' = [pos EXCEPT ![w] = 1]
            /\ UNCHANGED <<result, sends, mode, dbUp, faults, sessions, scores>>
        BY <2>7, <3>4 DEF StartHandler, tables
      <4>4. ASSUME NEW v \in Workers
            PROVE  IF running'[v] = None
                   THEN step'[v] = "idle"
                   ELSE step'[v] # "idle" /\ pos'[v] \in DOMAIN Payload[running'[v]]
        <5>1. CASE v = w
          BY <4>1, <4>2, <4>3, <5>1 DEF TypeOK
        <5>2. CASE v # w
          BY <4>3, <5>2 DEF TypeOK
        <5> QED BY <5>1, <5>2
      <4> QED BY <3>1, <3>2, <4>3, <4>4 DEF TypeOK, Steps
    <3> QED BY <3>3, <3>4
  <2>8. ASSUME NEW w \in Workers, Attribute(w)
        PROVE  TypeOK'
    <3>1. step[w] # "idle" /\ Current(w) \in Graphs
      BY <2>8, CurrentIsGraph DEF Attribute
    <3>2. CASE \E r \in {Current(w), NoAttribution} :
                 result' = [result EXCEPT ![w] = r] /\ Goto(w, "save")
      <4>1. PICK r \in {Current(w), NoAttribution} :
              result' = [result EXCEPT ![w] = r] /\ Goto(w, "save")
        BY <3>2
      <4>2. result' \in [Workers -> Graphs \cup {NoAttribution}]
        BY <3>1, <4>1 DEF TypeOK
      <4>3. "save" \in Steps \ {"idle"}
        BY DEF Steps
      <4> QED BY <2>8, <3>1, <4>1, <4>2, <4>3, GotoType DEF TypeOK, Attribute, tables
    <3>3. CASE Finish(w, 500)
      BY <2>8, <3>1, <3>3, FinishType DEF TypeOK, Attribute, tables
    <3> QED BY <2>8, <3>2, <3>3 DEF Attribute
  <2>9. ASSUME NEW w \in Workers, SkipSave(w)
        PROVE  TypeOK'
    BY <2>9, AdvanceType DEF TypeOK, SkipSave, tables
  <2>10. ASSUME NEW w \in Workers, SelectSession(w)
         PROVE  TypeOK'
    <3>1. step[w] # "idle"
      BY <2>10 DEF SelectSession
    <3>2. CASE ~dbUp
      BY <2>10, <3>1, <3>2, FinishType DEF TypeOK, SelectSession, tables
    <3>3. CASE dbUp
      <4>1. \E s \in {"insert", "score"} : Goto(w, s)
        BY <2>10, <3>3 DEF SelectSession
      <4> QED BY <2>10, <3>1, <3>3, <4>1, GotoType
              DEF TypeOK, SelectSession, tables, Steps
    <3> QED BY <3>2, <3>3
  <2>11. ASSUME NEW w \in Workers, InsertSession(w)
         PROVE  TypeOK'
    <3> DEFINE g == Current(w)
    <3>1. step[w] # "idle" /\ g \in Graphs /\ TraceOf[g] \in Traces
      BY <2>11, CurrentIsGraph DEF InsertSession
    <3>2. sessions' \in [Traces -> Rows \cup {NoSession}]
      <4>1. Row(g, result[w]) \in Rows
        BY <3>1 DEF Row, Rows, TypeOK
      <4> QED BY <2>11, <3>1, <4>1 DEF InsertSession, TypeOK
    <3>3. CASE Finish(w, 500)
      BY <2>11, <3>1, <3>2, <3>3, FinishType DEF TypeOK, InsertSession
    <3>4. CASE Goto(w, "score") /\ UNCHANGED result
      BY <2>11, <3>1, <3>2, <3>4, GotoType DEF TypeOK, InsertSession, Steps
    <3> QED BY <2>11, <3>3, <3>4 DEF InsertSession
  <2>12. ASSUME NEW w \in Workers, RecordScore(w)
         PROVE  TypeOK'
    <3>1. step[w] # "idle" /\ Current(w) \in Graphs
      BY <2>12, CurrentIsGraph DEF RecordScore
    <3>2. scores' \in [Graphs -> Nat]
      BY <2>12, <3>1 DEF RecordScore, TypeOK
    <3>3. CASE Finish(w, 500)
      BY <2>12, <3>1, <3>2, <3>3, FinishType DEF TypeOK, RecordScore
    <3>4. CASE Advance(w)
      BY <2>12, <3>1, <3>2, <3>4, AdvanceType DEF TypeOK, RecordScore
    <3> QED BY <2>12, <3>3, <3>4 DEF RecordScore
  <2>13. ASSUME NEW w \in Workers, Boot(w)
         PROVE  TypeOK'
    BY <2>13 DEF TypeOK, Boot, exporter, handler, tables, Modes
  <2>14. ASSUME NEW w \in Workers, Crash(w)
         PROVE  TypeOK'
    <3>1. faults' \in 0..MaxFaults
      BY <2>14, IngestAssumption DEF Crash, TypeOK
    <3>2. phase' \in [Workers -> [Batches -> Phases]]
      <4>1. [b \in Batches |-> "none"] \in [Batches -> Phases]
        BY DEF Phases
      <4> QED BY <2>14, <4>1 DEF Crash, TypeOK
    <3>3. /\ status' \in [Batches -> Statuses]
          /\ at' \in [Batches -> Workers \cup {None}]
      BY <2>14 DEF Crash, TypeOK, Statuses
    <3> QED BY <2>14, <3>1, <3>2, <3>3
            DEF TypeOK, Crash, tables, Modes, Steps
  <2>15. CASE PostgresFails
    <3>1. faults' \in 0..MaxFaults
      BY <2>15, IngestAssumption DEF PostgresFails, TypeOK
    <3> QED BY <2>15, <3>1
            DEF TypeOK, PostgresFails, exporter, handler, tables
  <2>16. CASE PostgresReturns
    BY <2>16 DEF TypeOK, PostgresReturns, exporter, handler, tables
  <2>17. CASE UNCHANGED vars
    BY <2>17 DEF TypeOK, vars, exporter, handler, tables
  <2> QED
    BY <2>1, <2>2, <2>3, <2>4, <2>5, <2>6, <2>7, <2>8, <2>9, <2>10, <2>11,
       <2>12, <2>13, <2>14, <2>15, <2>16, <2>17
       DEF Next, ExporterStep, HandlerStep
<1> QED
  BY <1>1, <1>2, PTL DEF Spec

-----------------------------------------------------------------------------
(* The inductive invariant behind AckedIsDurable and the refinement.  The  *)
(* 200 is sent long after the rows of the first graphs were written, so    *)
(* the invariant carries, for a running handler, what it has done so far.  *)

Durable(g) == sessions[TraceOf[g]] # NoSession /\ scores[g] > 0

(* The graph g is durable once the step is taken. *)
DurableNext(g) == sessions'[TraceOf[g]] # NoSession /\ scores'[g] > 0

WorkerInv(w) ==
    /\ mode[w] = "down" =>
         running[w] = None /\ \A b \in Batches : phase[w][b] = "none"
    /\ step[w] \in {"insert", "score"} => mode[w] = "postgres"
    /\ step[w] \in {"save", "insert"} => result[w] \in {Current(w), NoAttribution}
    /\ step[w] = "score" => sessions[TraceOf[Current(w)]] # NoSession
    /\ running[w] # None /\ mode[w] = "postgres" =>
         \A i \in 1..(pos[w] - 1) : Durable(Payload[running[w]][i])

IInv ==
    /\ TypeOK
    /\ \A w \in Workers : WorkerInv(w)
    /\ AckedIsDurable

(* What one step of worker w does to the tables. *)
Insert(g, r) ==
    /\ sessions[TraceOf[g]] = NoSession
    /\ sessions' = [sessions EXCEPT ![TraceOf[g]] = Row(g, r)]
    /\ UNCHANGED scores

Count(g) ==
    /\ sessions[TraceOf[g]] # NoSession
    /\ scores' = [scores EXCEPT ![g] = @ + 1]
    /\ UNCHANGED sessions

TableStep ==
    \/ UNCHANGED tables
    \/ \E g \in Graphs : Count(g) \/ \E r \in {g, NoAttribution} : Insert(g, r)

(* Every step inserts the first session of a trace, counts a graph whose   *)
(* trace has a session, or leaves the tables alone.                        *)
LEMMA StepOnTables ==
    ASSUME TypeOK, \A w \in Workers : WorkerInv(w), [Next]_vars
    PROVE  TableStep
<1>1. ASSUME NEW w \in Workers, InsertSession(w)
      PROVE  TableStep
  <2>1. Current(w) \in Graphs
    BY <1>1, CurrentIsGraph DEF InsertSession
  <2>2. result[w] \in {Current(w), NoAttribution}
    BY <1>1 DEF InsertSession, WorkerInv
  <2>3. UNCHANGED tables \/ Insert(Current(w), result[w])
    BY <1>1 DEF InsertSession, Insert, tables
  <2> QED BY <2>1, <2>2, <2>3 DEF TableStep
<1>2. ASSUME NEW w \in Workers, RecordScore(w)
      PROVE  TableStep
  <2>1. Current(w) \in Graphs
    BY <1>2, CurrentIsGraph DEF RecordScore
  <2>2. UNCHANGED tables \/ Count(Current(w))
    BY <1>2 DEF RecordScore, Count, WorkerInv, tables
  <2> QED BY <2>1, <2>2 DEF TableStep
<1>3. CASE UNCHANGED tables
  BY <1>3 DEF TableStep
<1> QED
  BY <1>1, <1>2, <1>3
     DEF Next, ExporterStep, HandlerStep, Send, SendRefused, GiveUp, Disconnect,
         Authenticate, RateLimit, StartHandler, Attribute, SkipSave, SelectSession,
         Boot, Crash, PostgresFails, PostgresReturns, vars

(* The tables only grow. *)
LEMMA Growth ==
    ASSUME TypeOK, TableStep, NEW h \in Graphs
    PROVE  /\ sessions[TraceOf[h]] # NoSession => sessions'[TraceOf[h]] # NoSession
           /\ Durable(h) => Durable(h)'
<1>1. CASE UNCHANGED tables
  BY <1>1 DEF tables, Durable
<1>2. ASSUME NEW g \in Graphs, Count(g)
      PROVE  /\ sessions[TraceOf[h]] # NoSession => sessions'[TraceOf[h]] # NoSession
             /\ Durable(h) => Durable(h)'
  BY <1>2 DEF Count, Durable, TypeOK
<1>3. ASSUME NEW g \in Graphs, NEW r \in {g, NoAttribution}, Insert(g, r)
      PROVE  /\ sessions[TraceOf[h]] # NoSession => sessions'[TraceOf[h]] # NoSession
             /\ Durable(h) => Durable(h)'
  <2>1. TraceOf[h] \in Traces
    BY IngestAssumption
  <2>2. sessions[TraceOf[h]] # NoSession =>
          sessions'[TraceOf[h]] = sessions[TraceOf[h]]
    BY <1>3, <2>1 DEF Insert, TypeOK
  <2> QED BY <1>3, <2>2 DEF Insert, Durable
<1> QED BY <1>1, <1>2, <1>3 DEF TableStep

(* A worker that takes no part in a step keeps its invariant. *)
LEMMA Bystander ==
    ASSUME TypeOK, TableStep, NEW v \in Workers, WorkerInv(v),
           /\ running'[v] = running[v]
           /\ step'[v] = step[v]
           /\ pos'[v] = pos[v]
           /\ result'[v] = result[v]
           /\ mode'[v] = mode[v]
           /\ mode[v] = "down" => phase'[v] = phase[v]
    PROVE  WorkerInv(v)'
<1>1. Current(v)' = Current(v)
  BY DEF Current
<1>2. step[v] = "score" => sessions'[TraceOf[Current(v)]] # NoSession
  BY CurrentIsGraph, Growth DEF WorkerInv
<1>3. ASSUME running[v] # None, mode[v] = "postgres", NEW i \in 1..(pos[v] - 1)
      PROVE  Durable(Payload[running[v]][i])'
  <2>1. Payload[running[v]][i] \in Graphs
    <3>1. step[v] # "idle"
      BY <1>3 DEF TypeOK
    <3>2. /\ running[v] \in Batches
          /\ pos[v] \in 1..Len(Payload[running[v]])
          /\ Payload[running[v]] \in Seq(Graphs)
      BY <3>1, CurrentIsGraph, IngestAssumption
    <3>3. i \in DOMAIN Payload[running[v]]
      BY <3>2
    <3> QED BY <3>2, <3>3
  <2>2. Durable(Payload[running[v]][i])
    BY <1>3 DEF WorkerInv
  <2> QED BY <2>1, <2>2, Growth DEF Durable
<1> QED BY <1>1, <1>2, <1>3 DEF WorkerInv, Durable

(* A step of worker w that keeps w's own invariant keeps everyone's. *)
LEMMA WorkerStep ==
    ASSUME TypeOK, TableStep, \A v \in Workers : WorkerInv(v),
           NEW w \in Workers, WorkerInv(w)',
           \A v \in Workers \ {w} :
               /\ running'[v] = running[v]
               /\ step'[v] = step[v]
               /\ pos'[v] = pos[v]
               /\ result'[v] = result[v]
               /\ mode'[v] = mode[v]
               /\ mode[v] = "down" => phase'[v] = phase[v]
    PROVE  \A v \in Workers : WorkerInv(v)'
<1> SUFFICES ASSUME NEW v \in Workers PROVE WorkerInv(v)'
  OBVIOUS
<1>1. CASE v = w
  BY <1>1
<1>2. CASE v # w
  BY <1>2, Bystander
<1> QED BY <1>1, <1>2

(* A step of the exporter, of Postgres or of a dependency moves no handler. *)
LEMMA LoopStands ==
    ASSUME TypeOK, TableStep, \A v \in Workers : WorkerInv(v),
           UNCHANGED <<handler, mode>>,
           \A v \in Workers : mode[v] = "down" => phase'[v] = phase[v]
    PROVE  \A v \in Workers : WorkerInv(v)'
BY Bystander DEF handler

(* A step that acknowledges no further batch keeps AckedIsDurable. *)
LEMMA NoNewAck ==
    ASSUME TypeOK, TableStep, AckedIsDurable,
           \A b \in Batches : status'[b] = "acked" => status[b] = "acked"
    PROVE  AckedIsDurable'
<1> SUFFICES ASSUME NEW b \in Batches, status[b] = "acked", b \notin Malformed,
                    NEW g \in GraphsIn(b)
             PROVE  Durable(g)'
  BY DEF AckedIsDurable, GraphsIn, Durable
<1>1. g \in Graphs
  <2>1. Payload[b] \in Seq(Graphs)
    BY IngestAssumption
  <2> QED BY <2>1 DEF GraphsIn
<1>2. Durable(g)
  BY DEF AckedIsDurable, Durable
<1> QED BY <1>1, <1>2, Growth

(* Only a 200 acknowledges, and only for the batch it answers. *)
LEMMA OnlyA200Acks ==
    ASSUME TypeOK, NEW w \in Workers, NEW b \in Batches, NEW code,
           Answer(w, b, code)
    PROVE  /\ \A c \in Batches \ {b} : status'[c] = status[c]
           /\ code # 200 \/ mode[w] # "postgres" =>
                (status'[b] = "acked" => status[b] = "acked")
BY DEF Answer, Verdict, TypeOK

(* The end of a handler. *)
LEMMA FinishInv ==
    ASSUME TypeOK, TableStep, \A v \in Workers : WorkerInv(v),
           NEW w \in Workers, step[w] # "idle", NEW code, Finish(w, code),
           UNCHANGED <<phase, mode>>
    PROVE  \A v \in Workers : WorkerInv(v)'
<1>1. WorkerInv(w)'
  BY DEF Finish, WorkerInv, TypeOK
<1> QED BY <1>1, WorkerStep DEF Finish, TypeOK

(* An error answer. *)
LEMMA FailureInv ==
    ASSUME TypeOK, TableStep, \A v \in Workers : WorkerInv(v), AckedIsDurable,
           NEW w \in Workers, step[w] # "idle", Finish(w, 500),
           UNCHANGED <<phase, mode>>
    PROVE  (\A v \in Workers : WorkerInv(v)') /\ AckedIsDurable'
<1>1. running[w] \in Batches
  BY CurrentIsGraph
<1>2. \A b \in Batches : status'[b] = "acked" => status[b] = "acked"
  BY <1>1, OnlyA200Acks DEF Finish
<1> QED BY <1>2, FinishInv, NoNewAck

(* The handler moves on from a graph that is durable, if there is a _db:   *)
(* after the last one every graph of the batch is.                         *)
LEMMA AdvanceInv ==
    ASSUME TypeOK, TableStep, \A v \in Workers : WorkerInv(v), AckedIsDurable,
           NEW w \in Workers, step[w] # "idle", Advance(w),
           UNCHANGED <<phase, mode>>,
           mode[w] = "postgres" => DurableNext(Current(w))
    PROVE  (\A v \in Workers : WorkerInv(v)') /\ AckedIsDurable'
<1> DEFINE b == running[w]
<1>1. /\ b \in Batches
      /\ Payload[b] \in Seq(Graphs)
      /\ pos[w] \in 1..Len(Payload[b])
  BY CurrentIsGraph, IngestAssumption
<1>2. b # None /\ mode[w] # "down"
  BY <1>1, IngestAssumption DEF WorkerInv
<1>3. ASSUME mode[w] = "postgres", NEW i \in 1..pos[w]
      PROVE  DurableNext(Payload[b][i])
  <2>1. CASE i = pos[w]
    BY <1>3, <2>1 DEF Current
  <2>2. CASE i # pos[w]
    <3>1. i \in 1..(pos[w] - 1) /\ i \in DOMAIN Payload[b]
      BY <1>1, <2>2
    <3>2. Durable(Payload[b][i])
      BY <1>2, <1>3, <3>1 DEF WorkerInv
    <3>3. Payload[b][i] \in Graphs
      BY <1>1, <3>1
    <3> QED BY <3>2, <3>3, Growth DEF Durable, DurableNext
  <2> QED BY <2>1, <2>2
<1>4. CASE pos[w] < Len(Payload[b])
  <2>1. /\ pos' = [pos EXCEPT ![w] = @ + 1]
        /\ step' = [step EXCEPT ![w] = "attribute"]
        /\ UNCHANGED <<running, result, status, at>>
    BY <1>4 DEF Advance
  <2>2. WorkerInv(w)'
    <3>1. /\ pos'[w] - 1 = pos[w]
          /\ step'[w] = "attribute"
          /\ running'[w] = b
          /\ mode'[w] = mode[w]
      BY <1>1, <2>1 DEF TypeOK
    <3>2. \A i \in 1..(pos'[w] - 1) : mode[w] = "postgres" => DurableNext(Payload[b][i])
      BY <1>3, <3>1
    <3> QED BY <1>2, <3>1, <3>2 DEF WorkerInv, Durable, DurableNext
  <2>3. \A v \in Workers : WorkerInv(v)'
    BY <2>1, <2>2, WorkerStep DEF TypeOK
  <2> QED BY <2>1, <2>3, NoNewAck
<1>5. CASE ~(pos[w] < Len(Payload[b]))
  <2>1. Finish(w, 200)
    BY <1>5 DEF Advance
  <2>2. pos[w] = Len(Payload[b])
    BY <1>1, <1>5
  <2>3. CASE mode[w] = "postgres"
    <3> SUFFICES ASSUME NEW c \in Batches, status'[c] = "acked", c \notin Malformed,
                        NEW g \in GraphsIn(c)
                 PROVE  DurableNext(g)
      BY <2>1, FinishInv DEF AckedIsDurable, GraphsIn, DurableNext
    <3>1. CASE c = b
      <4>1. PICK i \in DOMAIN Payload[b] : g = Payload[b][i]
        BY <3>1 DEF GraphsIn
      <4>2. i \in 1..pos[w]
        BY <1>1, <2>2
      <4> QED BY <1>3, <2>3, <4>1, <4>2
    <3>2. CASE c # b
      <4>1. status[c] = "acked"
        BY <1>1, <2>1, <3>2, OnlyA200Acks DEF Finish
      <4>2. Payload[c] \in Seq(Graphs)
        BY IngestAssumption
      <4>3. g \in Graphs
        BY <4>2 DEF GraphsIn
      <4>4. Durable(g)
        BY <4>1 DEF AckedIsDurable, Durable
      <4> QED BY <4>3, <4>4, Growth DEF Durable, DurableNext
    <3> QED BY <3>1, <3>2
  <2>4. CASE mode[w] # "postgres"
    <3>1. \A c \in Batches : status'[c] = "acked" => status[c] = "acked"
      BY <1>1, <2>1, <2>4, OnlyA200Acks DEF Finish
    <3> QED BY <2>1, <3>1, FinishInv, NoNewAck
  <2> QED BY <2>3, <2>4
<1> QED BY <1>4, <1>5

-----------------------------------------------------------------------------
(* Every reachable state satisfies the inductive invariant IInv.           *)
THEOREM Inductive == Spec => []IInv
<1>1. Init => IInv
  <2> SUFFICES ASSUME Init PROVE (\A w \in Workers : WorkerInv(w)) /\ AckedIsDurable
    BY IngestAssumption DEF Init, IInv, TypeOK, Statuses, Phases, Steps, Modes
  <2>1. \A w \in Workers : WorkerInv(w)
    BY DEF Init, WorkerInv
  <2>2. AckedIsDurable
    BY DEF Init, AckedIsDurable
  <2> QED BY <2>1, <2>2
<1>2. TypeOK /\ TypeOK' /\ IInv /\ [Next]_vars => IInv'
  <2> SUFFICES ASSUME TypeOK, TypeOK', \A v \in Workers : WorkerInv(v),
                      AckedIsDurable, [Next]_vars
               PROVE  (\A v \in Workers : WorkerInv(v)') /\ AckedIsDurable'
    BY DEF IInv
  <2> DEFINE Kept == (\A v \in Workers : WorkerInv(v)') /\ AckedIsDurable'
  <2>0. TableStep
    BY StepOnTables
  <2>1. ASSUME NEW b \in Batches, NEW w \in Workers, Send(w, b)
        PROVE  Kept
    <3>1. \A v \in Workers : mode[v] = "down" => phase'[v] = phase[v]
      BY <2>1 DEF Send, TypeOK
    <3>2. \A c \in Batches : status'[c] = "acked" => status[c] = "acked"
      BY <2>1 DEF Send, TypeOK
    <3> QED BY <2>0, <2>1, <3>1, <3>2, LoopStands, NoNewAck DEF Send
  <2>2. ASSUME NEW b \in Batches, SendRefused(b) \/ GiveUp(b) \/ Disconnect(b)
        PROVE  Kept
    <3>1. UNCHANGED <<handler, mode, phase>>
      BY <2>2 DEF SendRefused, GiveUp, Disconnect
    <3>2. \A c \in Batches : status'[c] = "acked" => status[c] = "acked"
      BY <2>2 DEF SendRefused, GiveUp, Disconnect, TypeOK
    <3> QED BY <2>0, <3>1, <3>2, LoopStands, NoNewAck
  <2>3. ASSUME NEW w \in Workers, NEW b \in Batches,
               Authenticate(w, b) \/ RateLimit(w, b)
        PROVE  Kept
    <3>1. /\ UNCHANGED <<handler, mode>>
          /\ phase[w][b] # "none"
          /\ \A v \in Workers \ {w} : phase'[v] = phase[v]
      BY <2>3 DEF Authenticate, RateLimit, Refuse, TypeOK
    <3>2. mode[w] # "down"
      BY <3>1 DEF WorkerInv
    <3>3. UNCHANGED status \/ \E code \in {401, 429, 503} : Answer(w, b, code)
      BY <2>3 DEF Authenticate, RateLimit, Refuse
    <3>4. \A c \in Batches : status'[c] = "acked" => status[c] = "acked"
      <4>1. ASSUME NEW code \in {401, 429, 503}, Answer(w, b, code)
            PROVE  \A c \in Batches : status'[c] = "acked" => status[c] = "acked"
        <5>1. code # 200
          OBVIOUS
        <5> QED BY <4>1, <5>1, OnlyA200Acks
      <4> QED BY <3>3, <4>1
    <3> QED BY <2>0, <3>1, <3>2, <3>4, LoopStands, NoNewAck
  <2>4. ASSUME NEW w \in Workers, NEW b \in Batches, StartHandler(w, b)
        PROVE  Kept
    <3>1. /\ mode[w] # "down"
          /\ UNCHANGED mode
          /\ \A v \in Workers \ {w} : phase'[v] = phase[v]
      BY <2>4 DEF StartHandler, WorkerInv, Refuse, TypeOK
    <3>2. CASE b \in Malformed
      <4>1. /\ UNCHANGED handler
            /\ \E code \in {400, 500} : Answer(w, b, code)
        BY <2>4, <3>2 DEF StartHandler, Refuse
      <4>2. \A c \in Batches : status'[c] = "acked" => status[c] = "acked"
        BY <4>1, OnlyA200Acks
      <4> QED BY <2>0, <3>1, <4>1, <4>2, LoopStands, NoNewAck
    <3>3. CASE b \notin Malformed /\ Payload[b] = <<>>
      <4>1. UNCHANGED handler /\ Answer(w, b, 200)
        BY <2>4, <3>3 DEF StartHandler, Refuse
      <4>2. AckedIsDurable'
        <5> SUFFICES ASSUME NEW c \in Batches, status'[c] = "acked",
                            c \notin Malformed, NEW g \in GraphsIn(c)
                     PROVE  DurableNext(g)
          BY DEF AckedIsDurable, GraphsIn, DurableNext
        <5>1. c # b
          BY <3>3 DEF GraphsIn
        <5>2. status[c] = "acked"
          BY <4>1, <5>1, OnlyA200Acks
        <5>3. Payload[c] \in Seq(Graphs)
          BY IngestAssumption
        <5>4. g \in Graphs
          BY <5>3 DEF GraphsIn
        <5>5. Durable(g)
          BY <5>2 DEF AckedIsDurable, Durable
        <5> QED BY <2>0, <5>4, <5>5, Growth DEF Durable, DurableNext
      <4> QED BY <2>0, <3>1, <4>1, <4>2, LoopStands
    <3>4. CASE b \notin Malformed /\ Payload[b] # <<>>
      <4>1. /\ running' = [running EXCEPT ![w] = b]
            /\ step' = [step EXCEPT ![w] = "attribute"]
            /\ pos' = [pos EXCEPT ![w] = 1]
            /\ UNCHANGED <<status, result>>
        BY <2>4, <3>4 DEF StartHandler
      <4>2. WorkerInv(w)'
        <5>1. step'[w] = "attribute" /\ pos'[w] = 1 /\ mode'[w] # "down"
          BY <3>1, <4>1 DEF TypeOK
        <5>2. 1..(pos'[w] - 1) = {}
          BY <5>1
        <5> QED BY <5>1, <5>2 DEF WorkerInv
      <4>3. \A v \in Workers : WorkerInv(v)'
        BY <2>0, <3>1, <4>1, <4>2, WorkerStep DEF TypeOK
      <4> QED BY <2>0, <4>1, <4>3, NoNewAck
    <3> QED BY <3>2, <3>3, <3>4
  <2>5. ASSUME NEW w \in Workers, Attribute(w)
        PROVE  Kept
    <3>1. step[w] # "idle" /\ UNCHANGED <<phase, mode>>
      BY <2>5 DEF Attribute
    <3>2. CASE Finish(w, 500)
      BY <2>0, <3>1, <3>2, FailureInv
    <3>3. CASE \E r \in {Current(w), NoAttribution} :
                 result' = [result EXCEPT ![w] = r] /\ Goto(w, "save")
      <4>1. /\ step' = [step EXCEPT ![w] = "save"]
            /\ UNCHANGED <<running, pos, status>>
            /\ \A v \in Workers \ {w} : result'[v] = result[v]
            /\ result'[w] \in {Current(w), NoAttribution}
        BY <3>3 DEF Goto, TypeOK
      <4>2. WorkerInv(w)'
        <5>1. step'[w] = "save"
          BY <4>1 DEF TypeOK
        <5>2. Current(w)' = Current(w)
          BY <4>1 DEF Current
        <5>3. \A i \in 1..(pos'[w] - 1) :
                running[w] # None /\ mode[w] = "postgres" =>
                  Durable(Payload[running[w]][i])
          BY <4>1 DEF WorkerInv
        <5>4. UNCHANGED tables
          BY <2>5 DEF Attribute
        <5> QED BY <3>1, <4>1, <5>1, <5>2, <5>3, <5>4
                DEF WorkerInv, Durable, tables
      <4>3. \A v \in Workers : WorkerInv(v)'
        BY <2>0, <3>1, <4>1, <4>2, WorkerStep DEF TypeOK
      <4> QED BY <2>0, <4>1, <4>3, NoNewAck
    <3> QED BY <2>5, <3>2, <3>3 DEF Attribute
  <2>6. ASSUME NEW w \in Workers, SkipSave(w)
        PROVE  Kept
    BY <2>0, <2>6, AdvanceInv DEF SkipSave
  <2>7. ASSUME NEW w \in Workers, SelectSession(w)
        PROVE  Kept
    <3>1. step[w] = "save" /\ UNCHANGED <<phase, mode, tables>>
      BY <2>7 DEF SelectSession
    <3>2. CASE ~dbUp
      BY <2>0, <2>7, <3>1, <3>2, FailureInv DEF SelectSession
    <3>3. CASE dbUp
      <4>1. PICK s \in {"insert", "score"} :
               /\ Goto(w, s)
               /\ s = "score" => sessions[TraceOf[Current(w)]] # NoSession
        BY <2>7, <3>3 DEF SelectSession
      <4>2. /\ step' = [step EXCEPT ![w] = s]
            /\ UNCHANGED <<running, pos, status, result>>
        BY <2>7, <3>3, <4>1 DEF Goto, SelectSession
      <4>3. WorkerInv(w)'
        <5>1. step'[w] = s
          BY <4>2 DEF TypeOK
        <5>2. mode[w] = "postgres"
          BY <2>7 DEF SelectSession
        <5>3. Current(w)' = Current(w)
          BY <4>2 DEF Current
        <5>4. result[w] \in {Current(w), NoAttribution}
          BY <3>1 DEF WorkerInv
        <5>5. \A i \in 1..(pos[w] - 1) :
                running[w] # None => Durable(Payload[running[w]][i])
          BY <5>2 DEF WorkerInv
        <5> QED BY <3>1, <4>1, <4>2, <5>1, <5>2, <5>3, <5>4, <5>5
                DEF WorkerInv, Durable, tables
      <4>4. \A v \in Workers : WorkerInv(v)'
        BY <2>0, <3>1, <4>2, <4>3, WorkerStep DEF TypeOK
      <4> QED BY <2>0, <4>2, <4>4, NoNewAck
    <3> QED BY <3>2, <3>3
  <2>8. ASSUME NEW w \in Workers, InsertSession(w)
        PROVE  Kept
    <3> DEFINE g == Current(w)
    <3>1. step[w] = "insert" /\ UNCHANGED <<phase, mode>>
      BY <2>8 DEF InsertSession
    <3>2. CASE Finish(w, 500)
      BY <2>0, <3>1, <3>2, FailureInv
    <3>3. CASE ~Finish(w, 500)
      <4>1. /\ sessions' = [sessions EXCEPT ![TraceOf[g]] = Row(g, result[w])]
            /\ step' = [step EXCEPT ![w] = "score"]
            /\ UNCHANGED <<running, pos, status, result, scores>>
        BY <2>8, <3>3 DEF InsertSession, Goto
      <4>2. WorkerInv(w)'
        <5>1. step'[w] = "score" /\ mode[w] = "postgres"
          BY <3>1, <4>1 DEF TypeOK, WorkerInv
        <5>2. Current(w)' = g
          BY <4>1 DEF Current
        <5>3. g \in Graphs /\ TraceOf[g] \in Traces /\ running[w] \in Batches
          BY <3>1, CurrentIsGraph
        <5>4. sessions'[TraceOf[g]] # NoSession
          <6>1. Row(g, result[w]) \in Rows
            BY <5>3 DEF Row, Rows, TypeOK
          <6>2. sessions'[TraceOf[g]] = Row(g, result[w])
            BY <4>1, <5>3 DEF TypeOK
          <6> QED BY <6>1, <6>2, IngestAssumption
        <5>5. ASSUME NEW i \in 1..(pos[w] - 1)
              PROVE  DurableNext(Payload[running[w]][i])
          <6>1. Payload[running[w]] \in Seq(Graphs) /\ running[w] # None
            BY <5>3, IngestAssumption
          <6>2. i \in DOMAIN Payload[running[w]]
            BY <3>1, <6>1, CurrentIsGraph
          <6>3. Payload[running[w]][i] \in Graphs
            BY <6>1, <6>2
          <6>4. Durable(Payload[running[w]][i])
            BY <5>1, <6>1 DEF WorkerInv
          <6> QED BY <2>0, <6>3, <6>4, Growth DEF Durable, DurableNext
        <5> QED BY <3>1, <4>1, <5>1, <5>2, <5>4, <5>5
                DEF WorkerInv, Durable, DurableNext
      <4>3. \A v \in Workers : WorkerInv(v)'
        BY <2>0, <3>1, <4>1, <4>2, WorkerStep DEF TypeOK
      <4> QED BY <2>0, <4>1, <4>3, NoNewAck
    <3> QED BY <3>2, <3>3
  <2>9. ASSUME NEW w \in Workers, RecordScore(w)
        PROVE  Kept
    <3> DEFINE g == Current(w)
    <3>1. step[w] = "score" /\ UNCHANGED <<phase, mode>>
      BY <2>9 DEF RecordScore
    <3>2. CASE Finish(w, 500)
      BY <2>0, <3>1, <3>2, FailureInv
    <3>3. CASE ~Finish(w, 500)
      <4>1. /\ Advance(w)
            /\ scores' = [scores EXCEPT ![g] = @ + 1]
            /\ UNCHANGED sessions
        BY <2>9, <3>3 DEF RecordScore
      <4>2. g \in Graphs
        BY <3>1, CurrentIsGraph
      <4>3. DurableNext(g)
        BY <3>1, <4>1, <4>2 DEF DurableNext, WorkerInv, TypeOK
      <4> QED BY <2>0, <3>1, <4>1, <4>3, AdvanceInv
    <3> QED BY <3>2, <3>3
  <2>10. ASSUME NEW w \in Workers, Boot(w)
         PROVE  Kept
    <3>1. WorkerInv(w)'
      BY <2>10 DEF Boot, handler, WorkerInv, TypeOK
    <3>2. \A v \in Workers : WorkerInv(v)'
      BY <2>0, <2>10, <3>1, WorkerStep DEF Boot, handler, TypeOK
    <3> QED BY <2>0, <2>10, <3>2, NoNewAck DEF Boot, exporter
  <2>11. ASSUME NEW w \in Workers, Crash(w)
         PROVE  Kept
    <3>1. WorkerInv(w)'
      <4>1. /\ running'[w] = None
            /\ step'[w] = "idle"
            /\ phase'[w] = [b \in Batches |-> "none"]
        BY <2>11 DEF Crash, TypeOK
      <4> QED BY <4>1 DEF WorkerInv
    <3>2. \A v \in Workers : WorkerInv(v)'
      BY <2>0, <2>11, <3>1, WorkerStep DEF Crash, TypeOK
    <3>3. \A b \in Batches : status'[b] = "acked" => status[b] = "acked"
      BY <2>11 DEF Crash
    <3> QED BY <2>0, <3>2, <3>3, NoNewAck
  <2>12. CASE PostgresFails \/ PostgresReturns \/ UNCHANGED vars
    <3>1. UNCHANGED <<status, handler, mode, phase>>
      BY <2>12 DEF PostgresFails, PostgresReturns, vars, exporter
    <3> QED BY <2>0, <3>1, LoopStands, NoNewAck
  <2> QED
    BY <2>1, <2>2, <2>3, <2>4, <2>5, <2>6, <2>7, <2>8, <2>9, <2>10, <2>11,
       <2>12 DEF Next, ExporterStep, HandlerStep
<1> QED
  BY <1>1, <1>2, TypeCorrect, PTL DEF Spec

(* An acknowledged batch is in the database, every graph of it             *)
(* (Ingest!AckedIsDurable), whatever crashes, races and resends happen.    *)
THEOREM Durability == Spec => []AckedIsDurable
<1>1. IInv => AckedIsDurable
  BY DEF IInv
<1> QED BY <1>1, Inductive, PTL

(* Ingest implements SessionStore: to the readers of the tables, ingestion *)
(* is a store where the first graph of a trace wins and rows appear whole. *)
THEOREM Implements == Spec => StoreSpec
<1>1. Init => Store!Init
  BY DEF Init, Store!Init
<1>2. IInv /\ [Next]_vars => [Store!Next]_(Store!vars)
  <2> SUFFICES ASSUME IInv, [Next]_vars PROVE [Store!Next]_(Store!vars)
    OBVIOUS
  <2>1. TableStep
    BY StepOnTables DEF IInv
  <2>2. CASE UNCHANGED tables
    BY <2>2 DEF tables, Store!vars
  <2>3. ASSUME NEW g \in Graphs, Count(g)
        PROVE  Store!RecordScore(g)
    BY <2>3 DEF Count, Store!RecordScore
  <2>4. ASSUME NEW g \in Graphs, NEW r \in {g, NoAttribution}, Insert(g, r)
        PROVE  Store!Save(g)
    BY <2>4 DEF Insert, Store!Save, Row, Store!Row
  <2> QED BY <2>1, <2>2, <2>3, <2>4 DEF TableStep, Store!Next
<1> QED BY <1>1, <1>2, Inductive, PTL DEF Spec, StoreSpec, Store!Spec

(* A stored attribution is null or was computed from the stored graph      *)
(* (Ingest!AttributionMatchesGraph).                                       *)
THEOREM NoLeakedAttribution == Spec => []AttributionMatchesGraph
<1>1. Init => AttributionMatchesGraph
  BY DEF Init, AttributionMatchesGraph
<1>2. IInv /\ AttributionMatchesGraph /\ [Next]_vars => AttributionMatchesGraph'
  <2> SUFFICES ASSUME IInv, AttributionMatchesGraph, [Next]_vars
               PROVE  AttributionMatchesGraph'
    OBVIOUS
  <2>1. TableStep /\ TypeOK
    BY StepOnTables DEF IInv
  <2>2. CASE UNCHANGED sessions
    BY <2>2 DEF AttributionMatchesGraph
  <2>3. ASSUME NEW g \in Graphs, NEW r \in {g, NoAttribution}, Insert(g, r)
        PROVE  AttributionMatchesGraph'
    <3>1. Row(g, r).graph = g /\ Row(g, r).attribution = r
      BY DEF Row
    <3> QED BY <2>1, <2>3, <3>1 DEF Insert, AttributionMatchesGraph, TypeOK
  <2> QED BY <2>1, <2>2, <2>3 DEF TableStep, Count, tables
<1> QED BY <1>1, <1>2, Inductive, PTL DEF Spec

(* No reliability row without its session (Ingest!ScoreHasSession).        *)
THEOREM NoOrphanScore == Spec => []ScoreHasSession
<1>1. Init => ScoreHasSession
  BY DEF Init, ScoreHasSession
<1>2. IInv /\ ScoreHasSession /\ [Next]_vars => ScoreHasSession'
  <2> SUFFICES ASSUME IInv, ScoreHasSession, [Next]_vars,
                      NEW h \in Graphs, scores'[h] > 0
               PROVE  sessions'[TraceOf[h]] # NoSession
    BY DEF ScoreHasSession
  <2>1. TableStep /\ TypeOK
    BY StepOnTables DEF IInv
  <2>2. CASE scores'[h] = scores[h]
    BY <2>1, <2>2, Growth DEF ScoreHasSession
  <2>3. ASSUME NEW g \in Graphs, Count(g), scores'[h] # scores[h]
        PROVE  sessions'[TraceOf[h]] # NoSession
    <3>1. h = g
      BY <2>1, <2>3 DEF Count, TypeOK
    <3> QED BY <2>3, <3>1 DEF Count
  <2> QED BY <2>1, <2>2, <2>3 DEF TableStep, Insert, tables
<1> QED BY <1>1, <1>2, Inductive, PTL DEF Spec
-----------------------------------------------------------------------------
(* The inductive invariant behind OneScorePerDelivery: a delivery that may *)
(* still score a graph is in one place, and has not scored it yet.         *)

(* The workers that hold a delivery of b which has not passed graph i.     *)
Owed(b, i) == {w \in Workers : \/ phase[w][b] # "none"
                               \/ running[w] = b /\ pos[w] <= i}

ScoreCount(b, i) ==
    /\ IsFiniteSet(Owed(b, i))
    /\ scores[Payload[b][i]] + Cardinality(Owed(b, i)) <= sends[b]

ScoreInv ==
    /\ \A w \in Workers, b \in Batches : running[w] = b => phase[w][b] = "none"
    /\ \A b \in Batches : \A i \in DOMAIN Payload[b] : ScoreCount(b, i)

(* A graph of a batch is one of the graphs. *)
LEMMA PayloadIsGraph ==
    ASSUME NEW b \in Batches, NEW i \in DOMAIN Payload[b]
    PROVE  i \in Nat /\ Payload[b][i] \in Graphs
<1>1. Payload[b] \in Seq(Graphs)
  BY IngestAssumption
<1> QED BY <1>1

(* Fewer deliveries owe the graph a score, and no score is added. *)
LEMMA FewerOwed ==
    ASSUME TypeOK, TypeOK', NEW b \in Batches, NEW i \in DOMAIN Payload[b],
           ScoreCount(b, i), sends'[b] >= sends[b],
           scores'[Payload[b][i]] = scores[Payload[b][i]],
           Owed(b, i)' \subseteq Owed(b, i)
    PROVE  ScoreCount(b, i)'
<1>1. IsFiniteSet(Owed(b, i))
  BY DEF ScoreCount
<1>2. /\ IsFiniteSet(Owed(b, i)')
      /\ Cardinality(Owed(b, i)') <= Cardinality(Owed(b, i))
      /\ Cardinality(Owed(b, i)') \in Nat /\ Cardinality(Owed(b, i)) \in Nat
  BY <1>1, FS_Subset, FS_CardinalityType
<1>3. scores[Payload[b][i]] \in Nat /\ sends[b] \in Nat /\ sends'[b] \in Nat
  BY PayloadIsGraph DEF TypeOK
<1>4. scores'[Payload[b][i]] + Cardinality(Owed(b, i)') <= sends'[b]
  BY <1>2, <1>3 DEF ScoreCount
<1> QED BY <1>2, <1>4 DEF ScoreCount

(* A delivery is sent to a worker that holds none of the batch. *)
LEMMA SendOwes ==
    ASSUME TypeOK, TypeOK', ScoreInv, NEW w \in Workers, NEW b \in Batches,
           Send(w, b), NEW i \in DOMAIN Payload[b]
    PROVE  ScoreCount(b, i)'
<1> DEFINE O == Owed(b, i)
<1>1. /\ IsFiniteSet(O) /\ w \notin O
      /\ scores[Payload[b][i]] + Cardinality(O) <= sends[b]
  BY DEF ScoreInv, ScoreCount, Owed, Send
<1>2. O' \subseteq O \cup {w}
  <2>1. \A v \in Workers : v # w => phase'[v][b] = phase[v][b]
    BY DEF Send, TypeOK
  <2>2. UNCHANGED <<running, pos>>
    BY DEF Send, handler
  <2> QED BY <2>1, <2>2 DEF Owed
<1>3. /\ sends'[b] = sends[b] + 1 /\ sends[b] \in Nat
      /\ scores' = scores /\ scores[Payload[b][i]] \in Nat
  BY PayloadIsGraph DEF Send, tables, TypeOK
<1> HIDE DEF O
<1>4. /\ IsFiniteSet(O \cup {w}) /\ Cardinality(O \cup {w}) = Cardinality(O) + 1
      /\ Cardinality(O) \in Nat
  BY <1>1, FS_AddElement, FS_CardinalityType
<1>5. /\ IsFiniteSet(O') /\ Cardinality(O') \in Nat
      /\ Cardinality(O') <= Cardinality(O) + 1
  BY <1>2, <1>4, FS_Subset, FS_CardinalityType
<1>6. scores'[Payload[b][i]] + Cardinality(O') <= sends'[b]
  BY <1>1, <1>3, <1>4, <1>5
<1> QED BY <1>5, <1>6 DEF ScoreCount, O

(* The handler that scores a graph has passed it: it advances, or ends. *)
LEMMA PassedGraph ==
    ASSUME TypeOK, NEW w \in Workers, step[w] # "idle",
           Advance(w) \/ Finish(w, 500)
    PROVE  \/ running'[w] = None
           \/ running'[w] = running[w] /\ pos'[w] = pos[w] + 1
BY DEF Advance, Finish, TypeOK

(* The delivery that scores a graph no longer owes it. *)
LEMMA ScoreOwed ==
    ASSUME TypeOK, TypeOK', ScoreInv, NEW w \in Workers, RecordScore(w), dbUp,
           NEW b \in Batches, NEW i \in DOMAIN Payload[b],
           running[w] = b, pos[w] = i
    PROVE  ScoreCount(b, i)'
<1> DEFINE O == Owed(b, i)
           g == Payload[b][i]
<1>1. i \in Nat /\ g \in Graphs /\ step[w] # "idle" /\ b # None
  BY PayloadIsGraph, IngestAssumption DEF RecordScore
<1>2. /\ IsFiniteSet(O) /\ scores[g] + Cardinality(O) <= sends[b]
      /\ w \in O /\ phase[w][b] = "none"
  BY <1>1 DEF ScoreInv, ScoreCount, Owed
<1>3. /\ scores' = [scores EXCEPT ![g] = @ + 1]
      /\ UNCHANGED <<sends, phase>>
      /\ Advance(w) \/ Finish(w, 500)
  BY DEF RecordScore, Current
<1>4. \A v \in Workers \ {w} : running'[v] = running[v] /\ pos'[v] = pos[v]
  BY <1>3 DEF Advance, Finish, TypeOK
<1>5. O' \subseteq O \ {w}
  <2>1. running'[w] = None \/ (running'[w] = b /\ pos'[w] = i + 1)
    BY <1>1, <1>3, PassedGraph
  <2>2. w \notin O'
    BY <1>1, <1>2, <1>3, <2>1 DEF Owed
  <2>3. \A v \in Workers : v # w /\ v \in O' => v \in O
    BY <1>3, <1>4 DEF Owed
  <2>4. O' \subseteq Workers
    BY DEF Owed
  <2> QED BY <2>2, <2>3, <2>4
<1>6. /\ scores'[g] = scores[g] + 1 /\ scores[g] \in Nat
      /\ sends'[b] = sends[b] /\ sends[b] \in Nat
  BY <1>1, <1>3 DEF TypeOK
<1> HIDE DEF O, g
<1>7. /\ IsFiniteSet(O \ {w}) /\ Cardinality(O \ {w}) = Cardinality(O) - 1
      /\ Cardinality(O) \in Nat
  BY <1>2, FS_RemoveElement, FS_CardinalityType
<1>8. /\ IsFiniteSet(O') /\ Cardinality(O') \in Nat
      /\ Cardinality(O') <= Cardinality(O) - 1
  BY <1>5, <1>7, FS_Subset, FS_CardinalityType
<1>9. scores'[g] + Cardinality(O') <= sends'[b]
  BY <1>2, <1>6, <1>7, <1>8
<1> QED BY <1>8, <1>9 DEF ScoreCount, O, g

(* A step that scores no graph counts no delivery that had passed one.     *)
LEMMA NoScore ==
    ASSUME TypeOK, TypeOK', ScoreInv, UNCHANGED scores,
           \A b \in Batches : sends'[b] >= sends[b],
           \A w \in Workers, b \in Batches :
               phase'[w][b] # "none" => phase[w][b] # "none",
           \A w \in Workers :
               \/ running'[w] = running[w] /\ pos'[w] >= pos[w]
               \/ running'[w] = None
               \/ running'[w] \in Batches /\ phase[w][running'[w]] # "none"
    PROVE  \A b \in Batches : \A i \in DOMAIN Payload[b] : ScoreCount(b, i)'
<1> SUFFICES ASSUME NEW b \in Batches, NEW i \in DOMAIN Payload[b]
             PROVE  ScoreCount(b, i)'
  OBVIOUS
<1>1. i \in Nat /\ b # None
  BY PayloadIsGraph, IngestAssumption
<1>2. \A w \in Workers : pos[w] \in Nat /\ pos'[w] \in Nat
  BY DEF TypeOK
<1>3. Owed(b, i)' \subseteq Owed(b, i)
  BY <1>1, <1>2 DEF Owed
<1> QED BY <1>3, FewerOwed DEF ScoreInv

(* Every step keeps the count of scores against deliveries.                *)
LEMMA ScoreStep == IInv /\ TypeOK' /\ ScoreInv /\ [Next]_vars => ScoreInv'
<1> SUFFICES ASSUME IInv, TypeOK, TypeOK', ScoreInv, [Next]_vars
             PROVE  ScoreInv'
  BY DEF IInv
<1> DEFINE Alone == \A w \in Workers, b \in Batches : running[w] = b => phase[w][b] = "none"
           Counted == \A b \in Batches : \A i \in DOMAIN Payload[b] : ScoreCount(b, i)
<1>0. \A b \in Batches : b # None
  BY IngestAssumption
<1>1. ASSUME NEW b \in Batches, NEW w \in Workers, Send(w, b)
      PROVE  ScoreInv'
  <2>1. Alone'
    BY <1>1 DEF Send, handler, ScoreInv, TypeOK
  <2>2. ASSUME NEW c \in Batches, NEW i \in DOMAIN Payload[c]
        PROVE  ScoreCount(c, i)'
    <3>1. CASE c = b
      BY <1>1, <3>1, SendOwes
    <3>2. CASE c # b
      <4>1. /\ sends'[c] = sends[c] /\ sends[c] \in Nat /\ UNCHANGED scores
            /\ Owed(c, i)' \subseteq Owed(c, i)
        BY <1>1, <3>2 DEF Send, handler, tables, TypeOK, Owed
      <4> QED BY <4>1, FewerOwed DEF ScoreInv
    <3> QED BY <3>1, <3>2
  <2> QED BY <2>1, <2>2 DEF ScoreInv
<1>2. ASSUME UNCHANGED <<handler, phase, scores>>,
             \A b \in Batches : sends'[b] >= sends[b]
      PROVE  ScoreInv'
  <2>1. Alone'
    BY <1>2 DEF handler, ScoreInv
  <2>2. \A w \in Workers : running'[w] = running[w] /\ pos'[w] >= pos[w]
    BY <1>2 DEF handler, TypeOK
  <2>3. Counted'
    BY <1>2, <2>2, NoScore
  <2> QED BY <2>1, <2>3 DEF ScoreInv
<1>3. ASSUME NEW w \in Workers, NEW b \in Batches,
             Authenticate(w, b) \/ RateLimit(w, b)
      PROVE  ScoreInv'
  <2>1. /\ UNCHANGED <<handler, scores, sends>>
        /\ phase[w][b] # "none"
        /\ \E p \in Phases : phase' = [phase EXCEPT ![w][b] = p]
    BY <1>3 DEF Authenticate, RateLimit, Refuse, tables, Phases
  <2>2. \A v \in Workers, c \in Batches : phase'[v][c] # "none" => phase[v][c] # "none"
    BY <2>1 DEF TypeOK
  <2>3. \A v \in Workers : running'[v] = running[v] /\ pos'[v] >= pos[v]
    BY <2>1 DEF handler, TypeOK
  <2>4. \A c \in Batches : sends'[c] >= sends[c]
    BY <2>1 DEF TypeOK
  <2>5. Alone'
    BY <2>2, <2>3 DEF ScoreInv
  <2>6. Counted'
    BY <2>1, <2>2, <2>3, <2>4, NoScore
  <2> QED BY <2>5, <2>6 DEF ScoreInv
<1>4. ASSUME NEW w \in Workers, NEW b \in Batches, StartHandler(w, b)
      PROVE  ScoreInv'
  <2>1. /\ phase' = [phase EXCEPT ![w][b] = "none"]
        /\ phase[w][b] # "none"
        /\ UNCHANGED <<sends, scores>>
        /\ \/ UNCHANGED handler
           \/ /\ running' = [running EXCEPT ![w] = b]
              /\ pos' = [pos EXCEPT ![w] = 1]
    BY <1>4 DEF StartHandler, Refuse, tables
  <2>2. \A v \in Workers, c \in Batches : phase'[v][c] # "none" => phase[v][c] # "none"
    BY <2>1 DEF TypeOK
  <2>3. phase'[w][b] = "none"
    BY <2>1 DEF TypeOK
  <2>4. \A v \in Workers :
          \/ running'[v] = running[v] /\ pos'[v] >= pos[v]
          \/ v = w /\ running'[v] = b
    BY <2>1 DEF handler, TypeOK
  <2>5. Alone'
    BY <2>2, <2>3, <2>4 DEF ScoreInv
  <2>6. \A c \in Batches : sends'[c] >= sends[c]
    BY <2>1 DEF TypeOK
  <2>7. Counted'
    BY <2>1, <2>2, <2>4, <2>6, NoScore
  <2> QED BY <2>5, <2>7 DEF ScoreInv
<1>5. ASSUME NEW w \in Workers, step[w] # "idle",
             UNCHANGED <<sends, phase>>,
             \/ \E s \in Steps : Goto(w, s)
             \/ Advance(w)
             \/ Finish(w, 500)
      PROVE  /\ Alone'
             /\ \A v \in Workers :
                  \/ running'[v] = running[v] /\ pos'[v] >= pos[v]
                  \/ running'[v] = None
             /\ \A v \in Workers \ {w} : running'[v] = running[v] /\ pos'[v] = pos[v]
  <2>1. \/ UNCHANGED <<running, pos>>
        \/ running' = running /\ pos' = [pos EXCEPT ![w] = @ + 1]
        \/ running' = [running EXCEPT ![w] = None] /\ pos' = [pos EXCEPT ![w] = 0]
    BY <1>5 DEF Goto, Advance, Finish
  <2>2. ASSUME NEW v \in Workers
        PROVE  \/ running'[v] = running[v] /\ pos'[v] >= pos[v]
               \/ running'[v] = None
    <3>1. pos[v] \in Nat
      BY DEF TypeOK
    <3>2. CASE v # w
      BY <2>1, <3>1, <3>2 DEF TypeOK
    <3>3. CASE v = w
      BY <2>1, <3>1, <3>3 DEF TypeOK
    <3> QED BY <3>2, <3>3
  <2>3. \A v \in Workers \ {w} : running'[v] = running[v] /\ pos'[v] = pos[v]
    BY <2>1 DEF TypeOK
  <2>4. Alone'
    BY <1>0, <1>5, <2>2 DEF ScoreInv
  <2> QED BY <2>2, <2>3, <2>4
<1>6. ASSUME NEW w \in Workers,
             Attribute(w) \/ SkipSave(w) \/ SelectSession(w) \/ InsertSession(w)
      PROVE  ScoreInv'
  <2>1. /\ step[w] # "idle" /\ UNCHANGED <<sends, phase, scores>>
        /\ \/ \E s \in Steps : Goto(w, s)
           \/ Advance(w)
           \/ Finish(w, 500)
    BY <1>6 DEF Attribute, SkipSave, SelectSession, InsertSession, tables, Steps
  <2>2. \A b \in Batches : sends'[b] >= sends[b]
    BY <2>1 DEF TypeOK
  <2>3. Counted'
    BY <1>5, <2>1, <2>2, NoScore
  <2> QED BY <1>5, <2>1, <2>3 DEF ScoreInv
<1>7. ASSUME NEW w \in Workers, RecordScore(w)
      PROVE  ScoreInv'
  <2>1. /\ step[w] # "idle" /\ UNCHANGED <<sends, phase>>
        /\ Advance(w) \/ Finish(w, 500)
    BY <1>7 DEF RecordScore
  <2>2. \A b \in Batches : sends'[b] >= sends[b]
    BY <2>1 DEF TypeOK
  <2>3. CASE ~dbUp
    <3>1. UNCHANGED scores
      BY <1>7, <2>3 DEF RecordScore
    <3>2. Counted'
      BY <1>5, <2>1, <2>2, <3>1, NoScore
    <3> QED BY <1>5, <2>1, <3>2 DEF ScoreInv
  <2>4. CASE dbUp
    <3>1. /\ running[w] \in Batches /\ pos[w] \in DOMAIN Payload[running[w]]
          /\ scores' = [scores EXCEPT ![Payload[running[w]][pos[w]]] = @ + 1]
      BY <1>0, <1>7, <2>1, <2>4, CurrentIsGraph DEF RecordScore, Current, TypeOK
    <3>2. ASSUME NEW b \in Batches, NEW i \in DOMAIN Payload[b]
          PROVE  ScoreCount(b, i)'
      <4>1. CASE b = running[w] /\ i = pos[w]
        BY <1>7, <2>4, <4>1, ScoreOwed
      <4>2. CASE ~(b = running[w] /\ i = pos[w])
        <5>1. Payload[b][i] # Payload[running[w]][pos[w]]
          BY <3>1, <4>2, DistinctGraphs
        <5>2. scores'[Payload[b][i]] = scores[Payload[b][i]]
          BY <3>1, <5>1, PayloadIsGraph DEF TypeOK
        <5>3. i \in Nat /\ \A v \in Workers : pos[v] \in Nat /\ pos'[v] \in Nat
          BY PayloadIsGraph DEF TypeOK
        <5>4. \A v \in Workers :
                \/ running'[v] = running[v] /\ pos'[v] >= pos[v]
                \/ running'[v] = None
          BY <1>5, <2>1
        <5>5. Owed(b, i)' \subseteq Owed(b, i)
          BY <1>0, <2>1, <5>3, <5>4 DEF Owed
        <5> QED BY <2>2, <5>2, <5>5, FewerOwed DEF ScoreInv
      <4> QED BY <4>1, <4>2
    <3> QED BY <1>5, <2>1, <3>2 DEF ScoreInv
  <2> QED BY <2>3, <2>4
<1>8. ASSUME NEW w \in Workers, Crash(w)
      PROVE  ScoreInv'
  <2>1. /\ UNCHANGED <<sends, scores>>
        /\ phase' = [phase EXCEPT ![w] = [b \in Batches |-> "none"]]
        /\ running' = [running EXCEPT ![w] = None]
        /\ pos' = [pos EXCEPT ![w] = 0]
    BY <1>8 DEF Crash, tables
  <2>2. \A v \in Workers, c \in Batches : phase'[v][c] # "none" => phase[v][c] # "none"
    BY <2>1 DEF TypeOK
  <2>3. \A v \in Workers :
          \/ running'[v] = running[v] /\ pos'[v] >= pos[v]
          \/ running'[v] = None
    BY <2>1 DEF TypeOK
  <2>4. Alone'
    BY <1>0, <2>2, <2>3 DEF ScoreInv
  <2>5. \A b \in Batches : sends'[b] >= sends[b]
    BY <2>1 DEF TypeOK
  <2>6. Counted'
    BY <2>1, <2>2, <2>3, <2>5, NoScore
  <2> QED BY <2>4, <2>6 DEF ScoreInv
<1>9. ASSUME NEW b \in Batches, SendRefused(b) \/ GiveUp(b) \/ Disconnect(b)
      PROVE  ScoreInv'
  <2>1. /\ UNCHANGED <<handler, phase, scores>>
        /\ UNCHANGED sends \/ sends' = [sends EXCEPT ![b] = @ + 1]
    BY <1>9 DEF SendRefused, GiveUp, Disconnect, tables
  <2>2. \A c \in Batches : sends'[c] >= sends[c]
    <3> SUFFICES ASSUME NEW c \in Batches PROVE sends'[c] >= sends[c]
      OBVIOUS
    <3>1. sends[c] \in Nat /\ sends \in [Batches -> Nat]
      BY DEF TypeOK
    <3>2. sends'[c] = sends[c] \/ sends'[c] = sends[c] + 1
      BY <2>1, <3>1
    <3> QED BY <3>1, <3>2
  <2> QED BY <1>2, <2>1, <2>2
<1>10. ASSUME UNCHANGED <<handler, phase, scores, sends>>
       PROVE  ScoreInv'
  <2>1. \A c \in Batches : sends'[c] >= sends[c]
    BY <1>10 DEF TypeOK
  <2> QED BY <1>2, <1>10, <2>1
<1>11. ASSUME NEW w \in Workers, Boot(w)
       PROVE  ScoreInv'
  BY <1>10, <1>11 DEF Boot, exporter, tables
<1>12. CASE PostgresFails \/ PostgresReturns \/ UNCHANGED vars
  BY <1>10, <1>12 DEF PostgresFails, PostgresReturns, vars, exporter, tables
<1> QED BY <1>1, <1>3, <1>4, <1>6, <1>7, <1>8, <1>9, <1>11, <1>12
        DEF Next, ExporterStep, HandlerStep

(* Only redelivery multiplies the rows of a graph: no race, crash, outage  *)
(* or lost reply makes one delivery write two (Ingest!OneScorePerDelivery).*)
THEOREM DeliveriesBoundScores == Spec => []OneScorePerDelivery
<1>1. Init => ScoreInv
  <2> SUFFICES ASSUME Init PROVE ScoreInv
    OBVIOUS
  <2>1. \A b \in Batches, i \in Nat : Owed(b, i) = {}
    BY IngestAssumption DEF Init, Owed
  <2>2. ASSUME NEW b \in Batches, NEW i \in DOMAIN Payload[b]
        PROVE  ScoreCount(b, i)
    <3>1. Owed(b, i) = {} /\ scores[Payload[b][i]] = 0 /\ sends[b] = 0
      BY <2>1, PayloadIsGraph DEF Init
    <3> QED BY <3>1, FS_EmptySet DEF ScoreCount
  <2> QED BY <2>2 DEF Init, ScoreInv
<1>2. TypeOK /\ ScoreInv => OneScorePerDelivery
  <2> SUFFICES ASSUME TypeOK, ScoreInv, NEW b \in Batches, NEW i \in DOMAIN Payload[b]
               PROVE  scores[Payload[b][i]] <= sends[b]
    BY DEF OneScorePerDelivery, GraphsIn
  <2>1. ScoreCount(b, i)
    BY DEF ScoreInv
  <2>2. Cardinality(Owed(b, i)) \in Nat
    BY <2>1, FS_CardinalityType DEF ScoreCount
  <2>3. scores[Payload[b][i]] \in Nat /\ sends[b] \in Nat
    BY PayloadIsGraph DEF TypeOK
  <2> QED BY <2>1, <2>2, <2>3 DEF ScoreCount
<1> QED BY <1>1, <1>2, ScoreStep, Inductive, TypeCorrect, PTL DEF Spec
=============================================================================
