----------------------------- MODULE Evaluation -----------------------------
(***************************************************************************)
(* The evaluation programs (agent_reflex/eval): each walks one or more     *)
(* suites of labelled traces, rebuilds every trace's graph, runs the       *)
(* attribution engine on it and compares the step the engine blames with   *)
(* the label.  The engine is module Attribution, question by question, and *)
(* the oracle behind it is assumed truthful about the label; requests may  *)
(* still be malformed or fail.  Whether the classifier names the right     *)
(* mode is left out.                                                       *)
(***************************************************************************)
EXTENDS Attribution, Sequences

CONSTANTS
    Runs,        \* bound: n_runs of an iterated evaluation
    Datasets,    \* what the two benchmark directories may hold: pairs of suites
    NoNumber,    \* an id without an underscore
    NotANumber   \* something else than a number behind its last underscore

(* How the id of a step ends: any number behind its last underscore, which *)
(* need not be the position of the step nor different from the others.     *)
Endings == 0..MaxIndex \cup {NoNumber, NotANumber}

Step == [flagged : BOOLEAN, subtask : Subtasks \cup {NoSubtask}]

(* A labelled trace: the label names one of its steps.                     *)
Labelled ==
    {t \in [steps : Seq(Step), ids : Seq(Endings), fault : Nat,
            kind : {"content", "environment"}] :
        /\ Len(t.steps) <= MaxNodes
        /\ Len(t.ids) = Len(t.steps)
        /\ t.fault \in DOMAIN t.steps}

(* The scenarios have up to four steps, numbered from 1.                   *)
ASSUME EvaluationAssumption ==
    /\ Runs \in Nat \ {0}
    /\ {"a", "b", "c"} \subseteq Subtasks
    /\ 4 <= MaxNodes /\ MaxNodes <= MaxIndex
    /\ Datasets \subseteq Seq(Labelled) \X Seq(Labelled)
    /\ NoNumber \notin Nat
    /\ NotANumber \notin Nat \cup {NoNumber}

VARIABLES
    program,   \* which evaluation runs
    datasets,  \* the Who&When traces and the TraceElephant traces
    suite,     \* number of the suite under way
    at,        \* number of the trace under way
    phase,     \* build or attribute
    details,   \* comparisons with the label in this suite
    reports,   \* the details of the suites that are finished
    outcome    \* running, reported, raised (an exception) or refused (no key)

vars == <<engine, program, datasets, suite, at, phase, details, reports, outcome>>

-----------------------------------------------------------------------------
(* The synthetic scenarios.  A step is its error flag and its subtask; the *)
(* number in its id is its position and its step_index.                    *)
Err(s) == [flagged |-> TRUE, subtask |-> s]
Ok(s) == [flagged |-> FALSE, subtask |-> s]

(* The label: the step at fault, and whether its fault is environmental    *)
(* (the true mode is an infra_ one).                                       *)
Numbered(steps) == [i \in DOMAIN steps |-> i]
Content(n, steps) ==
    [steps |-> steps, ids |-> Numbered(steps), fault |-> n, kind |-> "content"]
Infra(n, steps) ==
    [steps |-> steps, ids |-> Numbered(steps), fault |-> n, kind |-> "environment"]

(* From coord_misaligned_assumptions to infra_context_window. *)
OverviewScenarios ==
    << Content(1, <<Err("a"), Err("b"), Ok("b")>>),
       Content(1, <<Err("a"), Ok("b")>>),
       Content(1, <<Err("a")>>),
       Infra(1, <<Err("a"), Err("a")>>),
       Content(1, <<Err("a")>>),
       Infra(3, <<Ok("a"), Ok("a"), Err("a")>>) >>

(* spec_incomplete, spec_contradictory, spec_missing. *)
SpecificationScenarios ==
    << Content(1, <<Err("a"), Err("b")>>),
       Content(1, <<Err("a"), Ok("b")>>),
       Content(1, <<Err("a"), Ok("b")>>) >>

(* coord_misaligned_goals, coord_resource_contention, coord_deadlock. *)
CoordinationScenarios ==
    << Content(2, <<Ok("a"), Err("b")>>),
       Content(2, <<Ok("a"), Err("b")>>),
       Content(1, <<Err("a"), Err("b"), Err("a")>>) >>

(* verif_underconfident, verif_wrong_criterion, verif_self_inconsistent. *)
VerificationScenarios ==
    << Content(1, <<Err("a"), Ok("a")>>),
       Content(1, <<Err("a"), Ok("b")>>),
       Content(1, <<Err("a"), Err("a")>>) >>

(* task_derailment, infra_cascade_timeout, infra_unknown. *)
CascadeScenarios ==
    << Content(1, <<Err("a"), Ok("b")>>),
       Infra(1, <<Err("a"), Err("a"), Err("a")>>),
       Infra(1, <<Err("a"), Err("a")>>) >>

(* Mutant: the decoys are labelled with the transient error. *)
RecoveredScenarios_First ==
    << Content(1, <<Err("a"), Ok("a"), Err("b"), Ok("c")>>),
       Content(1, <<Err("a"), Ok("a"), Err("b"), Ok("c")>>),
       Content(1, <<Err("a"), Ok("a"), Err("b"), Ok("c")>>),
       Content(1, <<Err("a"), Ok("a"), Err("b"), Err("c")>>) >>

(* An early transient error recovers, and the fault comes later. *)
RecoveredScenarios ==
    << Content(3, <<Err("a"), Ok("a"), Err("b"), Ok("c")>>),
       Content(3, <<Err("a"), Ok("a"), Err("b"), Ok("c")>>),
       Content(3, <<Err("a"), Ok("a"), Err("b"), Ok("c")>>),
       Content(3, <<Err("a"), Ok("a"), Err("b"), Err("c")>>) >>

Scenarios ==
    OverviewScenarios \o SpecificationScenarios \o CoordinationScenarios
      \o VerificationScenarios \o CascadeScenarios \o RecoveredScenarios

-----------------------------------------------------------------------------
Programs == {"eval", "iterated", "comparison", "ablation", "benchmark"}

(* n_runs times the same, with one engine. *)
Iterated == [r \in 1..Runs |-> Scenarios]

(* The plain engine and then the redacted one, whose settings differ only  *)
(* in redaction_enabled, which the engine never reads.                     *)
Ablation == <<Scenarios, Scenarios>>

(* Who&When and then TraceElephant, as their loaders return them.          *)
CrossBenchmark == datasets

(* The suites a program walks.                                             *)
Plan ==
    CASE program = "iterated" -> Iterated
      [] program = "ablation" -> Ablation
      [] program = "benchmark" -> CrossBenchmark
      [] OTHER -> <<Scenarios>>

Trace == Plan[suite][at]

(* step_index, from the number behind the last underscore of the step's    *)
(* id; ids without an underscore all get 0, and int() raises on the rest.  *)
StepIndex(trace, n) == IF trace.ids[n] = NoNumber THEN 0 ELSE trace.ids[n]

Unparsable(trace) == \E n \in DOMAIN trace.steps : trace.ids[n] = NotANumber

BuildGraph(trace) ==
    [subtask |-> [n \in DOMAIN trace.steps |-> trace.steps[n].subtask],
     flagged |-> [n \in DOMAIN trace.steps |-> trace.steps[n].flagged],
     index |-> [n \in DOMAIN trace.steps |-> StepIndex(trace, n)]]

(* Mutant: the error reported last, by analogy with the walk backward. *)
NaiveCause_Last ==
    LET flagged == {n \in Nodes : graph.flagged[n]}
    IN  IF flagged = {} THEN NoNode
        ELSE CHOOSE n \in flagged : \A m \in flagged : ~Before(n, m)

(* NaiveEarliestErrorBaseline. *)
NaiveCause ==
    LET flagged == {n \in Nodes : graph.flagged[n]}
    IN  IF flagged = {} THEN NoNode ELSE First(flagged)

-----------------------------------------------------------------------------
(* What a truthful oracle may say of a set of steps: where the fault is,   *)
(* its kind; of what comes after it, anything an innocent victim of that   *)
(* fault may show; of what comes before it, that it is not at fault, and   *)
(* at most hit by an environment that recovered.                           *)
Truth(S) ==
    LET fault == Trace.fault
    IN  IF fault \in S THEN {Trace.kind}
        ELSE IF \E n \in S : Before(fault, n)
        THEN IF Trace.kind = "content" THEN Verdicts ELSE Verdicts \ {"content"}
        ELSE IF Trace.kind = "content" THEN {"correct", "environment"}
        ELSE {"correct"}

OracleIsTruthful ==
    /\ \A s \in Keys : verdict'[s] # verdict[s] =>
         verdict'[s] \in Truth({n \in Nodes : Key(n) = s})
    /\ \A n \in Nodes : judged'[n] # judged[n] => judged'[n] \in Truth({n})

-----------------------------------------------------------------------------
(* The engine before its first trace. *)
Fresh(g) ==
    /\ graph' = g
    /\ pc' = "classify"
    /\ attempt' = 0
    /\ verdict' = [s \in Keys |-> "unjudged"]
    /\ judged' = [n \in DOMAIN g.subtask |-> "unjudged"]
    /\ cause' = NoNode
    /\ crs' = NoScore
    /\ calls' = 0

Init ==
    /\ program \in Programs
    /\ datasets \in IF program = "benchmark" THEN Datasets
                    ELSE {<< <<>>, <<>> >>}
    /\ outcome \in {"running", "refused"}
    /\ suite = 1
    /\ at = 1
    /\ phase = "build"
    /\ details = <<>>
    /\ reports = <<>>
    /\ graph = BuildGraph([steps |-> <<>>, ids |-> <<>>])
    /\ EngineStart

Running == outcome = "running"

(* build_graph_from_scenario, build_graph_from_trace.                      *)
Build ==
    /\ Running /\ phase = "build" /\ at <= Len(Plan[suite])
    /\ IF Unparsable(Trace)
       THEN outcome' = "raised" /\ UNCHANGED <<engine, phase>>
       ELSE Fresh(BuildGraph(Trace)) /\ phase' = "attribute" /\ UNCHANGED outcome
    /\ UNCHANGED <<program, datasets, suite, at, details, reports>>

(* engine.attribute, one request after the other. *)
Attribute ==
    /\ Running /\ phase = "attribute"
    /\ EngineNext
    /\ OracleIsTruthful
    /\ UNCHANGED <<program, datasets, suite, at, phase, details, reports, outcome>>

(* The comparison with the label; the comparison program asks the baseline *)
(* about the same graph.                                                   *)
Compare ==
    /\ Running /\ phase = "attribute" /\ pc = "done"
    /\ details' = Append(details,
         [step |-> cause = Trace.fault,
          naive |-> program = "comparison" /\ NaiveCause = Trace.fault])
    /\ at' = at + 1
    /\ phase' = "build"
    /\ UNCHANGED <<engine, program, datasets, suite, reports, outcome>>

(* The suite is summed up; a benchmark without traces is reported as       *)
(* missing, and the other one still runs.                                  *)
CloseSuite ==
    /\ Running /\ phase = "build" /\ at > Len(Plan[suite])
    /\ reports' = Append(reports, details)
    /\ details' = <<>>
    /\ at' = 1
    /\ IF suite = Len(Plan)
       THEN outcome' = "reported" /\ UNCHANGED suite
       ELSE suite' = suite + 1 /\ UNCHANGED outcome
    /\ UNCHANGED <<engine, program, datasets, phase>>

(* Mutant: a trace that could not be attributed is left out. *)
Raise_Skips ==
    /\ Running /\ phase = "attribute" /\ pc = "failed"
    /\ at' = at + 1
    /\ phase' = "build"
    /\ UNCHANGED <<engine, program, datasets, suite, details, reports, outcome>>

(* Nothing catches what the engine raises: the program ends.               *)
Raise ==
    /\ Running /\ phase = "attribute" /\ pc = "failed"
    /\ outcome' = "raised"
    /\ UNCHANGED <<engine, program, datasets, suite, at, phase, details, reports>>

Next ==
    \/ Build
    \/ Attribute
    \/ Compare
    \/ CloseSuite
    \/ Raise

(* The client's timeout ends every request. *)
Spec == Init /\ [][Next]_vars /\ WF_vars(Next)

-----------------------------------------------------------------------------
(* Every variable stays in its range, on every trace of every program.     *)
TypeOK ==
    /\ cause \in Nodes \cup {NoNode}
    /\ crs \in 0..100 \cup {NoScore}
    /\ pc = "done" => cause \in Nodes /\ crs # NoScore
    /\ program \in Programs
    /\ suite \in 1..Len(Plan)
    /\ at \in 1..(Len(Plan[suite]) + 1)
    /\ phase \in {"build", "attribute"}
    /\ details \in Seq([step : BOOLEAN, naive : BOOLEAN])
    /\ reports \in Seq(Seq([step : BOOLEAN, naive : BOOLEAN]))
    /\ outcome \in {"running", "reported", "raised", "refused"}

(* A label the engine can confirm at all: the step carries the error flag  *)
(* and a subtask.  The oracle judges a subtask as a whole, so when the     *)
(* fault is environmental, subtasks with an error before it are over then, *)
(* or the victims after it would make the earlier error look like one.     *)
Findable(trace) ==
    LET step == trace.steps[trace.fault]
    IN  /\ step.flagged
        /\ step.subtask # NoSubtask
        /\ trace.kind = "environment" =>
             \A m, n \in Nodes :
                 Before(m, trace.fault) /\ graph.flagged[m] /\ Key(m) = Key(n) =>
                     Before(n, trace.fault)

(* Where the oracle tells the truth the engine blames the step at fault:   *)
(* in every scenario, decoys included, and on every benchmark trace whose  *)
(* label can be confirmed.  A miss in a measured run is then the oracle's  *)
(* and not the walk's (engine.py 145-203, README 268-273).                 *)
TrueCauseIsFound ==
    phase = "attribute" /\ Chosen /\ Findable(Trace) => cause = Trace.fault

Hits(report, who) == Cardinality({i \in DOMAIN report : report[i][who]})

(* README 268 and 282: the base scenarios were designed so the earliest    *)
(* error is the cause, and the decoys defeat any earliest-error shortcut.  *)
(* The comparison counts the baseline right on the former alone, and the   *)
(* engine right on all of them (runner.py 558-623).                        *)
OnlyDecoysDefeatTheBaseline ==
    outcome = "reported" /\ program = "comparison" =>
        /\ Hits(reports[1], "step") = Len(Scenarios)
        /\ Hits(reports[1], "naive") = Len(Scenarios) - Len(RecoveredScenarios)

(* The percentages divide by the number of traces, so a report must have   *)
(* one comparison for each of them, in every suite: an exception leaves no *)
(* report rather than a partial one (runner.py 473, 488-515, 543-544).     *)
ReportIsWhole ==
    /\ \A i \in DOMAIN reports : Len(reports[i]) = Len(Plan[i])
    /\ outcome = "reported" => Len(reports) = Len(Plan)

(* Every evaluation ends, with a report or without (runner.py 462-623).    *)
EvaluationEnds == <>(outcome # "running")
=============================================================================
