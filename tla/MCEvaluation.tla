---------------------------- MODULE MCEvaluation ----------------------------
(* The evaluation of the 22 scenarios, and of small benchmark directories. *)
EXTENDS Evaluation, TLC

(* Every labelled trace of up to two steps: flags and subtasks missing or  *)
(* not, the label anywhere, and ids that number the steps forward,         *)
(* backward or alike, with and without numbers.  Of three steps, forward   *)
(* and, with a subtask on every step, backward.                            *)
Steps == [flagged : BOOLEAN, subtask : {"a", Default, NoSubtask}]
OwnedSteps == [flagged : BOOLEAN, subtask : {"a", Default}]

Traces(n, steps, ids) ==
    [steps : [1..n -> steps], ids : ids, fault : 1..n, kind : {"content", "environment"}]

SomeTraces ==
    Traces(1, Steps, {<<2>>, <<NoNumber>>, <<NotANumber>>})
      \cup Traces(2, Steps, {<<1, 2>>, <<2, 1>>, <<2, 2>>, <<NoNumber, NoNumber>>,
                             <<1, NoNumber>>, <<1, NotANumber>>})
      \cup Traces(3, Steps, {<<1, 2, 3>>})
      \cup Traces(3, OwnedSteps, {<<3, 2, 1>>})

(* One directory holds a trace; the other holds one of its own or nothing. *)
SomeDatasets ==
    LET short == [steps |-> <<[flagged |-> TRUE, subtask |-> "a"]>>,
                  ids |-> <<NoNumber>>, fault |-> 1, kind |-> "content"]
    IN  {<< <<t>>, <<>> >> : t \in SomeTraces} \cup {<< <<>>, <<>> >>, << <<>>, <<short, short>> >>}
SomeConfidences == {250}
=============================================================================
