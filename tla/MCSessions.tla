----------------------------- MODULE MCSessions -----------------------------
(* Small instances of Sessions: no filter, or a filter on one agent.       *)
EXTENDS Sessions

SomeFilters == {"all", "one"}
SomeMatching == [f \in SomeFilters |-> IF f = "all" THEN Agents ELSE {CHOOSE a \in Agents : TRUE}]
=============================================================================
