------------------------------ MODULE MCWorkflow ------------------------------
(***************************************************************************)
(* Constants for model checking the workflow.                              *)
(***************************************************************************)
EXTENDS WorkflowRefinement

AllQueries == SUBSET KeywordFacts

\* The text of an exception matters to the report only.
SomeException == {"raised"}

\* One ticket for each route the heuristic knows, and one with two facts.
SomeQueries ==
  {{"risky"}, {"lookup"}, {"failure"}, {"brief"}, {}, {"failure", "brief"}}

\* max_attempts of a scenario that does not set it.
DefaultBudget == {3}

\* Below, at and above every boundary the retry loop compares with.
SmallBudgets == -1..4

\* Both bounds of the loop: small budgets, the largest that fits a limit of 25 on every
\* route, and one more.
BothBounds == SmallBudgets \cup {6, 7}

MockOnly   == {FALSE}
HumanOnly  == {TRUE}
MixedModes == BOOLEAN

NoReplies == {}
TextNo    == {[form |-> "bare", value |-> "no"]}

===============================================================================
