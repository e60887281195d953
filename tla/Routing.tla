------------------------------- MODULE Routing -------------------------------
(***************************************************************************)
(* The four routers behind the conditional edges of the graph              *)
(* (routing.py).  Each reads the state and returns the next node.  An      *)
(* operator commented as a mutant is a wrong version of the next one, kept *)
(* to show which property notices the mistake; nothing else refers to it.  *)
(***************************************************************************)
EXTENDS AgentState

RouteToNode ==
  [simple       |-> "answer",
   tool         |-> "tool",
   missing_info |-> "clarify",
   risky        |-> "risky_action",
   error        |-> "retry"]

\* Mutant: a risky ticket goes straight to the tool.
route_after_classify_ungated(s) ==
  IF s.route = "risky" THEN "tool" ELSE RouteToNode[s.route]

\* Mutant: a risky ticket goes to its reviewer without a prepared proposal.
route_after_classify_unprepared(s) ==
  IF s.route = "risky" THEN "approval" ELSE RouteToNode[s.route]

\* An unknown route falls back to "answer".
route_after_classify(s) ==
  IF s.route \in DOMAIN RouteToNode THEN RouteToNode[s.route] ELSE "answer"

route_after_evaluate(s) ==
  IF s.evaluation_result = "needs_retry" THEN "retry" ELSE "answer"

\* Mutant: one attempt too many.
route_after_retry_inclusive(s) ==
  IF s.attempt <= s.max_attempts THEN "tool" ELSE "dead_letter"

\* Mutant: one attempt too few.
route_after_retry_early(s) ==
  IF s.attempt + 1 < s.max_attempts THEN "tool" ELSE "dead_letter"

\* Mutant: the name of the successor is not the registered one.
route_after_retry_misnamed(s) ==
  IF s.attempt < s.max_attempts THEN "tool" ELSE "dead-letter"

route_after_retry(s) ==
  IF s.attempt < s.max_attempts THEN "tool" ELSE "dead_letter"

\* Mutant: any decision on record opens the gate.
route_after_approval_lenient(s) ==
  IF s.approval # None THEN "tool" ELSE "clarify"

route_after_approval(s) ==
  IF s.approval = "approved" THEN "tool" ELSE "clarify"

===============================================================================
