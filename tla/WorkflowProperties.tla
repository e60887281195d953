-------------------------- MODULE WorkflowProperties --------------------------
(***************************************************************************)
(* What a ticket's journey through the graph must, and must never, do.     *)
(***************************************************************************)
EXTENDS Workflow

\* The positions of node n in the audit trail.
Visits(n)  == {i \in DOMAIN state.events : state.events[i].node = n}
Visited(n) == Visits(n) # {}

AtLeastOne(n) == IF n > 1 THEN n ELSE 1

\* Tool calls a ticket may use.  Every route but "error" calls the tool before
\* it first counts an attempt; the error route counts one first.
CallBudget ==
  IF state.route = "error" THEN AtLeastOne(state.max_attempts) - 1
  ELSE AtLeastOne(state.max_attempts)

Calls == Len(state.tool_results)

\* Type correctness of the machine: AgentState as declared in state.py, and
\* the engine's own bookkeeping.
TypeOK ==
  /\ state \in AgentStates
  /\ node \in NodeNames \cup {"END"}
  /\ status \in {"running", "interrupted", "done", "raised"}
  /\ superstep \in 0..RecursionLimit
  /\ interrupt_enabled \in BOOLEAN
  /\ declined \in BOOLEAN
  /\ outages \in Nat

-------------------------------------------------------------------------------
(* Human in the loop *)

\* On the risky route no tool call precedes the event of an approval that was
\* granted, retries included (graph.py wiring, tests/test_graph_behavior.py:103).
RiskyGate ==
  state.route = "risky" =>
    \A i \in Visits("tool") : \E j \in Visits("approval") :
      j < i /\ state.events[j].event_type = "approved"

\* The tool executes the proposed action for approved risky tickets and for no
\* others, and fails on the error route only (tool_node).
EffectsMatchRoute ==
  \A i \in DOMAIN state.tool_results :
    CASE state.tool_results[i] = "executed" ->
           state.route = "risky" /\ state.approval = "approved"
      [] state.tool_results[i] = "error"  -> state.route = "error"
      [] state.tool_results[i] = "lookup" -> state.route \in {"tool", "error"}

\* What waits for the reviewer is an action on record, shown with risk "high"
\* whatever risk the model attached to it (classify_node, risky_action_node).
ReviewerSeesHighRisk ==
  node = "approval" =>
    state.risk_level = "high" /\ state.proposed_action = "proposed"

\* A request a human declined is never carried out
\* (tests/test_graph_behavior.py:119-120).
DeclinedNeverExecutes ==
  declined => "executed" \notin ToSet(state.tool_results)

\* No later node of the journey revises a decision (approval is overwrite-on-
\* write and the retry loop passes through many nodes after it).
DecisionIsFinal ==
  [][state.approval # None => state'.approval = state.approval]_vars

-------------------------------------------------------------------------------
(* The retry loop *)

\* The tool is called at most max_attempts times, once less on the error
\* route, and at least once elsewhere even for a budget of zero or less.
CallsWithinBudget == Calls <= CallBudget

\* A ticket reaches the dead letter only when its whole budget is spent, never
\* one call early (route_after_retry, retry_or_fallback_node).
EscalationIsLastResort ==
  Visited("dead_letter") =>
    /\ state.attempt >= state.max_attempts
    /\ Calls = CallBudget

\* No answer is written on top of a failed tool call or of a result sent back
\* for a retry: the verdict the router reads belongs to the latest result,
\* also when the judge cannot be reached (evaluate_node, route_after_evaluate).
AnswersRestOnSuccess ==
  Visited("answer") /\ Calls > 0 =>
    /\ Last(state.tool_results) # "error"
    /\ state.evaluation_result = "success"

\* An error-route ticket is answered only after two counted attempts, so it
\* takes a budget of three: the tool fails while attempt < 2 and
\* route_after_retry stops at attempt = max_attempts.
ErrorRouteNeedsBudgetOfThree ==
  state.route = "error" /\ Visited("answer") =>
    state.attempt >= 2 /\ state.max_attempts >= 3

\* The results the judge was asked about: those without the failure marker.
Judged ==
  {i \in DOMAIN state.tool_results :
     i <= Cardinality(Visits("evaluate")) /\ state.tool_results[i] # "error"}

\* Model calls of a ticket: to classify it, to judge a result, to reply.
ModelCalls ==
  Cardinality(Visits("classify") \cup Visits("answer") \cup Visits("clarify"))
    + Cardinality(Judged)

\* The retry loop buys model calls as well as tool calls: a ticket takes one to
\* classify, one to reply and no more verdicts than its budget has tool calls,
\* the failed ones not counted (the quota llm.py:23-25 worries about).
ModelCallsWithinBudget ==
  ModelCalls + Cardinality({i \in DOMAIN state.tool_results :
                              state.tool_results[i] = "error"}) <= CallBudget + 2

\* The engine's super-step limit stops a ticket only when its retry budget is
\* too large for it: the longest journey takes 3 * max_attempts + 6 nodes.
RaiseNeedsLargeBudget ==
  status = "raised" =>
    RecursionLimit < 3 * AtLeastOne(state.max_attempts) + 6

-------------------------------------------------------------------------------
(* Degradation and termination *)

\* Every model call that raised left its own entry in errors, next to those of
\* the retries and of the dead letter; nothing is swallowed (nodes.py:15-18).
FailuresAreRecorded ==
  Len(state.errors) =
    outages + state.attempt + (IF Visited("dead_letter") THEN 1 ELSE 0)

\* The route the system prompt of the classifier asks for.
prompt_route(query) ==
  IF "risky" \in query THEN "risky"
  ELSE IF "lookup" \in query THEN "tool"
  ELSE IF "brief" \in query THEN "missing_info"
  ELSE IF "failure" \in query THEN "error"
  ELSE "simple"

\* A classifier that cannot be reached costs no safety: the keywords choose the
\* route in the order of the prompt, so a ticket with a risky word still waits for
\* approval.  The one departure is a failure named in few words, which is retried
\* where the prompt would ask the user (nodes.py:129-130, 138-145).
OutageKeepsTheOrder ==
  (\E e \in ToSet(state.errors) : e.source = "classify") =>
    \/ state.route = prompt_route(state.query)
    \/ /\ state.route = "error"
       /\ prompt_route(state.query) = "missing_info"
       /\ {"failure", "brief"} \subseteq state.query

\* A finished run passed finalize once, as its last node, and wrote one reply:
\* an answer, a question to the user, or the notice of escalation.
FinishedRunsReplyOnce ==
  status = "done" =>
    /\ Visits("finalize") = {Len(state.events)}
    /\ \E n \in {"answer", "clarify", "dead_letter"} :
         /\ Visits(n) = {Len(state.events) - 1}
         /\ \A m \in {"answer", "clarify", "dead_letter"} \ {n} : ~Visited(m)
         /\ state.final_answer \in
              CASE n = "answer"      -> {"generated", "templated"}
                [] n = "clarify"     -> {"question"}
                [] n = "dead_letter" -> {"escalated"}
         /\ state.pending_question # None <=> n = "clarify"

\* An invocation returns: the ticket is answered, or waits for its reviewer.
InvocationReturns ==
  status = "running" ~>
    \/ status = "interrupted"
    \/ status = "done" /\ state.final_answer # None

-------------------------------------------------------------------------------
(* Statements of the documentation *)

\* "the user gets an honest answer" (nodes.py:564): the dead letter says the
\* request could not be completed, so nothing was executed.
EscalationIsHonest ==
  state.final_answer = "escalated" =>
    "executed" \notin ToSet(state.tool_results)

===============================================================================
