-------------------------------- MODULE Nodes --------------------------------
(***************************************************************************)
(* The node functions of the graph (nodes.py), each with the reducers of   *)
(* state.py applied to the partial update it returns: a plain field is     *)
(* overwritten, a list field is appended to.                               *)
(*                                                                         *)
(* What a language model or a human contributes is a parameter.  A model   *)
(* call that raises, after the rate-limit retries of call_with_retry, is   *)
(* one of Exceptions: the text of the exception goes into errors, and it   *)
(* may mention "dead_letter" ("raised_naming").  Mutants as in Routing.    *)
(***************************************************************************)
EXTENDS AgentState

CONSTANT Exceptions  \* The exceptions a model call may raise.

ASSUME ExceptionsAssumption == Exceptions \subseteq {"raised", "raised_naming"}

(* What the provider may return. *)

Classification == [route : CLASSIFIABLE_ROUTES, risk_level : RiskLevels]
Outages        == [route : {""}, exception : Exceptions]
ClassifyReplies == Classification \cup Outages

Judgements == {"satisfactory", "unsatisfactory"} \cup Exceptions
Texts      == {"text", "empty"} \cup Exceptions

\* f"{node}: {type(exc).__name__}: {exc}"
exception_entry(n, exception) == make_error(n, exception = "raised_naming")

(* What a human may pass to Command(resume=...): a dict, with or without   *)
(* the key "approved", or a bare value; "yes" and "no" are text.           *)

HumanReplies ==
  [form : {"dict"}, value : {"True", "False", "yes", "no", "absent"}]
    \cup [form : {"bare"}, value : {"True", "False", "yes", "no"}]

\* The replies the approval request asks for: {'approved': true|false}.
StructuredReplies == [form : {"dict"}, value : {"True", "False"}]

Declines(reply) == reply.value \in {"False", "no"}

\* Mutant: the presence of a decision is taken for the decision.
Approves_any_reply(reply) == reply.value # "absent"

\* bool(raw) of a bare reply, bool(raw.get("approved", False)) of a dict:
\* a text is true as soon as it is not empty.
Approves(reply) == reply.value \notin {"False", "absent"}

-------------------------------------------------------------------------------

\* Mutant: a word of the lookup list hides a risky one.
heuristic_route_lookup_first(query) ==
  IF "lookup" \in query THEN "tool"
  ELSE IF "risky" \in query THEN "risky"
  ELSE IF "failure" \in query THEN "error"
  ELSE IF "brief" \in query THEN "missing_info"
  ELSE "simple"

\* The deterministic fallback of the classifier, in the order of the code.
heuristic_route(query) ==
  IF "risky" \in query THEN "risky"
  ELSE IF "lookup" \in query THEN "tool"
  ELSE IF "failure" \in query THEN "error"
  ELSE IF "brief" \in query THEN "missing_info"
  ELSE "simple"

\* query.strip(): QueryFacts are those of the stripped text.
intake_node(s) ==
  [s EXCEPT !.events = Append(@, make_event("intake", "completed"))]

classify_node(s, reply) ==
  LET fallback == reply.route \notin CLASSIFIABLE_ROUTES
      route    == IF fallback THEN heuristic_route(s.query) ELSE reply.route
  IN [s EXCEPT
        !.route      = route,
        !.risk_level = IF route = "risky" THEN "high"
                       ELSE IF fallback THEN "low" ELSE reply.risk_level,
        !.errors     = IF reply \in Outages
                       THEN Append(@, exception_entry("classify", reply.exception))
                       ELSE @,
        !.events     = Append(@, make_event("classify", "completed"))]

\* Mutant: the simulated failure hits every route.
tool_result_flaky(s) ==
  IF s.attempt < 2 THEN "error"
  ELSE IF s.approval = "approved" THEN "executed"
  ELSE "lookup"

\* Mutant: the simulated failure heals one attempt early.
tool_result_heals_early(s) ==
  IF s.route = "error" /\ s.attempt < 1 THEN "error"
  ELSE IF s.approval = "approved" THEN "executed"
  ELSE "lookup"

\* The mock tool fails on the error route while attempt < 2; otherwise it
\* executes the action when an approval is on record and looks up when not.
tool_result(s) ==
  IF s.route = "error" /\ s.attempt < 2 THEN "error"
  ELSE IF s.approval = "approved" THEN "executed"
  ELSE "lookup"

\* The first 60 characters of the result mention "dead_letter": the part of the
\* ticket they quote does, and the failure marker quotes nothing.
result_named(s) ==
  CASE tool_result(s) = "error"    -> FALSE
    [] tool_result(s) = "executed" -> "named_in_26" \in s.query
    [] tool_result(s) = "lookup"   -> "named_in_34" \in s.query

tool_node(s) ==
  [s EXCEPT
     !.tool_results = Append(@, tool_result(s)),
     !.latest_named = result_named(s),
     !.events       = Append(@, make_event("tool",
                        IF tool_result(s) = "error" THEN "failed" ELSE "completed"))]

\* Mutant: the guard on the failure marker is missing.
judge_consulted_always(s) == s.tool_results # <<>>

\* The judge is asked only about a result without the failure marker.
judge_consulted(s) ==
  s.tool_results # <<>> /\ Last(s.tool_results) # "error"

\* A judge that cannot be reached accepts the result.
verdict(s, judgement) ==
  IF judge_consulted(s) /\ judgement # "unsatisfactory"
  THEN "success" ELSE "needs_retry"

\* Mutant: the failure of the judge is swallowed.
evaluate_node_silent(s, judgement) ==
  [s EXCEPT
     !.evaluation_result = verdict(s, judgement),
     !.events = Append(@, make_event("evaluate", "completed"))]

evaluate_node(s, judgement) ==
  [s EXCEPT
     !.evaluation_result = verdict(s, judgement),
     !.errors = IF judge_consulted(s) /\ judgement \in Exceptions
                THEN Append(@, exception_entry("evaluate", judgement)) ELSE @,
     !.events = Append(@, make_event("evaluate",
                  IF s.tool_results = <<>> THEN "failed" ELSE "completed"))]

answer_node(s, text) ==
  [s EXCEPT
     !.final_answer = IF text = "text" THEN "generated" ELSE "templated",
     !.errors = IF text \in Exceptions
                THEN Append(@, exception_entry("answer", text)) ELSE @,
     !.events = Append(@, make_event("answer", "completed"))]

\* Mutant: the question is kept from the uniform reply field.
ask_clarification_node_asks_only(s, text) ==
  [s EXCEPT
     !.pending_question = "question",
     !.errors = IF text \in Exceptions
                THEN Append(@, exception_entry("clarify", text)) ELSE @,
     !.events = Append(@, make_event("clarify", "completed"))]

ask_clarification_node(s, text) ==
  [s EXCEPT
     !.pending_question = "question",
     !.final_answer     = "question",
     !.errors = IF text \in Exceptions
                THEN Append(@, exception_entry("clarify", text)) ELSE @,
     !.events = Append(@, make_event("clarify", "completed"))]

risky_action_node(s) ==
  [s EXCEPT
     !.proposed_action = "proposed",
     !.events = Append(@, make_event("risky_action", "pending_approval"))]

\* The mock reviewer signs off; with interrupts enabled the decision is the
\* truth value of what the human sent.
mock_decision == "approved"

human_decision(reply) == IF Approves(reply) THEN "approved" ELSE "rejected"

approval_node(s, decision) ==
  [s EXCEPT
     !.approval = decision,
     !.events   = Append(@, make_event("approval", decision))]

\* f"retry {attempt}/{max_attempts} after: {latest[:60]}": the latest tool result,
\* or the ticket when there is none.
retry_entry(s) ==
  make_error("retry", IF s.tool_results = <<>> THEN "named_in_60" \in s.query
                      ELSE s.latest_named)

\* Mutant: the attempt is recorded but not counted.
retry_or_fallback_node_uncounted(s) ==
  [s EXCEPT
     !.errors = Append(@, retry_entry(s)),
     !.events = Append(@, make_event("retry", "retrying"))]

\* Mutant: a retry drops the decision of the reviewer.
retry_or_fallback_node_forgetful(s) ==
  [s EXCEPT
     !.attempt  = @ + 1,
     !.approval = None,
     !.errors   = Append(@, retry_entry(s)),
     !.events   = Append(@, make_event("retry", "retrying"))]

retry_or_fallback_node(s) ==
  [s EXCEPT
     !.attempt = @ + 1,
     !.errors  = Append(@, retry_entry(s)),
     !.events  = Append(@, make_event("retry", "retrying"))]

dead_letter_node(s) ==
  [s EXCEPT
     !.final_answer = "escalated",
     !.errors = Append(@, make_error("dead_letter", TRUE)),
     !.events = Append(@, make_event("dead_letter", "escalated"))]

finalize_node(s) ==
  [s EXCEPT !.events = Append(@, make_event("finalize", "completed"))]

===============================================================================
