---------------------------- MODULE WorkflowProofs ----------------------------
(***************************************************************************)
(* What a node does to a state and what an action does to the machine, for *)
(* every choice of the constants, and type correctness.  The first part    *)
(* says once what each node function writes; no later proof unfolds one.   *)
(***************************************************************************)
EXTENDS WorkflowProperties, TLAPS

-------------------------------------------------------------------------------
(* What a node does to a state *)

\* The type of every field that a router or an invariant reads.
LEMMA FieldTypes ==
  ASSUME NEW s \in AgentStates
  PROVE  /\ s.query \in SUBSET QueryFacts
         /\ s.route \in CLASSIFIABLE_ROUTES \cup {""}
         /\ s.risk_level \in RiskLevels \cup {"unknown"}
         /\ s.attempt \in Nat
         /\ s.max_attempts \in Int
         /\ s.evaluation_result \in {"", "success", "needs_retry"}
         /\ s.proposed_action \in {None, "proposed"}
         /\ s.approval \in {None, "approved", "rejected"}
         /\ s.tool_results \in Seq(ToolResults)
         /\ s.latest_named \in BOOLEAN
         /\ s.errors \in Seq(Errors)
         /\ s.events \in Seq(LabEvent)
BY DEF AgentStates

\* The audit trail stays a list of events when an event is appended.
LEMMA EventAppended ==
  ASSUME NEW s \in AgentStates, NEW n \in NodeNames, NEW t \in EventTypes
  PROVE  Append(s.events, make_event(n, t)) \in Seq(LabEvent)
<1>1. s.events \in Seq(LabEvent)       BY FieldTypes
<1>2. make_event(n, t) \in LabEvent    BY DEF make_event, LabEvent
<1> QED BY <1>1, <1>2

\* The error list stays well typed, whether or not an entry is appended.
LEMMA ErrorAppended ==
  ASSUME NEW s \in AgentStates, NEW entry \in Errors
  PROVE  /\ s.errors \in Seq(Errors)
         /\ Append(s.errors, entry) \in Seq(Errors)
<1>1. s.errors \in Seq(Errors)   BY FieldTypes
<1> QED BY <1>1

\* The entries that exceptions, retries and the dead letter leave are well typed
\* and name their writer.
LEMMA EntryTypes ==
  /\ \A n \in ErrorSources : \A exception :
       /\ exception_entry(n, exception) \in Errors
       /\ exception_entry(n, exception).source = n
  /\ \A s \in AgentStates : retry_entry(s) \in Errors /\ retry_entry(s).source = "retry"
  /\ make_error("dead_letter", TRUE) \in Errors
  /\ make_error("dead_letter", TRUE).source = "dead_letter"
<1>1. \A n \in ErrorSources : \A named \in BOOLEAN :
        make_error(n, named) \in Errors /\ make_error(n, named).source = n
  BY DEF make_error, Errors
<1>2. ASSUME NEW n \in ErrorSources, NEW exception
      PROVE  /\ exception_entry(n, exception) \in Errors
             /\ exception_entry(n, exception).source = n
  <2>1. (exception = "raised_naming") \in BOOLEAN
    OBVIOUS
  <2> QED BY <1>1, <2>1, Zenon DEF exception_entry
<1>3. ASSUME NEW s \in AgentStates
      PROVE  retry_entry(s) \in Errors /\ retry_entry(s).source = "retry"
  <2> DEFINE named == IF s.tool_results = <<>> THEN "named_in_60" \in s.query
                      ELSE s.latest_named
  <2>1. s.latest_named \in BOOLEAN
    BY FieldTypes
  <2>2. named \in BOOLEAN
    <3>1. CASE s.tool_results = <<>>
      <4>1. ("named_in_60" \in s.query) \in BOOLEAN
        OBVIOUS
      <4> QED BY <3>1, <4>1, Zenon
    <3>2. CASE s.tool_results # <<>>
      BY <2>1, <3>2, Zenon
    <3> QED BY <3>1, <3>2
  <2>3. "retry" \in ErrorSources
    BY DEF ErrorSources
  <2>4. retry_entry(s) = make_error("retry", named)
    BY Zenon DEF retry_entry
  <2> QED BY <1>1, <2>2, <2>3, <2>4, Zenon
<1>4. "dead_letter" \in ErrorSources
  BY DEF ErrorSources
<1> QED BY <1>1, <1>2, <1>3, <1>4, Zenon

-------------------------------------------------------------------------------

\* A ticket starts as a well-typed state.
LEMMA InitialStateType ==
  ASSUME NEW query \in SUBSET QueryFacts, NEW budget \in Int
  PROVE  initial_state(query, budget) \in AgentStates
BY DEF initial_state, AgentStates

\* intake appends its event and nothing else.
LEMMA IntakeEffect ==
  ASSUME NEW s \in AgentStates
  PROVE  LET t == intake_node(s)
         IN /\ t \in AgentStates
            /\ t.route = s.route /\ t.risk_level = s.risk_level
            /\ t.attempt = s.attempt /\ t.max_attempts = s.max_attempts
            /\ t.evaluation_result = s.evaluation_result
            /\ t.proposed_action = s.proposed_action /\ t.approval = s.approval
            /\ t.tool_results = s.tool_results /\ t.errors = s.errors
            /\ t.events = Append(s.events, make_event("intake", "completed"))
<1>1. Append(s.events, make_event("intake", "completed")) \in Seq(LabEvent)
  BY EventAppended DEF NodeNames, EventTypes
<1>2. intake_node(s) \in AgentStates
  BY <1>1 DEF AgentStates, intake_node
<1> QED BY <1>2 DEF AgentStates, intake_node

\* The fallback of the classifier is one of the classifiable routes.
LEMMA HeuristicRouteType ==
  ASSUME NEW query
  PROVE  heuristic_route(query) \in CLASSIFIABLE_ROUTES
BY DEF heuristic_route, CLASSIFIABLE_ROUTES

\* classify sets a classifiable route, and risk "high" on the risky one.
LEMMA ClassifyEffect ==
  ASSUME NEW s \in AgentStates, NEW reply \in ClassifyReplies
  PROVE  LET t == classify_node(s, reply)
         IN /\ t \in AgentStates
            /\ t.route \in CLASSIFIABLE_ROUTES
            /\ t.route = "risky" => t.risk_level = "high"
            /\ t.attempt = s.attempt /\ t.max_attempts = s.max_attempts
            /\ t.evaluation_result = s.evaluation_result
            /\ t.proposed_action = s.proposed_action /\ t.approval = s.approval
            /\ t.tool_results = s.tool_results
            /\ t.errors = IF reply \in Outages
                          THEN Append(s.errors, exception_entry("classify", reply.exception))
                          ELSE s.errors
            /\ t.events = Append(s.events, make_event("classify", "completed"))
<1> DEFINE fallback == reply.route \notin CLASSIFIABLE_ROUTES
           route == IF fallback THEN heuristic_route(s.query) ELSE reply.route
           risk == IF route = "risky" THEN "high"
                   ELSE IF fallback THEN "low" ELSE reply.risk_level
           errors == IF reply \in Outages
                     THEN Append(s.errors, exception_entry("classify", reply.exception))
                     ELSE s.errors
           events == Append(s.events, make_event("classify", "completed"))
<1>1. route \in CLASSIFIABLE_ROUTES
  BY HeuristicRouteType
<1>2. fallback \/ reply.risk_level \in RiskLevels
  <2>1. CASE reply \in Classification
    BY <2>1 DEF Classification
  <2>2. CASE reply \in Outages
    BY <2>2 DEF Outages, CLASSIFIABLE_ROUTES
  <2> QED BY <2>1, <2>2 DEF ClassifyReplies
<1>3. risk \in RiskLevels \cup {"unknown"}
  BY <1>2 DEF RiskLevels
<1>4. errors \in Seq(Errors)
  BY ErrorAppended, EntryTypes DEF ErrorSources
<1>5. events \in Seq(LabEvent)
  BY EventAppended DEF NodeNames, EventTypes
<1>6. classify_node(s, reply) =
        [s EXCEPT !.route = route, !.risk_level = risk,
                  !.errors = errors, !.events = events]
  BY DEF classify_node
<1> HIDE DEF route, risk, errors, events
<1>7. classify_node(s, reply) \in AgentStates
  BY <1>1, <1>3, <1>4, <1>5, <1>6 DEF AgentStates
<1>8. /\ classify_node(s, reply).route = route
      /\ classify_node(s, reply).risk_level = risk
      /\ classify_node(s, reply).errors = errors
      /\ classify_node(s, reply).events = events
  BY <1>6 DEF AgentStates
<1>9. route = "risky" => risk = "high"
  BY DEF risk
<1>10. /\ classify_node(s, reply).attempt = s.attempt
       /\ classify_node(s, reply).max_attempts = s.max_attempts
       /\ classify_node(s, reply).evaluation_result = s.evaluation_result
       /\ classify_node(s, reply).proposed_action = s.proposed_action
       /\ classify_node(s, reply).approval = s.approval
       /\ classify_node(s, reply).tool_results = s.tool_results
  BY <1>6 DEF AgentStates
<1> QED BY <1>1, <1>7, <1>8, <1>9, <1>10 DEF errors, events

-------------------------------------------------------------------------------

\* tool appends one result, "error" on the error route only, and its event.
LEMMA ToolEffect ==
  ASSUME NEW s \in AgentStates
  PROVE  LET t == tool_node(s)
         IN /\ t \in AgentStates
            /\ t.route = s.route /\ t.risk_level = s.risk_level
            /\ t.attempt = s.attempt /\ t.max_attempts = s.max_attempts
            /\ t.evaluation_result = s.evaluation_result
            /\ t.proposed_action = s.proposed_action /\ t.approval = s.approval
            /\ tool_result(s) \in ToolResults
            /\ t.tool_results = Append(s.tool_results, tool_result(s))
            /\ t.errors = s.errors
            /\ \E type \in EventTypes :
                 t.events = Append(s.events, make_event("tool", type))
<1> DEFINE type == IF tool_result(s) = "error" THEN "failed" ELSE "completed"
           results == Append(s.tool_results, tool_result(s))
           named == result_named(s)
           events == Append(s.events, make_event("tool", type))
<1>1. tool_result(s) \in ToolResults
  BY DEF tool_result, ToolResults
<1>2. type \in EventTypes
  BY DEF EventTypes
<1>3. results \in Seq(ToolResults)
  <2>1. s.tool_results \in Seq(ToolResults)  BY FieldTypes
  <2> QED BY <1>1, <2>1
<1>4. events \in Seq(LabEvent)
  BY <1>2, EventAppended DEF NodeNames
<1>5. tool_node(s) = [s EXCEPT !.tool_results = results, !.latest_named = named,
                               !.events = events]
  BY DEF tool_node
<1>11. named \in BOOLEAN
  <2>1. /\ ("named_in_26" \in s.query) \in BOOLEAN
        /\ ("named_in_34" \in s.query) \in BOOLEAN
    OBVIOUS
  <2>2. CASE tool_result(s) = "error"     BY <2>2 DEF result_named
  <2>3. CASE tool_result(s) = "executed"  BY <2>1, <2>3 DEF result_named
  <2>4. CASE tool_result(s) = "lookup"    BY <2>1, <2>4 DEF result_named
  <2> QED BY <1>1, <2>2, <2>3, <2>4 DEF ToolResults
<1> HIDE DEF type, results, named, events
<1>6. tool_node(s) \in AgentStates
  BY <1>3, <1>4, <1>5, <1>11 DEF AgentStates
<1>7. tool_node(s).tool_results = results /\ tool_node(s).events = events
  BY <1>5 DEF AgentStates
<1>8. /\ tool_node(s).route = s.route /\ tool_node(s).risk_level = s.risk_level
      /\ tool_node(s).attempt = s.attempt
      /\ tool_node(s).max_attempts = s.max_attempts
      /\ tool_node(s).evaluation_result = s.evaluation_result
      /\ tool_node(s).proposed_action = s.proposed_action
      /\ tool_node(s).approval = s.approval /\ tool_node(s).errors = s.errors
  BY <1>5 DEF AgentStates
<1>9. tool_node(s).tool_results = Append(s.tool_results, tool_result(s))
  BY <1>7 DEF results
<1>10. \E x \in EventTypes : tool_node(s).events = Append(s.events, make_event("tool", x))
  BY <1>2, <1>7 DEF events
<1> QED BY <1>1, <1>6, <1>8, <1>9, <1>10

\* evaluate sets the verdict, counts an unreachable judge and adds its event.
LEMMA EvaluateEffect ==
  ASSUME NEW s \in AgentStates, NEW judgement \in Judgements
  PROVE  LET t == evaluate_node(s, judgement)
         IN /\ t \in AgentStates
            /\ t.route = s.route /\ t.risk_level = s.risk_level
            /\ t.attempt = s.attempt /\ t.max_attempts = s.max_attempts
            /\ t.evaluation_result = verdict(s, judgement)
            /\ t.proposed_action = s.proposed_action /\ t.approval = s.approval
            /\ t.tool_results = s.tool_results
            /\ t.errors = IF judge_consulted(s) /\ judgement \in Exceptions
                          THEN Append(s.errors, exception_entry("evaluate", judgement))
                          ELSE s.errors
            /\ \E type \in EventTypes :
                 t.events = Append(s.events, make_event("evaluate", type))
<1> DEFINE type == IF s.tool_results = <<>> THEN "failed" ELSE "completed"
           errors == IF judge_consulted(s) /\ judgement \in Exceptions
                     THEN Append(s.errors, exception_entry("evaluate", judgement))
                     ELSE s.errors
           events == Append(s.events, make_event("evaluate", type))
           t == evaluate_node(s, judgement)
<1>1. verdict(s, judgement) \in {"", "success", "needs_retry"}
  BY DEF verdict
<1>2. type \in EventTypes
  BY DEF EventTypes
<1>3. errors \in Seq(Errors)
  BY ErrorAppended, EntryTypes DEF ErrorSources
<1>4. events \in Seq(LabEvent)
  BY <1>2, EventAppended DEF NodeNames
<1>5. t = [s EXCEPT !.evaluation_result = verdict(s, judgement),
                    !.errors = errors, !.events = events]
  BY DEF evaluate_node
<1> HIDE DEF type, errors, events, t
<1>6. t \in AgentStates
  BY <1>1, <1>3, <1>4, <1>5 DEF AgentStates
<1>7. /\ t.evaluation_result = verdict(s, judgement)
      /\ t.errors = errors /\ t.events = events
  BY <1>5 DEF AgentStates
<1>8. /\ t.route = s.route /\ t.risk_level = s.risk_level
      /\ t.attempt = s.attempt /\ t.max_attempts = s.max_attempts
      /\ t.proposed_action = s.proposed_action /\ t.approval = s.approval
      /\ t.tool_results = s.tool_results
  BY <1>5 DEF AgentStates
<1>9. \E x \in EventTypes : t.events = Append(s.events, make_event("evaluate", x))
  BY <1>2, <1>7 DEF events
<1> QED BY <1>6, <1>7, <1>8, <1>9 DEF errors, t

\* answer writes the reply; it touches no decision, counter or tool result.
LEMMA AnswerEffect ==
  ASSUME NEW s \in AgentStates, NEW text \in Texts
  PROVE  LET t == answer_node(s, text)
         IN /\ t \in AgentStates
            /\ t.route = s.route /\ t.risk_level = s.risk_level
            /\ t.attempt = s.attempt /\ t.max_attempts = s.max_attempts
            /\ t.evaluation_result = s.evaluation_result
            /\ t.proposed_action = s.proposed_action /\ t.approval = s.approval
            /\ t.tool_results = s.tool_results
            /\ t.errors = IF text \in Exceptions
                          THEN Append(s.errors, exception_entry("answer", text))
                          ELSE s.errors
            /\ t.events = Append(s.events, make_event("answer", "completed"))
<1> DEFINE reply == IF text = "text" THEN "generated" ELSE "templated"
           errors == IF text \in Exceptions
                     THEN Append(s.errors, exception_entry("answer", text))
                     ELSE s.errors
           events == Append(s.events, make_event("answer", "completed"))
           t == answer_node(s, text)
<1>1. reply \in {None, "generated", "templated", "question", "escalated"}
  OBVIOUS
<1>2. errors \in Seq(Errors)
  BY ErrorAppended, EntryTypes DEF ErrorSources
<1>3. events \in Seq(LabEvent)
  BY EventAppended DEF NodeNames, EventTypes
<1>4. t = [s EXCEPT !.final_answer = reply, !.errors = errors, !.events = events]
  BY DEF answer_node
<1> HIDE DEF reply, errors, events, t
<1>5. t \in AgentStates
  BY <1>1, <1>2, <1>3, <1>4 DEF AgentStates
<1>6. t.errors = errors /\ t.events = events
  BY <1>4 DEF AgentStates
<1>7. /\ t.route = s.route /\ t.risk_level = s.risk_level
      /\ t.attempt = s.attempt /\ t.max_attempts = s.max_attempts
      /\ t.evaluation_result = s.evaluation_result
      /\ t.proposed_action = s.proposed_action /\ t.approval = s.approval
      /\ t.tool_results = s.tool_results
  BY <1>4 DEF AgentStates
<1> QED BY <1>5, <1>6, <1>7 DEF errors, events, t

\* clarify asks its question; a decision to reject stays on record.
LEMMA ClarifyEffect ==
  ASSUME NEW s \in AgentStates, NEW text \in Texts
  PROVE  LET t == ask_clarification_node(s, text)
         IN /\ t \in AgentStates
            /\ t.route = s.route /\ t.risk_level = s.risk_level
            /\ t.attempt = s.attempt /\ t.max_attempts = s.max_attempts
            /\ t.evaluation_result = s.evaluation_result
            /\ t.proposed_action = s.proposed_action /\ t.approval = s.approval
            /\ t.tool_results = s.tool_results
            /\ t.errors = IF text \in Exceptions
                          THEN Append(s.errors, exception_entry("clarify", text))
                          ELSE s.errors
            /\ t.events = Append(s.events, make_event("clarify", "completed"))
<1> DEFINE errors == IF text \in Exceptions
                     THEN Append(s.errors, exception_entry("clarify", text))
                     ELSE s.errors
           events == Append(s.events, make_event("clarify", "completed"))
           t == ask_clarification_node(s, text)
<1>1. errors \in Seq(Errors)
  BY ErrorAppended, EntryTypes DEF ErrorSources
<1>2. events \in Seq(LabEvent)
  BY EventAppended DEF NodeNames, EventTypes
<1>3. t = [s EXCEPT !.pending_question = "question", !.final_answer = "question",
                    !.errors = errors, !.events = events]
  BY DEF ask_clarification_node
<1> HIDE DEF errors, events, t
<1>4. t \in AgentStates
  BY <1>1, <1>2, <1>3 DEF AgentStates
<1>5. t.errors = errors /\ t.events = events
  BY <1>3 DEF AgentStates
<1>6. /\ t.route = s.route /\ t.risk_level = s.risk_level
      /\ t.attempt = s.attempt /\ t.max_attempts = s.max_attempts
      /\ t.evaluation_result = s.evaluation_result
      /\ t.proposed_action = s.proposed_action /\ t.approval = s.approval
      /\ t.tool_results = s.tool_results
  BY <1>3 DEF AgentStates
<1> QED BY <1>4, <1>5, <1>6 DEF errors, events, t

\* risky_action puts the proposed action on record.
LEMMA RiskyActionEffect ==
  ASSUME NEW s \in AgentStates
  PROVE  LET t == risky_action_node(s)
         IN /\ t \in AgentStates
            /\ t.route = s.route /\ t.risk_level = s.risk_level
            /\ t.attempt = s.attempt /\ t.max_attempts = s.max_attempts
            /\ t.evaluation_result = s.evaluation_result
            /\ t.proposed_action = "proposed" /\ t.approval = s.approval
            /\ t.tool_results = s.tool_results /\ t.errors = s.errors
            /\ t.events = Append(s.events, make_event("risky_action", "pending_approval"))
<1>1. Append(s.events, make_event("risky_action", "pending_approval")) \in Seq(LabEvent)
  BY EventAppended DEF NodeNames, EventTypes
<1>2. risky_action_node(s) \in AgentStates
  BY <1>1 DEF AgentStates, risky_action_node
<1> QED BY <1>2 DEF AgentStates, risky_action_node

\* approval records the decision in the state and in the audit trail.
LEMMA ApprovalEffect ==
  ASSUME NEW s \in AgentStates, NEW decision \in {"approved", "rejected"}
  PROVE  LET t == approval_node(s, decision)
         IN /\ t \in AgentStates
            /\ t.route = s.route /\ t.risk_level = s.risk_level
            /\ t.attempt = s.attempt /\ t.max_attempts = s.max_attempts
            /\ t.evaluation_result = s.evaluation_result
            /\ t.proposed_action = s.proposed_action /\ t.approval = decision
            /\ t.tool_results = s.tool_results /\ t.errors = s.errors
            /\ t.events = Append(s.events, make_event("approval", decision))
<1>1. Append(s.events, make_event("approval", decision)) \in Seq(LabEvent)
  BY EventAppended DEF NodeNames, EventTypes
<1>2. approval_node(s, decision) \in AgentStates
  BY <1>1 DEF AgentStates, approval_node
<1> QED BY <1>2 DEF AgentStates, approval_node

\* retry counts one attempt and records the error.
LEMMA RetryEffect ==
  ASSUME NEW s \in AgentStates
  PROVE  LET t == retry_or_fallback_node(s)
         IN /\ t \in AgentStates
            /\ t.route = s.route /\ t.risk_level = s.risk_level
            /\ t.attempt = s.attempt + 1 /\ t.max_attempts = s.max_attempts
            /\ t.evaluation_result = s.evaluation_result
            /\ t.proposed_action = s.proposed_action /\ t.approval = s.approval
            /\ t.tool_results = s.tool_results
            /\ t.errors = Append(s.errors, retry_entry(s))
            /\ t.events = Append(s.events, make_event("retry", "retrying"))
<1>1. Append(s.events, make_event("retry", "retrying")) \in Seq(LabEvent)
  BY EventAppended DEF NodeNames, EventTypes
<1>2. Append(s.errors, retry_entry(s)) \in Seq(Errors)
  BY ErrorAppended, EntryTypes
<1>3. s.attempt + 1 \in Nat
  <2>1. s.attempt \in Nat  BY FieldTypes
  <2> QED BY <2>1
<1>4. retry_or_fallback_node(s) \in AgentStates
  BY <1>1, <1>2, <1>3 DEF AgentStates, retry_or_fallback_node
<1> QED BY <1>4 DEF AgentStates, retry_or_fallback_node

\* dead_letter records the escalation; it touches no decision or counter.
LEMMA DeadLetterEffect ==
  ASSUME NEW s \in AgentStates
  PROVE  LET t == dead_letter_node(s)
         IN /\ t \in AgentStates
            /\ t.route = s.route /\ t.risk_level = s.risk_level
            /\ t.attempt = s.attempt /\ t.max_attempts = s.max_attempts
            /\ t.evaluation_result = s.evaluation_result
            /\ t.proposed_action = s.proposed_action /\ t.approval = s.approval
            /\ t.tool_results = s.tool_results
            /\ t.errors = Append(s.errors, make_error("dead_letter", TRUE))
            /\ t.events = Append(s.events, make_event("dead_letter", "escalated"))
<1>1. Append(s.events, make_event("dead_letter", "escalated")) \in Seq(LabEvent)
  BY EventAppended DEF NodeNames, EventTypes
<1>2. Append(s.errors, make_error("dead_letter", TRUE)) \in Seq(Errors)
  BY ErrorAppended, EntryTypes
<1>3. dead_letter_node(s) \in AgentStates
  BY <1>1, <1>2 DEF AgentStates, dead_letter_node
<1> QED BY <1>3 DEF AgentStates, dead_letter_node

\* finalize appends its event and nothing else.
LEMMA FinalizeEffect ==
  ASSUME NEW s \in AgentStates
  PROVE  LET t == finalize_node(s)
         IN /\ t \in AgentStates
            /\ t.route = s.route /\ t.risk_level = s.risk_level
            /\ t.attempt = s.attempt /\ t.max_attempts = s.max_attempts
            /\ t.evaluation_result = s.evaluation_result
            /\ t.proposed_action = s.proposed_action /\ t.approval = s.approval
            /\ t.tool_results = s.tool_results /\ t.errors = s.errors
            /\ t.events = Append(s.events, make_event("finalize", "completed"))
<1>1. Append(s.events, make_event("finalize", "completed")) \in Seq(LabEvent)
  BY EventAppended DEF NodeNames, EventTypes
<1>2. finalize_node(s) \in AgentStates
  BY <1>1 DEF AgentStates, finalize_node
<1> QED BY <1>2 DEF AgentStates, finalize_node

-------------------------------------------------------------------------------
(* Type correctness *)

\* Every router names a node of the graph.
LEMMA RouterTypes ==
  ASSUME NEW s
  PROVE  /\ route_after_classify(s) \in {"answer", "tool", "clarify", "risky_action", "retry"}
         /\ route_after_evaluate(s) \in {"retry", "answer"}
         /\ route_after_retry(s)    \in {"tool", "dead_letter"}
         /\ route_after_approval(s) \in {"tool", "clarify"}
BY DEF route_after_classify, route_after_evaluate, route_after_retry,
       route_after_approval, RouteToNode

\* A super-step that applies a well-typed update keeps the machine well typed.
LEMMA AdvanceType ==
  ASSUME TypeOK,
         NEW n \in NodeNames, AtNode(n),
         NEW update \in AgentStates,
         NEW successor \in NodeNames \cup {"END"}, Advance(update, successor),
         NEW outage \in BOOLEAN, Count(outage) \/ UNCHANGED outages
  PROVE  TypeOK'
<1>1. /\ state' \in AgentStates
      /\ node' \in NodeNames \cup {"END"}
      /\ status' \in {"running", "interrupted", "done", "raised"}
      /\ interrupt_enabled' \in BOOLEAN
      /\ declined' \in BOOLEAN
  BY DEF TypeOK, Advance
<1>2. superstep' \in 0..RecursionLimit
  BY RecursionAssumption DEF TypeOK, Advance, AtNode
<1>3. outages' \in Nat
  BY DEF TypeOK, Count
<1> QED BY <1>1, <1>2, <1>3 DEF TypeOK

\* Every initial state is well typed.
LEMMA InitType == Init => TypeOK
<1> SUFFICES ASSUME Init PROVE TypeOK
  OBVIOUS
<1>1. PICK query \in Queries, budget \in Budgets : state = initial_state(query, budget)
  BY DEF Init
<1>2. state \in AgentStates
  BY <1>1, InitialStateType, QueriesAssumption, BudgetsAssumption
<1>3. superstep \in 0..RecursionLimit
  BY RecursionAssumption DEF Init
<1>4. interrupt_enabled \in BOOLEAN
  BY ModesAssumption DEF Init
<1> QED BY <1>2, <1>3, <1>4 DEF Init, TypeOK, NodeNames

\* Every step, a stutter included, keeps the machine well typed.
LEMMA NextType == TypeOK /\ [Next]_vars => TypeOK'
<1> SUFFICES ASSUME TypeOK, [Next]_vars PROVE TypeOK'
  OBVIOUS
<1>0. state \in AgentStates
  BY DEF TypeOK
<1>1. CASE Intake
  <2>1. intake_node(state) \in AgentStates  BY <1>0, IntakeEffect
  <2> QED BY <1>1, <2>1, AdvanceType DEF Intake, NodeNames
<1>2. CASE Classify
  <2>1. PICK reply \in ClassifyReplies :
          /\ Advance(classify_node(state, reply),
                     route_after_classify(classify_node(state, reply)))
          /\ Count(reply \in Outages)
    BY <1>2 DEF Classify
  <2>2. classify_node(state, reply) \in AgentStates
    BY <1>0, ClassifyEffect
  <2>3. route_after_classify(classify_node(state, reply)) \in NodeNames
    BY RouterTypes DEF NodeNames
  <2>4. (reply \in Outages) \in BOOLEAN
    OBVIOUS
  <2> QED BY <1>2, <2>1, <2>2, <2>3, <2>4, AdvanceType DEF Classify, NodeNames
<1>3. CASE Tool
  <2>1. tool_node(state) \in AgentStates  BY <1>0, ToolEffect
  <2> QED BY <1>3, <2>1, AdvanceType DEF Tool, NodeNames
<1>4. CASE Evaluate
  <2>1. PICK judgement \in Judgements :
          /\ Advance(evaluate_node(state, judgement),
                     route_after_evaluate(evaluate_node(state, judgement)))
          /\ Count(judge_consulted(state) /\ judgement \in Exceptions)
    BY <1>4 DEF Evaluate
  <2>2. evaluate_node(state, judgement) \in AgentStates
    BY <1>0, EvaluateEffect
  <2>3. route_after_evaluate(evaluate_node(state, judgement)) \in NodeNames
    BY RouterTypes DEF NodeNames
  <2>4. (judge_consulted(state) /\ judgement \in Exceptions) \in BOOLEAN
    OBVIOUS
  <2> QED BY <1>4, <2>1, <2>2, <2>3, <2>4, AdvanceType DEF Evaluate, NodeNames
<1>5. CASE Answer
  <2>1. PICK text \in Texts : /\ Advance(answer_node(state, text), "finalize")
                              /\ Count(text \in Exceptions)
    BY <1>5 DEF Answer
  <2>2. answer_node(state, text) \in AgentStates  BY <1>0, AnswerEffect
  <2>3. (text \in Exceptions) \in BOOLEAN
    OBVIOUS
  <2> QED BY <1>5, <2>1, <2>2, <2>3, AdvanceType DEF Answer, NodeNames
<1>6. CASE Clarify
  <2>1. PICK text \in Texts : /\ Advance(ask_clarification_node(state, text), "finalize")
                              /\ Count(text \in Exceptions)
    BY <1>6 DEF Clarify
  <2>2. ask_clarification_node(state, text) \in AgentStates  BY <1>0, ClarifyEffect
  <2>3. (text \in Exceptions) \in BOOLEAN
    OBVIOUS
  <2> QED BY <1>6, <2>1, <2>2, <2>3, AdvanceType DEF Clarify, NodeNames
<1>7. CASE RiskyAction
  <2>1. risky_action_node(state) \in AgentStates  BY <1>0, RiskyActionEffect
  <2> QED BY <1>7, <2>1, AdvanceType DEF RiskyAction, NodeNames
<1>8. CASE MockApproval
  <2>1. approval_node(state, mock_decision) \in AgentStates
    BY <1>0, ApprovalEffect DEF mock_decision
  <2>2. route_after_approval(approval_node(state, mock_decision)) \in NodeNames
    BY RouterTypes DEF NodeNames
  <2> QED BY <1>8, <2>1, <2>2, AdvanceType DEF MockApproval, NodeNames
<1>9. CASE Interrupt
  BY <1>9 DEF Interrupt, TypeOK
<1>10. CASE Resume
  <2>1. PICK reply \in Replies :
          /\ interrupt_enabled' \in InterruptModes
          /\ LET decision == IF interrupt_enabled' THEN human_decision(reply)
                             ELSE mock_decision
             IN /\ state' = approval_node(state, decision)
                /\ node' = route_after_approval(approval_node(state, decision))
          /\ declined' = Declines(reply)
    BY <1>10 DEF Resume
  <2>2. state' \in AgentStates
    BY <1>0, <2>1, ApprovalEffect DEF human_decision, mock_decision
  <2>3. node' \in NodeNames
    BY <2>1, RouterTypes DEF NodeNames
  <2>4. superstep' \in 0..RecursionLimit
    BY <1>10, RecursionAssumption DEF Resume
  <2>5. interrupt_enabled' \in BOOLEAN /\ declined' \in BOOLEAN
    BY <2>1, ModesAssumption DEF Declines
  <2> QED BY <1>10, <2>2, <2>3, <2>4, <2>5 DEF Resume, TypeOK
<1>11. CASE Retry
  <2>1. retry_or_fallback_node(state) \in AgentStates  BY <1>0, RetryEffect
  <2>2. route_after_retry(retry_or_fallback_node(state)) \in NodeNames
    BY RouterTypes DEF NodeNames
  <2> QED BY <1>11, <2>1, <2>2, AdvanceType DEF Retry, NodeNames
<1>12. CASE DeadLetter
  <2>1. dead_letter_node(state) \in AgentStates  BY <1>0, DeadLetterEffect
  <2> QED BY <1>12, <2>1, AdvanceType DEF DeadLetter, NodeNames
<1>13. CASE Finalize
  <2>1. finalize_node(state) \in AgentStates  BY <1>0, FinalizeEffect
  <2> QED BY <1>13, <2>1, AdvanceType DEF Finalize, NodeNames
<1>14. CASE RaiseRecursionError
  BY <1>14 DEF RaiseRecursionError, TypeOK
<1>15. CASE UNCHANGED vars
  BY <1>15 DEF TypeOK, vars
<1> QED
  BY <1>1, <1>2, <1>3, <1>4, <1>5, <1>6, <1>7, <1>8, <1>9, <1>10, <1>11, <1>12,
     <1>13, <1>14, <1>15 DEF Next, Engine

\* The machine is well typed in every reachable state, whatever the tickets,
\* the budgets, the replies and the recursion limit (state.py, graph.py).
THEOREM TypeCorrect == Spec => []TypeOK
BY InitType, NextType, PTL DEF Spec

-------------------------------------------------------------------------------
(* What each action changes *)

SameTriage ==
  state'.route = state.route /\ state'.risk_level = state.risk_level

SameDecision ==
  state'.proposed_action = state.proposed_action /\ state'.approval = state.approval

SameLoop ==
  /\ state'.attempt = state.attempt
  /\ state'.evaluation_result = state.evaluation_result
  /\ state'.tool_results = state.tool_results

\* A super-step at node n, which leaves an event of n in the audit trail.
Ran(n) ==
  /\ status = "running" /\ node = n /\ superstep < RecursionLimit
  /\ superstep' = superstep + 1
  /\ status' = IF node' = "END" THEN "done" ELSE "running"
  /\ declined' = declined
  /\ interrupt_enabled' = interrupt_enabled
  /\ state'.max_attempts = state.max_attempts
  /\ \E type \in EventTypes :
       state'.events = Append(state.events, make_event(n, type))

\* intake leads to classify and changes neither triage, decision nor loop.
LEMMA IntakeStep ==
  ASSUME TypeOK, Intake
  PROVE  Ran("intake") /\ node' = "classify" /\ SameTriage /\ SameDecision /\ SameLoop
<1>1. /\ state' = intake_node(state) /\ state \in AgentStates
      /\ "completed" \in EventTypes
  BY DEF TypeOK, Intake, Advance, EventTypes
<1> QED BY <1>1, IntakeEffect
        DEF Intake, AtNode, Advance, Ran, SameTriage, SameDecision, SameLoop

\* classify sets the route and the risk, and follows the route.
LEMMA ClassifyStep ==
  ASSUME TypeOK, Classify
  PROVE  /\ Ran("classify") /\ node' = route_after_classify(state')
         /\ state'.route \in CLASSIFIABLE_ROUTES
         /\ state'.route = "risky" => state'.risk_level = "high"
         /\ SameDecision /\ SameLoop
<1>1. PICK reply \in ClassifyReplies :
        Advance(classify_node(state, reply),
                route_after_classify(classify_node(state, reply)))
  BY DEF Classify
<1>2. /\ state' = classify_node(state, reply) /\ state \in AgentStates
      /\ "completed" \in EventTypes
  BY <1>1 DEF TypeOK, Advance, EventTypes
<1>3. AtNode("classify")
  BY DEF Classify
<1> QED BY <1>1, <1>2, <1>3, ClassifyEffect
        DEF AtNode, Advance, Ran, SameDecision, SameLoop

\* tool appends one result and leads to evaluate.
LEMMA ToolStep ==
  ASSUME TypeOK, Tool
  PROVE  /\ Ran("tool") /\ node' = "evaluate" /\ SameTriage /\ SameDecision
         /\ state'.attempt = state.attempt
         /\ tool_result(state) \in ToolResults
         /\ state'.tool_results = Append(state.tool_results, tool_result(state))
<1>1. state' = tool_node(state) /\ state \in AgentStates
  BY DEF TypeOK, Tool, Advance
<1> QED BY <1>1, ToolEffect DEF Tool, AtNode, Advance, Ran, SameTriage, SameDecision

\* evaluate writes the verdict and follows it.
LEMMA EvaluateStep ==
  ASSUME TypeOK, Evaluate
  PROVE  /\ Ran("evaluate") /\ node' = route_after_evaluate(state')
         /\ SameTriage /\ SameDecision
         /\ state'.attempt = state.attempt
         /\ state'.tool_results = state.tool_results
         /\ \E judgement \in Judgements :
              state'.evaluation_result = verdict(state, judgement)
<1>1. PICK judgement \in Judgements :
        Advance(evaluate_node(state, judgement),
                route_after_evaluate(evaluate_node(state, judgement)))
  BY DEF Evaluate
<1>2. state' = evaluate_node(state, judgement) /\ state \in AgentStates
  BY <1>1 DEF TypeOK, Advance
<1>3. AtNode("evaluate")
  BY DEF Evaluate
<1> QED BY <1>1, <1>2, <1>3, EvaluateEffect
        DEF AtNode, Advance, Ran, SameTriage, SameDecision

\* answer leads to finalize and changes neither triage, decision nor loop.
LEMMA AnswerStep ==
  ASSUME TypeOK, Answer
  PROVE  Ran("answer") /\ node' = "finalize" /\ SameTriage /\ SameDecision /\ SameLoop
<1>1. PICK text \in Texts : Advance(answer_node(state, text), "finalize")
  BY DEF Answer
<1>2. /\ state' = answer_node(state, text) /\ state \in AgentStates
      /\ "completed" \in EventTypes
  BY <1>1 DEF TypeOK, Advance, EventTypes
<1>3. AtNode("answer")
  BY DEF Answer
<1> QED BY <1>1, <1>2, <1>3, AnswerEffect
        DEF AtNode, Advance, Ran, SameTriage, SameDecision, SameLoop

\* clarify leads to finalize and changes neither triage, decision nor loop.
LEMMA ClarifyStep ==
  ASSUME TypeOK, Clarify
  PROVE  Ran("clarify") /\ node' = "finalize" /\ SameTriage /\ SameDecision /\ SameLoop
<1>1. PICK text \in Texts : Advance(ask_clarification_node(state, text), "finalize")
  BY DEF Clarify
<1>2. /\ state' = ask_clarification_node(state, text) /\ state \in AgentStates
      /\ "completed" \in EventTypes
  BY <1>1 DEF TypeOK, Advance, EventTypes
<1>3. AtNode("clarify")
  BY DEF Clarify
<1> QED BY <1>1, <1>2, <1>3, ClarifyEffect
        DEF AtNode, Advance, Ran, SameTriage, SameDecision, SameLoop

\* risky_action records the proposal and leads to the approval.
LEMMA RiskyActionStep ==
  ASSUME TypeOK, RiskyAction
  PROVE  /\ Ran("risky_action") /\ node' = "approval" /\ SameTriage /\ SameLoop
         /\ state'.approval = state.approval /\ state'.proposed_action = "proposed"
<1>1. /\ state' = risky_action_node(state) /\ state \in AgentStates
      /\ "pending_approval" \in EventTypes
  BY DEF TypeOK, RiskyAction, Advance, EventTypes
<1> QED BY <1>1, RiskyActionEffect
        DEF RiskyAction, AtNode, Advance, Ran, SameTriage, SameLoop

\* Both ways of recording a decision: at once, or when the human has answered.
Decided ==
  /\ state'.approval \in {"approved", "rejected"}
  /\ state'.proposed_action = state.proposed_action
  /\ state'.events = Append(state.events, make_event("approval", state'.approval))
  /\ node' = route_after_approval(state')

\* The mock reviewer decides, in a process without interrupts.
LEMMA MockApprovalStep ==
  ASSUME TypeOK, MockApproval
  PROVE  /\ Ran("approval") /\ Decided /\ ~interrupt_enabled
         /\ SameTriage /\ SameLoop
<1>1. /\ state' = approval_node(state, "approved") /\ state \in AgentStates
      /\ "approved" \in EventTypes
  BY DEF TypeOK, MockApproval, Advance, EventTypes, mock_decision
<1> QED BY <1>1, ApprovalEffect
        DEF MockApproval, AtNode, Advance, Ran, Decided, SameTriage, SameLoop,
            mock_decision

\* A resumed ticket is decided by the reply, or by the mock reviewer.
LEMMA ResumeStep ==
  ASSUME TypeOK, Resume
  PROVE  /\ status = "interrupted" /\ status' = "running" /\ superstep' = 1
         /\ Decided /\ SameTriage /\ SameLoop
         /\ state'.max_attempts = state.max_attempts
         /\ interrupt_enabled' \in InterruptModes
         /\ \E reply \in Replies :
              /\ declined' = Declines(reply)
              /\ state'.approval = IF interrupt_enabled' THEN human_decision(reply)
                                   ELSE mock_decision
<1>1. PICK reply \in Replies :
        /\ interrupt_enabled' \in InterruptModes
        /\ LET decision == IF interrupt_enabled' THEN human_decision(reply)
                           ELSE mock_decision
           IN /\ state' = approval_node(state, decision)
              /\ node' = route_after_approval(approval_node(state, decision))
        /\ declined' = Declines(reply)
  BY DEF Resume
<1> DEFINE decision == IF interrupt_enabled' THEN human_decision(reply)
                       ELSE mock_decision
<1>2. decision \in {"approved", "rejected"}
  BY DEF human_decision, mock_decision
<1>3. /\ state' = approval_node(state, decision)
      /\ node' = route_after_approval(state')
      /\ state \in AgentStates
  BY <1>1 DEF TypeOK
<1>4. status = "interrupted" /\ status' = "running" /\ superstep' = 1
  BY DEF Resume
<1>5. state'.approval = decision
  BY <1>2, <1>3, ApprovalEffect
<1> HIDE DEF decision
<1>6. Decided /\ SameTriage /\ SameLoop /\ state'.max_attempts = state.max_attempts
  BY <1>2, <1>3, ApprovalEffect DEF Decided, SameTriage, SameLoop
<1> QED BY <1>1, <1>4, <1>5, <1>6 DEF decision

\* retry counts one attempt and asks its router for the successor.
LEMMA RetryStep ==
  ASSUME TypeOK, Retry
  PROVE  /\ Ran("retry") /\ node' = route_after_retry(state')
         /\ SameTriage /\ SameDecision
         /\ state'.attempt = state.attempt + 1
         /\ state'.tool_results = state.tool_results
<1>1. /\ state' = retry_or_fallback_node(state) /\ state \in AgentStates
      /\ "retrying" \in EventTypes
  BY DEF TypeOK, Retry, Advance, EventTypes
<1> QED BY <1>1, RetryEffect DEF Retry, AtNode, Advance, Ran, SameTriage, SameDecision

\* dead_letter leads to finalize and changes neither triage, decision nor loop.
LEMMA DeadLetterStep ==
  ASSUME TypeOK, DeadLetter
  PROVE  Ran("dead_letter") /\ node' = "finalize" /\ SameTriage /\ SameDecision /\ SameLoop
<1>1. /\ state' = dead_letter_node(state) /\ state \in AgentStates
      /\ "escalated" \in EventTypes
  BY DEF TypeOK, DeadLetter, Advance, EventTypes
<1> QED BY <1>1, DeadLetterEffect
        DEF DeadLetter, AtNode, Advance, Ran, SameTriage, SameDecision, SameLoop

\* finalize leads to END and changes neither triage, decision nor loop.
LEMMA FinalizeStep ==
  ASSUME TypeOK, Finalize
  PROVE  Ran("finalize") /\ node' = "END" /\ SameTriage /\ SameDecision /\ SameLoop
<1>1. /\ state' = finalize_node(state) /\ state \in AgentStates
      /\ "completed" \in EventTypes
  BY DEF TypeOK, Finalize, Advance, EventTypes
<1> QED BY <1>1, FinalizeEffect
        DEF Finalize, AtNode, Advance, Ran, SameTriage, SameDecision, SameLoop

\* Suspending, raising and stuttering leave the ticket where it is.
LEMMA IdleStep ==
  ASSUME Interrupt \/ RaiseRecursionError \/ UNCHANGED vars
  PROVE  UNCHANGED <<state, node, superstep, interrupt_enabled, declined>>
BY DEF Interrupt, RaiseRecursionError, vars

\* The audit trail after a super-step: the positions of an earlier event stay,
\* and the new event is the last.
LEMMA VisitsGrow ==
  ASSUME TypeOK, NEW n \in NodeNames, NEW type \in EventTypes,
         state'.events = Append(state.events, make_event(n, type))
  PROVE  /\ Len(state'.events) = Len(state.events) + 1
         /\ \A i \in DOMAIN state.events : state'.events[i] = state.events[i]
         /\ \A m \in NodeNames :
              Visits(m)' = IF m = n THEN Visits(m) \cup {Len(state.events) + 1}
                           ELSE Visits(m)
<1>1. state.events \in Seq(LabEvent)
  BY FieldTypes DEF TypeOK
<1>2. /\ Len(state'.events) = Len(state.events) + 1
      /\ DOMAIN state.events = 1..Len(state.events)
      /\ DOMAIN state'.events = 1..(Len(state.events) + 1)
      /\ \A i \in DOMAIN state.events : state'.events[i] = state.events[i]
      /\ state'.events[Len(state.events) + 1] = make_event(n, type)
      /\ Len(state.events) \in Nat
  BY <1>1
<1>3. make_event(n, type).node = n
  BY DEF make_event
<1>4. DOMAIN state'.events = DOMAIN state.events \cup {Len(state.events) + 1}
  BY <1>2
<1>5. ASSUME NEW m \in NodeNames
      PROVE  Visits(m)' = IF m = n THEN Visits(m) \cup {Len(state.events) + 1}
                          ELSE Visits(m)
  BY <1>2, <1>3, <1>4 DEF Visits
<1> QED BY <1>2, <1>5

===============================================================================
