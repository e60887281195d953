----------------------------- MODULE ReplyProofs -----------------------------
(***************************************************************************)
(* What a reply rests on, how many a ticket gets, and what the list of     *)
(* errors says of a run, for every choice of the constants.                *)
(***************************************************************************)
EXTENDS JourneyProofs, FiniteSetTheorems

\* What a super-step adds to the visits of the nodes that reply.
LEMMA VisitedAfter ==
  ASSUME TypeOK, NEW n \in NodeNames, NEW type \in EventTypes,
         state'.events = Append(state.events, make_event(n, type))
  PROVE  \A m \in NodeNames \ {n} : Visits(m)' = Visits(m) /\ Visited(m)' = Visited(m)
BY VisitsGrow DEF Visited

\* A ticket starts without an audit trail.
LEMMA NothingVisited == Init => \A n \in NodeNames : Visits(n) = {}
<1> SUFFICES ASSUME Init PROVE \A n \in NodeNames : Visits(n) = {}
  OBVIOUS
<1>1. PICK query \in Queries, budget \in Budgets : state = initial_state(query, budget)
  BY DEF Init
<1>2. state.events = <<>>
  BY <1>1 DEF initial_state
<1>3. DOMAIN state.events = {}
  BY <1>2
<1> QED BY <1>3 DEF Visits

-------------------------------------------------------------------------------
(* What an answer rests on *)

Settled == node = "answer" \/ Visited("answer")

LastResult == state.tool_results[Len(state.tool_results)]

\* The inductive invariant: an accepted result is accepted when it is evaluated,
\* and no tool call comes after the answer.
AnswerInv ==
  /\ Visited("answer") => node \in {"finalize", "END"}
  /\ node = "evaluate" /\ state.route = "error" /\ Calls > 0 /\ LastResult # "error" =>
       state.attempt >= 2
  /\ Settled /\ Calls > 0 => LastResult # "error" /\ state.evaluation_result = "success"
  /\ Settled /\ state.route = "error" => state.attempt >= 2 /\ state.max_attempts >= 3

\* No ticket starts with an answer.
LEMMA AnswerInit == Init => AnswerInv
<1> SUFFICES ASSUME Init PROVE AnswerInv
  OBVIOUS
<1>1. ~Visited("answer") /\ node = "intake"
  BY NothingVisited DEF Init, Visited, NodeNames
<1> QED BY <1>1 DEF AnswerInv, Settled

\* The steps that neither call, evaluate nor route leave what a reply rests on.
LEMMA AnswerKept ==
  ASSUME TypeOK, AnswerInv, NEW n \in NodeNames \ {"answer", "tool", "evaluate"},
         NEW type \in EventTypes,
         state'.events = Append(state.events, make_event(n, type)),
         node = n, node' \notin {"answer", "evaluate"},
         n \in {"finalize"} => node' = "END",
         SameLoop, SameTriage, state'.max_attempts = state.max_attempts
  PROVE  AnswerInv'
<1>1. Visited("answer")' = Visited("answer")
  BY VisitedAfter DEF NodeNames
<1>2. Calls' = Calls /\ LastResult' = LastResult
  BY DEF SameLoop, Calls, LastResult
<1>3. Settled' => Settled
  BY <1>1 DEF Settled
<1>4. Visited("answer")' => node' \in {"finalize", "END"}
  BY <1>1 DEF AnswerInv, NodeNames
<1> QED BY <1>2, <1>3, <1>4 DEF AnswerInv, SameLoop, SameTriage

\* Every step preserves the invariant of the answer.
LEMMA AnswerNext ==
  TypeOK /\ TypeOK' /\ LoopInv /\ LoopInv' /\ AnswerInv /\ [Next]_vars => AnswerInv'
<1> SUFFICES ASSUME TypeOK, TypeOK', LoopInv, LoopInv', AnswerInv, [Next]_vars
             PROVE  AnswerInv'
  OBVIOUS
<1>0. /\ state.attempt \in Nat /\ state.max_attempts \in Int
      /\ Calls \in Nat /\ Budget \in Nat
      /\ Budget >= 1 /\ Budget >= state.max_attempts
      /\ Budget = 1 \/ Budget = state.max_attempts
  BY LoopTypes
<1>1. CASE Classify
  <2>1. /\ node = "classify" /\ node' = route_after_classify(state')
        /\ state'.route \in CLASSIFIABLE_ROUTES
        /\ SameLoop
        /\ \E type \in EventTypes :
             state'.events = Append(state.events, make_event("classify", type))
    BY <1>1, ClassifyStep DEF Ran
  <2>2. ~Visited("answer")'
    <3>1. Visited("answer")' = Visited("answer")
      BY <2>1, VisitedAfter DEF NodeNames
    <3> QED BY <2>1, <3>1 DEF AnswerInv
  <2>3. Calls' = 0
    BY <2>1 DEF LoopInv, BeforeTheLoop, SameLoop, Calls
  <2>4. node' = "answer" => state'.route # "error"
    BY <2>1 DEF route_after_classify, RouteToNode
  <2>5. node' # "evaluate"
    BY <2>1, RouterTypes
  <2> QED BY <2>2, <2>3, <2>4, <2>5 DEF AnswerInv, Settled
<1>2. CASE Tool
  <2>1. /\ node = "tool" /\ node' = "evaluate"
        /\ state'.attempt = state.attempt /\ state'.route = state.route
        /\ tool_result(state) \in ToolResults
        /\ state'.tool_results = Append(state.tool_results, tool_result(state))
        /\ \E type \in EventTypes :
             state'.events = Append(state.events, make_event("tool", type))
    BY <1>2, ToolStep DEF Ran, SameTriage
  <2>2. ~Visited("answer")'
    <3>1. Visited("answer")' = Visited("answer")
      BY <2>1, VisitedAfter DEF NodeNames
    <3> QED BY <2>1, <3>1 DEF AnswerInv
  <2>3. LastResult' = tool_result(state)
    <3>1. state.tool_results \in Seq(ToolResults)
      BY FieldTypes DEF TypeOK
    <3> QED BY <2>1, <3>1 DEF LastResult
  <2>4. state.route = "error" /\ tool_result(state) # "error" => state.attempt >= 2
    BY <1>0 DEF tool_result
  <2> QED BY <2>1, <2>2, <2>3, <2>4 DEF AnswerInv, Settled
<1>3. CASE Evaluate
  <2>1. PICK judgement \in Judgements :
          state'.evaluation_result = verdict(state, judgement)
    BY <1>3, EvaluateStep
  <2>2. /\ node = "evaluate" /\ node' = route_after_evaluate(state')
        /\ state'.attempt = state.attempt /\ state'.route = state.route
        /\ state'.max_attempts = state.max_attempts
        /\ state'.tool_results = state.tool_results
        /\ \E type \in EventTypes :
             state'.events = Append(state.events, make_event("evaluate", type))
    BY <1>3, EvaluateStep DEF Ran, SameTriage
  <2>3. ~Visited("answer")'
    <3>1. Visited("answer")' = Visited("answer")
      BY <2>2, VisitedAfter DEF NodeNames
    <3> QED BY <2>2, <3>1 DEF AnswerInv
  <2>4. Calls' = Calls /\ LastResult' = LastResult
    BY <2>2 DEF Calls, LastResult
  <2>5. node' # "evaluate"
    BY <2>2, RouterTypes
  <2>6. ASSUME node' = "answer"
        PROVE  state'.evaluation_result = "success" /\ Calls > 0 /\ LastResult # "error"
    <3>1. judge_consulted(state) /\ state'.evaluation_result = "success"
      BY <2>1, <2>2, <2>6 DEF verdict, route_after_evaluate
    <3>2. state.tool_results \in Seq(ToolResults)
      BY FieldTypes DEF TypeOK
    <3>3. Calls > 0
      BY <3>1, <3>2 DEF judge_consulted, Calls
    <3> QED BY <3>1, <3>3 DEF judge_consulted, Last, LastResult
  <2>7. ASSUME node' = "answer", state.route = "error"
        PROVE  state.attempt >= 2 /\ state.max_attempts >= 3
    <3>1. state.attempt >= 2
      BY <2>2, <2>6, <2>7 DEF AnswerInv
    <3>2. state.attempt < Budget
      BY <2>2 DEF LoopInv
    <3> QED BY <1>0, <3>1, <3>2
  <2> QED BY <2>2, <2>3, <2>4, <2>5, <2>6, <2>7 DEF AnswerInv, Settled
<1>4. CASE Answer
  <2>1. node = "answer" /\ node' = "finalize" /\ SameLoop /\ SameTriage
        /\ state'.max_attempts = state.max_attempts
    BY <1>4, AnswerStep DEF Ran
  <2>2. Settled /\ Calls' = Calls /\ LastResult' = LastResult
    BY <2>1 DEF Settled, SameLoop, Calls, LastResult
  <2> QED BY <2>1, <2>2 DEF AnswerInv, SameLoop, SameTriage
<1>5. CASE Intake \/ Clarify \/ RiskyAction \/ MockApproval \/ Resume \/ DeadLetter \/ Finalize
  <2>1. /\ SameLoop /\ SameTriage /\ state'.max_attempts = state.max_attempts
        /\ node' \notin {"answer", "evaluate"}
        /\ node = "finalize" => node' = "END"
        /\ \E n \in NodeNames \ {"answer", "tool", "evaluate"}, type \in EventTypes :
             node = n /\ state'.events = Append(state.events, make_event(n, type))
    BY <1>5, IntakeStep, ClarifyStep, RiskyActionStep, MockApprovalStep, ResumeStep,
       DeadLetterStep, FinalizeStep, RouterTypes
       DEF Ran, Decided, LoopInv, NodeNames, EventTypes
  <2> QED BY <2>1, AnswerKept
<1>6. CASE Retry
  <2>1. /\ node = "retry" /\ node' \in {"tool", "dead_letter"}
        /\ \E type \in EventTypes :
             state'.events = Append(state.events, make_event("retry", type))
    BY <1>6, RetryStep, RouterTypes DEF Ran
  <2>2. ~Visited("answer")'
    <3>1. Visited("answer")' = Visited("answer")
      BY <2>1, VisitedAfter DEF NodeNames
    <3> QED BY <2>1, <3>1 DEF AnswerInv
  <2> QED BY <2>1, <2>2 DEF AnswerInv, Settled
<1>7. CASE Interrupt \/ RaiseRecursionError \/ UNCHANGED vars
  <2>1. UNCHANGED <<state, node>>
    BY <1>7, IdleStep
  <2> QED BY <2>1 DEF AnswerInv, Settled, Visited, Visits, Calls, LastResult
<1> QED BY <1>1, <1>2, <1>3, <1>4, <1>5, <1>6, <1>7 DEF Next, Engine

\* The invariant of the answer holds in every reachable state.
LEMMA AnswerInvariant == Spec => []AnswerInv
BY LoopInvariant, AnswerInit, AnswerNext, PTL DEF Spec

\* No answer is written on a failed call or on a result that was sent back, for
\* every judge and every budget.
THEOREM AnswersAreEarned == Spec => []AnswersRestOnSuccess
<1>1. AnswerInv => AnswersRestOnSuccess
  BY DEF AnswerInv, AnswersRestOnSuccess, Settled, LastResult, Last
<1> QED BY <1>1, AnswerInvariant, PTL

\* An error-route ticket that is answered has counted two attempts and had a
\* budget of three, whatever the budget.
THEOREM ErrorRouteTakesThree == Spec => []ErrorRouteNeedsBudgetOfThree
<1>1. AnswerInv => ErrorRouteNeedsBudgetOfThree
  BY DEF AnswerInv, ErrorRouteNeedsBudgetOfThree, Settled
<1> QED BY <1>1, AnswerInvariant, PTL

-------------------------------------------------------------------------------
(* One reply *)

ReplyNodes == {"answer", "clarify", "dead_letter"}

SameReply(s, t) ==
  t.final_answer = s.final_answer /\ t.pending_question = s.pending_question

\* The nodes that do not reply leave the reply and the question alone.
LEMMA SilentNodes ==
  ASSUME NEW s \in AgentStates
  PROVE  /\ SameReply(s, intake_node(s)) /\ SameReply(s, tool_node(s))
         /\ SameReply(s, risky_action_node(s)) /\ SameReply(s, retry_or_fallback_node(s))
         /\ SameReply(s, finalize_node(s))
         /\ \A reply \in ClassifyReplies : SameReply(s, classify_node(s, reply))
         /\ \A judgement \in Judgements : SameReply(s, evaluate_node(s, judgement))
         /\ \A decision : SameReply(s, approval_node(s, decision))
<1>1. SameReply(s, intake_node(s)) /\ SameReply(s, finalize_node(s))
  BY DEF AgentStates, SameReply, intake_node, finalize_node
<1>2. SameReply(s, tool_node(s))
  BY DEF AgentStates, SameReply, tool_node
<1>3. SameReply(s, risky_action_node(s)) /\ SameReply(s, retry_or_fallback_node(s))
  BY DEF AgentStates, SameReply, risky_action_node, retry_or_fallback_node
<1>4. \A reply \in ClassifyReplies : SameReply(s, classify_node(s, reply))
  BY DEF AgentStates, SameReply, classify_node
<1>5. \A judgement \in Judgements : SameReply(s, evaluate_node(s, judgement))
  BY DEF AgentStates, SameReply, evaluate_node
<1>6. \A decision : SameReply(s, approval_node(s, decision))
  BY DEF AgentStates, SameReply, approval_node
<1> QED BY <1>1, <1>2, <1>3, <1>4, <1>5, <1>6

\* The nodes that reply: only clarify leaves a question.
LEMMA ReplyingNodes ==
  ASSUME NEW s \in AgentStates, NEW text \in Texts
  PROVE  /\ answer_node(s, text).final_answer \in {"generated", "templated"}
         /\ answer_node(s, text).pending_question = s.pending_question
         /\ ask_clarification_node(s, text).final_answer = "question"
         /\ ask_clarification_node(s, text).pending_question = "question"
         /\ dead_letter_node(s).final_answer = "escalated"
         /\ dead_letter_node(s).pending_question = s.pending_question
BY DEF AgentStates, answer_node, ask_clarification_node, dead_letter_node

\* The reply of node n was written at position last of the audit trail, and no
\* other node replied.
ReplyAt(n, last) ==
  /\ Visits(n) = {last}
  /\ \A m \in ReplyNodes \ {n} : ~Visited(m)
  /\ state.final_answer \in
       CASE n = "answer"      -> {"generated", "templated"}
         [] n = "clarify"     -> {"question"}
         [] n = "dead_letter" -> {"escalated"}
  /\ state.pending_question # None <=> n = "clarify"

NoReplyYet ==
  state.pending_question = None /\ \A n \in ReplyNodes : Visits(n) = {}

\* The inductive invariant: before finalize nothing was said, then one thing.
ReplyInv ==
  /\ node \notin {"finalize", "END"} => NoReplyYet
  /\ node # "END" => Visits("finalize") = {}
  /\ node = "finalize" => \E n \in ReplyNodes : ReplyAt(n, Len(state.events))
  /\ node = "END" =>
       /\ Visits("finalize") = {Len(state.events)}
       /\ \E n \in ReplyNodes : ReplyAt(n, Len(state.events) - 1)
  /\ status = "done" => node = "END"

\* A ticket starts without a reply.
LEMMA ReplyInit == Init => ReplyInv
<1> SUFFICES ASSUME Init PROVE ReplyInv
  OBVIOUS
<1>1. PICK query \in Queries, budget \in Budgets : state = initial_state(query, budget)
  BY DEF Init
<1>2. state.pending_question = None
  BY <1>1 DEF initial_state
<1>3. node = "intake" /\ status = "running"
  BY DEF Init
<1>4. NoReplyYet /\ Visits("finalize") = {}
  BY <1>2, NothingVisited DEF NoReplyYet, ReplyNodes, NodeNames
<1> QED BY <1>3, <1>4 DEF ReplyInv

\* A step of a node that neither replies nor finalizes leaves a ticket unreplied.
LEMMA StillNoReply ==
  ASSUME TypeOK, ReplyInv, NEW n \in NodeNames \ (ReplyNodes \cup {"finalize"}),
         NEW type \in EventTypes,
         node = n, node' \notin {"finalize", "END"}, status' # "done",
         SameReply(state, state'),
         state'.events = Append(state.events, make_event(n, type))
  PROVE  ReplyInv'
<1>1. \A m \in NodeNames \ {n} : Visits(m)' = Visits(m)
  BY VisitedAfter
<1>2. NoReplyYet /\ Visits("finalize") = {}
  BY DEF ReplyInv, NodeNames
<1>3. NoReplyYet' /\ Visits("finalize")' = {}
  BY <1>1, <1>2 DEF NoReplyYet, SameReply, ReplyNodes, NodeNames
<1> QED BY <1>3 DEF ReplyInv

\* The step of a node that replies writes the only reply.
LEMMA NowOneReply ==
  ASSUME TypeOK, ReplyInv, NEW n \in ReplyNodes, NEW type \in EventTypes,
         node = n, node' = "finalize", status' # "done",
         state'.events = Append(state.events, make_event(n, type)),
         state'.final_answer \in
           CASE n = "answer"      -> {"generated", "templated"}
             [] n = "clarify"     -> {"question"}
             [] n = "dead_letter" -> {"escalated"},
         state'.pending_question # None <=> n = "clarify"
  PROVE  ReplyInv'
<1>1. n \in NodeNames
  BY DEF ReplyNodes, NodeNames
<1>2. /\ \A m \in NodeNames \ {n} : Visits(m)' = Visits(m) /\ Visited(m)' = Visited(m)
      /\ Visits(n)' = Visits(n) \cup {Len(state.events) + 1}
      /\ Len(state'.events) = Len(state.events) + 1
  BY <1>1, VisitedAfter, VisitsGrow
<1>3. Visits("finalize") = {} /\ \A m \in ReplyNodes : Visits(m) = {}
  BY DEF ReplyInv, NoReplyYet, ReplyNodes
<1>4. Visits("finalize")' = {}
  BY <1>2, <1>3 DEF ReplyNodes, NodeNames
<1>5. Visits(n)' = {Len(state'.events)}
  BY <1>2, <1>3
<1>6. \A m \in ReplyNodes \ {n} : ~Visited(m)'
  BY <1>2, <1>3 DEF Visited, ReplyNodes, NodeNames
<1>7. ReplyAt(n, Len(state.events))'
  BY <1>5, <1>6 DEF ReplyAt
<1> QED BY <1>4, <1>7 DEF ReplyInv

\* What the steps of the silent nodes do to the reply.
LEMMA SilentSteps ==
  ASSUME TypeOK, \/ Intake \/ Classify \/ Tool \/ Evaluate \/ RiskyAction
                 \/ MockApproval \/ Resume \/ Retry \/ Finalize
  PROVE  SameReply(state, state')
<1>0. state \in AgentStates
  BY DEF TypeOK
<1>1. CASE Intake \/ Tool \/ RiskyAction \/ Retry \/ Finalize
  <2>1. state' \in {intake_node(state), tool_node(state), risky_action_node(state),
                    retry_or_fallback_node(state), finalize_node(state)}
    BY <1>1 DEF Intake, Tool, RiskyAction, Retry, Finalize, Advance
  <2> QED BY <1>0, <2>1, SilentNodes
<1>2. CASE Classify
  <2>1. PICK reply \in ClassifyReplies : state' = classify_node(state, reply)
    BY <1>2 DEF Classify, Advance
  <2> QED BY <1>0, <2>1, SilentNodes
<1>3. CASE Evaluate
  <2>1. PICK judgement \in Judgements : state' = evaluate_node(state, judgement)
    BY <1>3 DEF Evaluate, Advance
  <2> QED BY <1>0, <2>1, SilentNodes
<1>4. CASE MockApproval \/ Resume
  <2>1. \E decision \in {"approved", "rejected"} : state' = approval_node(state, decision)
    BY <1>4 DEF MockApproval, Resume, Advance, mock_decision, human_decision
  <2> QED BY <1>0, <2>1, SilentNodes
<1> QED BY <1>1, <1>2, <1>3, <1>4

\* Every step preserves the invariant of the reply.
LEMMA ReplyNext == TypeOK /\ LoopInv /\ ReplyInv /\ [Next]_vars => ReplyInv'
<1> SUFFICES ASSUME TypeOK, LoopInv, ReplyInv, [Next]_vars PROVE ReplyInv'
  OBVIOUS
<1>0. state \in AgentStates
  BY DEF TypeOK
<1>1. CASE \/ Intake \/ Classify \/ Tool \/ Evaluate \/ RiskyAction
           \/ MockApproval \/ Resume \/ Retry
  <2>1. SameReply(state, state')
    BY <1>1, SilentSteps
  <2>2. /\ node' \notin {"finalize", "END"} /\ status' # "done"
        /\ \E n \in NodeNames \ (ReplyNodes \cup {"finalize"}), type \in EventTypes :
             node = n /\ state'.events = Append(state.events, make_event(n, type))
    BY <1>1, IntakeStep, ClassifyStep, ToolStep, EvaluateStep, RiskyActionStep,
       MockApprovalStep, ResumeStep, RetryStep, RouterTypes
       DEF Ran, Decided, LoopInv, NodeNames, EventTypes, ReplyNodes
  <2> QED BY <2>1, <2>2, StillNoReply
<1>2. CASE Answer
  <2>1. PICK text \in Texts : state' = answer_node(state, text)
    BY <1>2 DEF Answer, Advance
  <2>2. /\ state'.final_answer \in {"generated", "templated"}
        /\ state'.pending_question = state.pending_question
    BY <1>0, <2>1, ReplyingNodes
  <2>3. /\ node = "answer" /\ node' = "finalize" /\ status' # "done"
        /\ \E type \in EventTypes :
             state'.events = Append(state.events, make_event("answer", type))
    BY <1>2, AnswerStep DEF Ran
  <2>4. state.pending_question = None
    BY <2>3 DEF ReplyInv, NoReplyYet
  <2> QED BY <2>2, <2>3, <2>4, NowOneReply DEF ReplyNodes
<1>3. CASE Clarify
  <2>1. PICK text \in Texts : state' = ask_clarification_node(state, text)
    BY <1>3 DEF Clarify, Advance
  <2>2. state'.final_answer = "question" /\ state'.pending_question = "question"
    BY <1>0, <2>1, ReplyingNodes
  <2>3. /\ node = "clarify" /\ node' = "finalize" /\ status' # "done"
        /\ \E type \in EventTypes :
             state'.events = Append(state.events, make_event("clarify", type))
    BY <1>3, ClarifyStep DEF Ran
  <2> QED BY <2>2, <2>3, NowOneReply DEF ReplyNodes, None
<1>4. CASE DeadLetter
  <2>1. state' = dead_letter_node(state)
    BY <1>4 DEF DeadLetter, Advance
  <2>2. /\ state'.final_answer = "escalated"
        /\ state'.pending_question = state.pending_question
    BY <1>0, <2>1, ReplyingNodes DEF Texts
  <2>3. /\ node = "dead_letter" /\ node' = "finalize" /\ status' # "done"
        /\ \E type \in EventTypes :
             state'.events = Append(state.events, make_event("dead_letter", type))
    BY <1>4, DeadLetterStep DEF Ran
  <2>4. state.pending_question = None
    BY <2>3 DEF ReplyInv, NoReplyYet
  <2> QED BY <2>2, <2>3, <2>4, NowOneReply DEF ReplyNodes
<1>5. CASE Finalize
  <2>1. SameReply(state, state')
    BY <1>5, SilentSteps
  <2>2. PICK type \in EventTypes :
          /\ node = "finalize" /\ node' = "END"
          /\ state'.events = Append(state.events, make_event("finalize", type))
    BY <1>5, FinalizeStep DEF Ran
  <2>3. /\ \A m \in ReplyNodes : Visits(m)' = Visits(m) /\ Visited(m)' = Visited(m)
        /\ Visits("finalize")' = Visits("finalize") \cup {Len(state.events) + 1}
        /\ Len(state'.events) = Len(state.events) + 1
    BY <2>2, VisitedAfter, VisitsGrow DEF ReplyNodes, NodeNames
  <2>4. Len(state'.events) - 1 = Len(state.events)
    <3>1. state.events \in Seq(LabEvent)
      BY <1>0, FieldTypes
    <3> QED BY <2>3, <3>1
  <2>5. PICK n \in ReplyNodes : ReplyAt(n, Len(state.events))
    BY <2>2 DEF ReplyInv
  <2>6. ReplyAt(n, Len(state.events) - 1)'
    BY <2>1, <2>3, <2>4, <2>5 DEF ReplyAt, SameReply
  <2>7. Visits("finalize")' = {Len(state'.events)}
    BY <2>2, <2>3 DEF ReplyInv
  <2> QED BY <2>2, <2>6, <2>7 DEF ReplyInv
<1>6. CASE Interrupt \/ RaiseRecursionError \/ UNCHANGED vars
  <2>1. UNCHANGED <<state, node>> /\ (status' = "done" => status = "done")
    BY <1>6, IdleStep DEF Interrupt, RaiseRecursionError, vars
  <2> QED BY <2>1 DEF ReplyInv, NoReplyYet, ReplyAt, Visited, Visits
<1> QED BY <1>1, <1>2, <1>3, <1>4, <1>5, <1>6 DEF Next, Engine

\* A finished run passed finalize once, as its last node, after the one reply it
\* wrote, for every ticket, model and human.
THEOREM OneReplyPerRun == Spec => []FinishedRunsReplyOnce
<1>1. ReplyInv => FinishedRunsReplyOnce
  BY DEF ReplyInv, ReplyAt, ReplyNodes, FinishedRunsReplyOnce
<1> QED BY <1>1, ReplyInit, ReplyNext, LoopInvariant, PTL DEF Spec

-------------------------------------------------------------------------------
(* The list of errors *)

Escalations == IF Visited("dead_letter") THEN 1 ELSE 0

\* An error of a model call is recorded exactly when it is counted as an outage,
\* and never as an escalation.
LEMMA ModelCallsAreRecorded ==
  ASSUME TypeOK, Classify \/ Evaluate \/ Answer \/ Clarify
  PROVE  \/ state'.errors = state.errors /\ outages' = outages
         \/ /\ \E entry \in Errors : entry.source # "dead_letter"
                 /\ state'.errors = Append(state.errors, entry)
            /\ outages' = outages + 1
<1>0. state \in AgentStates
  BY DEF TypeOK
<1>1. CASE Classify
  <2>1. PICK reply \in ClassifyReplies :
          state' = classify_node(state, reply) /\ Count(reply \in Outages)
    BY <1>1 DEF Classify, Advance
  <2>2. state'.errors = IF reply \in Outages
                        THEN Append(state.errors, exception_entry("classify", reply.exception))
                        ELSE state.errors
    BY <1>0, <2>1, ClassifyEffect
  <2> QED BY <2>1, <2>2, EntryTypes DEF Count, ErrorSources
<1>2. CASE Evaluate
  <2>1. PICK judgement \in Judgements :
          /\ state' = evaluate_node(state, judgement)
          /\ Count(judge_consulted(state) /\ judgement \in Exceptions)
    BY <1>2 DEF Evaluate, Advance
  <2>2. state'.errors = IF judge_consulted(state) /\ judgement \in Exceptions
                        THEN Append(state.errors, exception_entry("evaluate", judgement))
                        ELSE state.errors
    BY <1>0, <2>1, EvaluateEffect
  <2> QED BY <2>1, <2>2, EntryTypes DEF Count, ErrorSources
<1>3. CASE Answer
  <2>1. PICK text \in Texts : state' = answer_node(state, text) /\ Count(text \in Exceptions)
    BY <1>3 DEF Answer, Advance
  <2>2. state'.errors = IF text \in Exceptions
                        THEN Append(state.errors, exception_entry("answer", text))
                        ELSE state.errors
    BY <1>0, <2>1, AnswerEffect
  <2> QED BY <2>1, <2>2, EntryTypes DEF Count, ErrorSources
<1>4. CASE Clarify
  <2>1. PICK text \in Texts :
          state' = ask_clarification_node(state, text) /\ Count(text \in Exceptions)
    BY <1>4 DEF Clarify, Advance
  <2>2. state'.errors = IF text \in Exceptions
                        THEN Append(state.errors, exception_entry("clarify", text))
                        ELSE state.errors
    BY <1>0, <2>1, ClarifyEffect
  <2> QED BY <2>1, <2>2, EntryTypes DEF Count, ErrorSources
<1> QED BY <1>1, <1>2, <1>3, <1>4

\* The nodes without a model call record an error at a retry and at an escalation.
LEMMA OtherStepsRecord ==
  ASSUME TypeOK
  PROVE  /\ Intake \/ Tool \/ RiskyAction \/ MockApproval \/ Resume \/ Finalize =>
              state'.errors = state.errors /\ outages' = outages
         /\ Retry =>
              state'.errors = Append(state.errors, retry_entry(state)) /\ outages' = outages
         /\ DeadLetter =>
              /\ state'.errors = Append(state.errors, make_error("dead_letter", TRUE))
              /\ outages' = outages
<1>0. state \in AgentStates
  BY DEF TypeOK
<1>1. ASSUME Intake PROVE state'.errors = state.errors /\ outages' = outages
  BY <1>0, <1>1, IntakeEffect DEF Intake, Advance
<1>2. ASSUME Tool PROVE state'.errors = state.errors /\ outages' = outages
  BY <1>0, <1>2, ToolEffect DEF Tool, Advance
<1>3. ASSUME RiskyAction PROVE state'.errors = state.errors /\ outages' = outages
  BY <1>0, <1>3, RiskyActionEffect DEF RiskyAction, Advance
<1>4. ASSUME MockApproval \/ Resume PROVE state'.errors = state.errors /\ outages' = outages
  <2>1. /\ \E decision \in {"approved", "rejected"} : state' = approval_node(state, decision)
        /\ outages' = outages
    BY <1>4 DEF MockApproval, Resume, Advance, mock_decision, human_decision
  <2> QED BY <1>0, <2>1, ApprovalEffect
<1>5. ASSUME Finalize PROVE state'.errors = state.errors /\ outages' = outages
  BY <1>0, <1>5, FinalizeEffect DEF Finalize, Advance
<1>6. ASSUME Retry
      PROVE  state'.errors = Append(state.errors, retry_entry(state)) /\ outages' = outages
  BY <1>0, <1>6, RetryEffect DEF Retry, Advance
<1>7. ASSUME DeadLetter
      PROVE  /\ state'.errors = Append(state.errors, make_error("dead_letter", TRUE))
             /\ outages' = outages
  BY <1>0, <1>7, DeadLetterEffect DEF DeadLetter, Advance
<1> QED BY <1>1, <1>2, <1>3, <1>4, <1>5, <1>6, <1>7

\* No step swallows a failure or records one twice.
LEMMA RecordNext ==
  TypeOK /\ TypeOK' /\ LoopInv /\ ReplyInv /\ FailuresAreRecorded /\ [Next]_vars
    => FailuresAreRecorded'
<1> SUFFICES ASSUME TypeOK, TypeOK', LoopInv, ReplyInv, FailuresAreRecorded, [Next]_vars
             PROVE  FailuresAreRecorded'
  OBVIOUS
<1>0. /\ Len(state.errors) = outages + state.attempt + Escalations
      /\ Escalations \in {0, 1} /\ outages \in Nat /\ state.attempt \in Nat
      /\ state.errors \in Seq(Errors)
  BY FieldTypes DEF TypeOK, FailuresAreRecorded, Escalations
<1> SUFFICES Len(state'.errors) = outages' + state'.attempt + Escalations'
  BY DEF FailuresAreRecorded, Escalations
<1>1. ASSUME NEW entry \in Errors, state'.errors = Append(state.errors, entry)
      PROVE  Len(state'.errors) = Len(state.errors) + 1
  BY <1>0, <1>1
<1>2. CASE \/ Intake \/ Classify \/ Tool \/ Evaluate \/ Answer \/ Clarify
           \/ RiskyAction \/ MockApproval \/ Resume \/ Finalize
  <2>1. /\ state'.attempt = state.attempt
        /\ \E n \in NodeNames \ {"dead_letter"}, type \in EventTypes :
             state'.events = Append(state.events, make_event(n, type))
    BY <1>2, IntakeStep, ClassifyStep, ToolStep, EvaluateStep, AnswerStep, ClarifyStep,
       RiskyActionStep, MockApprovalStep, ResumeStep, FinalizeStep
       DEF Ran, Decided, SameLoop, NodeNames, EventTypes
  <2>2. Escalations' = Escalations
    BY <2>1, VisitedAfter DEF Escalations, NodeNames
  <2>3. \/ Len(state'.errors) = Len(state.errors) /\ outages' = outages
        \/ Len(state'.errors) = Len(state.errors) + 1 /\ outages' = outages + 1
    BY <1>1, <1>2, ModelCallsAreRecorded, OtherStepsRecord
  <2> QED BY <1>0, <2>1, <2>2, <2>3
<1>3. CASE Retry
  <2>1. /\ state'.attempt = state.attempt + 1
        /\ \E type \in EventTypes :
             state'.events = Append(state.events, make_event("retry", type))
    BY <1>3, RetryStep DEF Ran
  <2>2. Escalations' = Escalations
    BY <2>1, VisitedAfter DEF Escalations, NodeNames
  <2>3. Len(state'.errors) = Len(state.errors) + 1 /\ outages' = outages
    BY <1>0, <1>1, <1>3, OtherStepsRecord, EntryTypes DEF TypeOK
  <2> QED BY <1>0, <2>1, <2>2, <2>3
<1>4. CASE DeadLetter
  <2>1. /\ state'.attempt = state.attempt /\ node = "dead_letter"
        /\ \E type \in EventTypes :
             state'.events = Append(state.events, make_event("dead_letter", type))
    BY <1>4, DeadLetterStep DEF Ran, SameLoop
  <2>2. Escalations = 0
    BY <2>1 DEF ReplyInv, NoReplyYet, ReplyNodes, Escalations, Visited
  <2>3. Escalations' = 1
    BY <2>1, VisitsGrow DEF Escalations, Visited, NodeNames
  <2>4. Len(state'.errors) = Len(state.errors) + 1 /\ outages' = outages
    BY <1>1, <1>4, OtherStepsRecord, EntryTypes
  <2> QED BY <1>0, <2>1, <2>2, <2>3, <2>4
<1>5. CASE Interrupt \/ RaiseRecursionError \/ UNCHANGED vars
  <2>1. UNCHANGED <<state, outages>>
    BY <1>5 DEF Interrupt, RaiseRecursionError, vars
  <2> QED BY <1>0, <2>1 DEF Escalations, Visited, Visits
<1> QED BY <1>2, <1>3, <1>4, <1>5 DEF Next, Engine

\* Every model call that raised has its own entry in errors, next to those of
\* the retries and of the dead letter, for every model and every budget.
THEOREM FailuresLeaveTheirMark == Spec => []FailuresAreRecorded
<1>1. Init => FailuresAreRecorded
  <2> SUFFICES ASSUME Init PROVE FailuresAreRecorded
    OBVIOUS
  <2>1. PICK query \in Queries, budget \in Budgets : state = initial_state(query, budget)
    BY DEF Init
  <2>2. state.errors = <<>> /\ state.attempt = 0
    BY <2>1 DEF initial_state
  <2>3. Len(state.errors) = 0 /\ outages = 0
    BY <2>2 DEF Init
  <2>4. ~Visited("dead_letter")
    BY NothingVisited DEF Visited, NodeNames
  <2> QED BY <2>2, <2>3, <2>4 DEF FailuresAreRecorded
<1> QED BY <1>1, RecordNext, ReplyInit, ReplyNext, TypeCorrect, LoopInvariant, PTL DEF Spec

-------------------------------------------------------------------------------
(* Model calls *)

\* A ticket is classified once, by the second node of its journey.
ClassifyInv ==
  /\ node \in {"intake", "classify"} => Visits("classify") = {}
  /\ \E i : Visits("classify") \subseteq {i}

\* Every step preserves the invariant of the classification.
LEMMA ClassifiedOnce == TypeOK /\ LoopInv /\ ClassifyInv /\ [Next]_vars => ClassifyInv'
<1> SUFFICES ASSUME TypeOK, LoopInv, ClassifyInv, [Next]_vars PROVE ClassifyInv'
  OBVIOUS
<1>1. CASE Classify
  <2>1. /\ node = "classify" /\ node' \notin {"intake", "classify"}
        /\ \E type \in EventTypes :
             state'.events = Append(state.events, make_event("classify", type))
    BY <1>1, ClassifyStep, RouterTypes DEF Ran
  <2>2. Visits("classify")' = Visits("classify") \cup {Len(state.events) + 1}
    BY <2>1, VisitsGrow DEF NodeNames
  <2> QED BY <2>1, <2>2 DEF ClassifyInv
<1>2. CASE \/ Intake \/ Tool \/ Evaluate \/ Answer \/ Clarify \/ RiskyAction
           \/ MockApproval \/ Resume \/ Retry \/ DeadLetter \/ Finalize
  <2>1. /\ node' \in {"intake", "classify"} => node = "intake"
        /\ \E n \in NodeNames \ {"classify"}, type \in EventTypes :
             state'.events = Append(state.events, make_event(n, type))
    BY <1>2, IntakeStep, ToolStep, EvaluateStep, AnswerStep, ClarifyStep,
       RiskyActionStep, MockApprovalStep, ResumeStep, RetryStep, DeadLetterStep,
       FinalizeStep, RouterTypes DEF Ran, Decided, NodeNames, EventTypes
  <2>2. Visits("classify")' = Visits("classify")
    BY <2>1, VisitedAfter DEF NodeNames
  <2> QED BY <2>1, <2>2 DEF ClassifyInv
<1>3. CASE Interrupt \/ RaiseRecursionError \/ UNCHANGED vars
  <2>1. UNCHANGED <<state, node>>
    BY <1>3, IdleStep
  <2> QED BY <2>1 DEF ClassifyInv, Visits
<1> QED BY <1>1, <1>2, <1>3 DEF Next, Engine

\* A set with at most one element is finite and counts for at most one.
LEMMA AtMostOne ==
  ASSUME NEW S, NEW i, S \subseteq {i}
  PROVE  IsFiniteSet(S) /\ Cardinality(S) \in 0..1
<1>1. CASE S = {}
  BY <1>1, FS_EmptySet
<1>2. CASE S = {i}
  BY <1>2, FS_Singleton
<1> QED BY <1>1, <1>2

\* A ticket is classified once and replied to once, so these two take two calls.
LEMMA CallsToSpeak ==
  ASSUME ClassifyInv, ReplyInv, TypeOK
  PROVE  Cardinality(Visits("classify") \cup Visits("answer") \cup Visits("clarify")) \in 0..2
<1> DEFINE C == Visits("classify")
           R == Visits("answer") \cup Visits("clarify")
<1>1. PICK i : C \subseteq {i}
  BY DEF ClassifyInv
<1>2. \E j : R \subseteq {j}
  <2>1. CASE node \in {"finalize", "END"}
    <3>1. PICK n \in ReplyNodes :
            ReplyAt(n, Len(state.events)) \/ ReplyAt(n, Len(state.events) - 1)
      BY <2>1 DEF ReplyInv
    <3>2. PICK last : ReplyAt(n, last)
      BY <3>1
    <3>3. R \subseteq {last}
      BY <3>2 DEF ReplyAt, ReplyNodes, Visited
    <3> QED BY <3>3
  <2>2. CASE node \notin {"finalize", "END"}
    <3>1. R \subseteq {0}
      BY <2>2 DEF ReplyInv, NoReplyYet, ReplyNodes
    <3> QED BY <3>1
  <2> QED BY <2>1, <2>2
<1>3. PICK j : R \subseteq {j}
  BY <1>2
<1>4. /\ IsFiniteSet(C) /\ Cardinality(C) \in 0..1
      /\ IsFiniteSet(R) /\ Cardinality(R) \in 0..1
  BY <1>1, <1>3, AtMostOne
<1> HIDE DEF C, R
<1>5. IsFiniteSet(C \cap R)
  BY <1>4, FS_Subset
<1>6. IsFiniteSet(C \cup R)
  BY <1>4, FS_Union
<1>7. Cardinality(C \cap R) \in Nat /\ Cardinality(C \cup R) \in Nat
  BY <1>5, <1>6, FS_CardinalityType
<1>8. Cardinality(C \cup R) = Cardinality(C) + Cardinality(R) - Cardinality(C \cap R)
  BY <1>4, FS_Union
<1>9. C \cup R = Visits("classify") \cup Visits("answer") \cup Visits("clarify")
  BY DEF C, R
<1> QED BY <1>4, <1>7, <1>8, <1>9

\* Verdicts and failed results are different results of the tool.
LEMMA CallsToJudge ==
  ASSUME TypeOK, LoopInv
  PROVE  /\ Cardinality(Judged) \in Nat
         /\ Cardinality({i \in DOMAIN state.tool_results :
                           state.tool_results[i] = "error"}) \in Nat
         /\ Cardinality(Judged) + Cardinality({i \in DOMAIN state.tool_results :
                           state.tool_results[i] = "error"}) <= CallBudget
<1> DEFINE J == Judged
           F == {i \in DOMAIN state.tool_results : state.tool_results[i] = "error"}
<1>1. Calls \in Nat /\ DOMAIN state.tool_results = 1..Calls
  <2>1. state.tool_results \in Seq(ToolResults)
    BY FieldTypes DEF TypeOK
  <2> QED BY <2>1 DEF Calls
<1>2. IsFiniteSet(1..Calls) /\ Cardinality(1..Calls) = Calls
  BY <1>1, FS_Interval
<1>3. J \in SUBSET (1..Calls) /\ F \in SUBSET (1..Calls) /\ J \cap F = {}
  BY <1>1 DEF Judged
<1> HIDE DEF J, F
<1>4. IsFiniteSet(J) /\ IsFiniteSet(F)
  BY <1>2, <1>3, FS_Subset
<1>5. Cardinality(J) \in Nat /\ Cardinality(F) \in Nat
  BY <1>4, FS_CardinalityType
<1>6. Cardinality(J \cup F) = Cardinality(J) + Cardinality(F)
  <2>1. Cardinality(J \cap F) = 0
    BY <1>3, FS_EmptySet
  <2>2. Cardinality(J \cup F) = Cardinality(J) + Cardinality(F) - Cardinality(J \cap F)
    BY <1>4, FS_Union
  <2> QED BY <1>5, <2>1, <2>2
<1>7. Cardinality(J \cup F) <= Calls
  <2>1. J \cup F \in SUBSET (1..Calls)
    BY <1>3
  <2> QED BY <1>2, <2>1, FS_Subset
<1>8. CallBudget \in Int /\ Calls <= CallBudget
  BY LoopTypes DEF LoopInv, CallBudget, AtLeastOne
<1>9. Cardinality(J) + Cardinality(F) <= CallBudget
  BY <1>1, <1>5, <1>6, <1>7, <1>8
<1> QED BY <1>5, <1>9 DEF J, F

\* A ticket takes at most two model calls more than its budget has tool calls,
\* the failed ones not counted, however often the judge is not satisfied.
THEOREM ModelCallsAreBounded == Spec => []ModelCallsWithinBudget
<1>1. Init => ClassifyInv
  <2> SUFFICES ASSUME Init PROVE ClassifyInv
    OBVIOUS
  <2>1. Visits("classify") = {}
    BY NothingVisited DEF NodeNames
  <2> QED BY <2>1 DEF ClassifyInv
<1>2. TypeOK /\ LoopInv /\ ReplyInv /\ ClassifyInv => ModelCallsWithinBudget
  <2> SUFFICES ASSUME TypeOK, LoopInv, ReplyInv, ClassifyInv PROVE ModelCallsWithinBudget
    OBVIOUS
  <2> DEFINE s == Cardinality(Visits("classify") \cup Visits("answer") \cup Visits("clarify"))
             j == Cardinality(Judged)
             f == Cardinality({i \in DOMAIN state.tool_results :
                                 state.tool_results[i] = "error"})
  <2>1. s \in 0..2
    BY CallsToSpeak
  <2>2. j \in Nat /\ f \in Nat /\ j + f <= CallBudget
    BY CallsToJudge
  <2>3. CallBudget \in Int
    BY LoopTypes DEF CallBudget, AtLeastOne
  <2>4. ModelCalls = s + j
    BY DEF ModelCalls
  <2> HIDE DEF s, j, f
  <2>5. ModelCalls + f <= CallBudget + 2
    BY <2>1, <2>2, <2>3, <2>4
  <2> QED BY <2>5 DEF ModelCallsWithinBudget, f
<1> QED BY <1>1, <1>2, ClassifiedOnce, ReplyInit, ReplyNext, LoopInvariant, PTL DEF Spec

-------------------------------------------------------------------------------
(* Triage without a classifier *)

\* The route and the ticket stay as they are, and no failure of the classifier is
\* added to the errors.
SameOrigin ==
  /\ state'.query = state.query /\ state'.route = state.route
  /\ \/ state'.errors = state.errors
     \/ \E entry \in Errors : entry.source # "classify"
          /\ state'.errors = Append(state.errors, entry)

\* Only classify decides the route and reports that it could not be reached.
LEMMA OnlyClassifyTriages ==
  ASSUME TypeOK,
         \/ Intake \/ Tool \/ Evaluate \/ Answer \/ Clarify \/ RiskyAction
         \/ MockApproval \/ Resume \/ Retry \/ DeadLetter \/ Finalize
  PROVE  SameOrigin
<1>0. state \in AgentStates
  BY DEF TypeOK
<1>1. CASE Intake
  BY <1>0, <1>1 DEF Intake, Advance, intake_node, SameOrigin, AgentStates
<1>2. CASE Tool
  BY <1>0, <1>2 DEF Tool, Advance, tool_node, SameOrigin, AgentStates
<1>3. CASE Evaluate
  <2>1. PICK judgement \in Judgements : state' = evaluate_node(state, judgement)
    BY <1>3 DEF Evaluate, Advance
  <2>2. state'.errors = IF judge_consulted(state) /\ judgement \in Exceptions
                        THEN Append(state.errors, exception_entry("evaluate", judgement))
                        ELSE state.errors
    BY <1>0, <2>1, EvaluateEffect
  <2>3. state'.query = state.query /\ state'.route = state.route
    BY <1>0, <2>1 DEF evaluate_node, AgentStates
  <2> QED BY <2>2, <2>3, EntryTypes DEF SameOrigin, ErrorSources
<1>4. CASE Answer
  <2>1. PICK text \in Texts : state' = answer_node(state, text)
    BY <1>4 DEF Answer, Advance
  <2>2. state'.errors = IF text \in Exceptions
                        THEN Append(state.errors, exception_entry("answer", text))
                        ELSE state.errors
    BY <1>0, <2>1, AnswerEffect
  <2>3. state'.query = state.query /\ state'.route = state.route
    BY <1>0, <2>1 DEF answer_node, AgentStates
  <2> QED BY <2>2, <2>3, EntryTypes DEF SameOrigin, ErrorSources
<1>5. CASE Clarify
  <2>1. PICK text \in Texts : state' = ask_clarification_node(state, text)
    BY <1>5 DEF Clarify, Advance
  <2>2. state'.errors = IF text \in Exceptions
                        THEN Append(state.errors, exception_entry("clarify", text))
                        ELSE state.errors
    BY <1>0, <2>1, ClarifyEffect
  <2>3. state'.query = state.query /\ state'.route = state.route
    BY <1>0, <2>1 DEF ask_clarification_node, AgentStates
  <2> QED BY <2>2, <2>3, EntryTypes DEF SameOrigin, ErrorSources
<1>6. CASE RiskyAction
  BY <1>0, <1>6 DEF RiskyAction, Advance, risky_action_node, SameOrigin, AgentStates
<1>7. CASE MockApproval \/ Resume
  <2>1. PICK decision : state' = approval_node(state, decision)
    BY <1>7 DEF MockApproval, Resume, Advance
  <2> QED BY <1>0, <2>1 DEF approval_node, SameOrigin, AgentStates
<1>8. CASE Retry
  <2>1. state'.query = state.query /\ state'.route = state.route
    BY <1>0, <1>8 DEF Retry, Advance, retry_or_fallback_node, AgentStates
  <2> QED BY <1>0, <1>8, <2>1, OtherStepsRecord, EntryTypes DEF SameOrigin
<1>9. CASE DeadLetter
  <2>1. state'.query = state.query /\ state'.route = state.route
    BY <1>0, <1>9 DEF DeadLetter, Advance, dead_letter_node, AgentStates
  <2> QED BY <1>9, <2>1, OtherStepsRecord, EntryTypes DEF SameOrigin
<1>10. CASE Finalize
  BY <1>0, <1>10 DEF Finalize, Advance, finalize_node, SameOrigin, AgentStates
<1> QED BY <1>1, <1>2, <1>3, <1>4, <1>5, <1>6, <1>7, <1>8, <1>9, <1>10

\* The inductive invariant: nothing failed before the ticket was classified.
OriginInv ==
  /\ node \in {"intake", "classify"} => state.errors = <<>>
  /\ OutageKeepsTheOrder

\* A list that grew by one entry holds that entry and what it held before.
LEMMA EntriesAfter ==
  ASSUME NEW errors \in Seq(Errors), NEW entry \in Errors
  PROVE  ToSet(Append(errors, entry)) = ToSet(errors) \cup {entry}
<1>1. /\ Len(Append(errors, entry)) = Len(errors) + 1 /\ Len(errors) \in Nat
      /\ \A i \in 1..Len(errors) : Append(errors, entry)[i] = errors[i]
      /\ Append(errors, entry)[Len(errors) + 1] = entry
  OBVIOUS
<1>2. /\ DOMAIN errors = 1..Len(errors)
      /\ DOMAIN Append(errors, entry) = 1..(Len(errors) + 1)
  BY <1>1
<1>3. 1..(Len(errors) + 1) = (1..Len(errors)) \cup {Len(errors) + 1}
  BY <1>1
<1> QED BY <1>1, <1>2, <1>3 DEF ToSet

\* Classification without a model follows the keywords.
LEMMA ClassifyKeepsOrder ==
  ASSUME TypeOK, OriginInv, Classify
  PROVE  OutageKeepsTheOrder'
<1>0. state \in AgentStates /\ state.errors = <<>>
  BY DEF TypeOK, OriginInv, Classify, AtNode
<1>1. PICK reply \in ClassifyReplies : state' = classify_node(state, reply)
  BY DEF Classify, Advance
<1>2. CASE reply \in Outages
  <2>1. reply.route \notin CLASSIFIABLE_ROUTES
    BY <1>2 DEF Outages, CLASSIFIABLE_ROUTES
  <2>2. state'.route = heuristic_route(state.query) /\ state'.query = state.query
    BY <1>0, <1>1, <2>1 DEF classify_node, AgentStates
  <2>3. \/ heuristic_route(state.query) = prompt_route(state.query)
        \/ /\ heuristic_route(state.query) = "error"
           /\ prompt_route(state.query) = "missing_info"
           /\ {"failure", "brief"} \subseteq state.query
    BY DEF heuristic_route, prompt_route
  <2> QED BY <2>2, <2>3 DEF OutageKeepsTheOrder
<1>3. CASE reply \notin Outages
  <2>1. state'.errors = <<>>
    BY <1>0, <1>1, <1>3, ClassifyEffect
  <2>2. ToSet(state'.errors) = {}
    BY <2>1 DEF ToSet
  <2> QED BY <2>2 DEF OutageKeepsTheOrder
<1> QED BY <1>2, <1>3

\* Every step preserves the invariant of the triage.
LEMMA OriginNext == TypeOK /\ OriginInv /\ [Next]_vars => OriginInv'
<1> SUFFICES ASSUME TypeOK, OriginInv, [Next]_vars PROVE OriginInv'
  OBVIOUS
<1>1. CASE Classify
  <2>1. node' \notin {"intake", "classify"}
    BY <1>1, ClassifyStep, RouterTypes
  <2> QED BY <1>1, <2>1, ClassifyKeepsOrder DEF OriginInv
<1>2. CASE \/ Intake \/ Tool \/ Evaluate \/ Answer \/ Clarify \/ RiskyAction
           \/ MockApproval \/ Resume \/ Retry \/ DeadLetter \/ Finalize
  <2>1. SameOrigin
    BY <1>2, OnlyClassifyTriages
  <2>2. node' \in {"intake", "classify"} => Intake
    BY <1>2, IntakeStep, ToolStep, EvaluateStep, AnswerStep, ClarifyStep,
       RiskyActionStep, MockApprovalStep, ResumeStep, RetryStep, DeadLetterStep,
       FinalizeStep, RouterTypes DEF Ran, Decided
  <2>3. Intake => node = "intake" /\ state'.errors = state.errors
    BY OtherStepsRecord DEF Intake, AtNode
  <2>4. state.errors \in Seq(Errors)
    BY FieldTypes DEF TypeOK
  <2>5. \A e \in ToSet(state'.errors) : e.source = "classify" => e \in ToSet(state.errors)
    <3>1. CASE state'.errors = state.errors
      BY <3>1
    <3>2. ASSUME NEW entry \in Errors, entry.source # "classify",
                 state'.errors = Append(state.errors, entry)
          PROVE  \A e \in ToSet(state'.errors) :
                   e.source = "classify" => e \in ToSet(state.errors)
      <4>1. ToSet(state'.errors) = ToSet(state.errors) \cup {entry}
        BY <2>4, <3>2, EntriesAfter
      <4> QED BY <3>2, <4>1
    <3> QED BY <2>1, <3>1, <3>2 DEF SameOrigin
  <2> QED BY <2>1, <2>2, <2>3, <2>5 DEF OriginInv, OutageKeepsTheOrder, SameOrigin
<1>3. CASE Interrupt \/ RaiseRecursionError \/ UNCHANGED vars
  <2>1. UNCHANGED <<state, node>>
    BY <1>3, IdleStep
  <2> QED BY <2>1 DEF OriginInv, OutageKeepsTheOrder
<1> QED BY <1>1, <1>2, <1>3 DEF Next, Engine

\* When the classifier cannot be reached the keywords choose the route in the
\* prompt's order, but for a failure named in few words, for every ticket.
THEOREM OutagesKeepTheOrder == Spec => []OutageKeepsTheOrder
<1>1. Init => OriginInv
  <2> SUFFICES ASSUME Init PROVE OriginInv
    OBVIOUS
  <2>1. PICK query \in Queries, budget \in Budgets : state = initial_state(query, budget)
    BY DEF Init
  <2>2. state.errors = <<>>
    BY <2>1 DEF initial_state
  <2>3. ToSet(state.errors) = {}
    BY <2>2 DEF ToSet
  <2> QED BY <2>2, <2>3 DEF OriginInv, OutageKeepsTheOrder
<1>2. OriginInv => OutageKeepsTheOrder
  BY DEF OriginInv
<1> QED BY <1>1, <1>2, OriginNext, TypeCorrect, PTL DEF Spec

===============================================================================
