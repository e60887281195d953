--------------------------- MODULE RefinementProofs ---------------------------
(***************************************************************************)
(* TicketHandling, implemented twice, for every choice of the constants:   *)
(* by the graph, whose every step is a step of the ticket or leaves it as  *)
(* it is, and by the checkpoints of a thread whose process dies and is     *)
(* replaced.  What the journey keeps through that is proved on the way.    *)
(***************************************************************************)
EXTENDS StoreProofs, WorkflowRefinement

\* The route is not known before the ticket was classified.
TriageInv == node \in {"intake", "classify"} => state.route = ""

\* The invariants the refinement rests on.
RInv == TypeOK /\ LoopInv /\ GateInv /\ TriageInv

\* Only the first two nodes see a ticket without a route.
LEMMA TriageNext == TypeOK /\ GateInv /\ TriageInv /\ [Next]_vars => TriageInv'
<1> SUFFICES ASSUME TypeOK, GateInv, TriageInv, [Next]_vars PROVE TriageInv'
  OBVIOUS
<1>1. CASE Intake
  BY <1>1, IntakeStep DEF Ran, SameTriage, TriageInv
<1>2. CASE \/ Classify \/ Tool \/ Evaluate \/ Answer \/ Clarify \/ RiskyAction
           \/ MockApproval \/ Resume \/ Retry \/ DeadLetter \/ Finalize
  <2>1. node' \notin {"intake", "classify"}
    BY <1>2, ClassifyStep, ToolStep, EvaluateStep, AnswerStep, ClarifyStep,
       RiskyActionStep, MockApprovalStep, ResumeStep, RetryStep, DeadLetterStep,
       FinalizeStep, RouterTypes DEF Decided
  <2> QED BY <2>1 DEF TriageInv
<1>3. CASE Interrupt \/ RaiseRecursionError \/ UNCHANGED vars
  BY <1>3, IdleStep DEF TriageInv
<1> QED BY <1>1, <1>2, <1>3 DEF Next, Engine

\* The invariants the refinement rests on hold in every reachable state.
LEMMA RInvariant == Spec => []RInv
<1>1. Init => TriageInv
  <2> SUFFICES ASSUME Init PROVE state.route = ""
    BY DEF TriageInv
  <2>1. PICK query \in Queries, budget \in Budgets : state = initial_state(query, budget)
    BY DEF Init
  <2> QED BY <2>1 DEF initial_state
<1> QED BY <1>1, TriageNext, LoopInvariant, GateInvariant, PTL DEF Spec, RInv

-------------------------------------------------------------------------------
(* What the abstract ticket sees of a step *)

\* A step that neither triages nor calls keeps limit, calls and effects.
LEMMA CountsKept ==
  ASSUME state'.route = state.route, state'.max_attempts = state.max_attempts,
         state'.tool_results = state.tool_results
  PROVE  /\ CallBudget' = CallBudget /\ Calls' = Calls
         /\ Cardinality(Executed)' = Cardinality(Executed)
BY DEF CallBudget, Calls, Executed

\* What was replied is read from one field of the state.
LEMMA ReplyKept ==
  ASSUME NEW n, NEW s, NEW t, SameReply(s, t)
  PROVE  ReplyOf(n, s) = ReplyOf(n, t)
BY DEF SameReply, ReplyOf

\* Before a reply is scheduled the abstract ticket has none.
LEMMA NoReplyBefore ==
  ASSUME NEW s,
         NEW n \in {"intake", "classify", "risky_action", "approval",
                    "tool", "evaluate", "retry"}
  PROVE  ReplyOf(n, s) = "none"
BY DEF ReplyOf

\* A ticket without a route and without calls is a ticket before its triage.
LEMMA InitRefines == Init => Ticket!Init
<1> SUFFICES ASSUME Init PROVE Ticket!Init
  OBVIOUS
<1>1. PICK query \in Queries, budget \in Budgets : state = initial_state(query, budget)
  BY DEF Init
<1>2. /\ state.route = "" /\ state.max_attempts = budget
      /\ state.approval = None
  BY <1>1 DEF initial_state
<1>3. StageOf(node) = "triage" /\ ReplyOf(node, state) = "none"
  BY NoReplyBefore DEF Init, StageOf
<1>4. CallBudget = AtLeastOne(budget)
  BY <1>2 DEF CallBudget
<1>5. state.tool_results = <<>>
  BY <1>1 DEF initial_state
<1>6. Calls = 0 /\ Executed = {}
  <2>1. Len(state.tool_results) = 0
    BY <1>5
  <2>2. DOMAIN state.tool_results = {}
    BY <1>5
  <2> QED BY <2>1, <2>2 DEF Calls, Executed
<1>7. Cardinality(Executed) = 0
  BY <1>6, FS_EmptySet
<1>8. (state.approval = "approved") = FALSE
  BY <1>2 DEF None
<1> QED BY <1>3, <1>4, <1>6, <1>7, <1>8 DEF Ticket!Init

\* intake, risky_action and the nodes that reply leave the ticket as it is: the
\* reply was decided when its node was scheduled.
LEMMA SilentRefines ==
  ASSUME RInv, Intake \/ RiskyAction \/ Answer \/ Clarify \/ DeadLetter
  PROVE  UNCHANGED Ticket!vars
<1>0. state \in AgentStates /\ TypeOK
  BY DEF RInv, TypeOK
<1>1. /\ state'.route = state.route /\ state'.max_attempts = state.max_attempts
      /\ state'.tool_results = state.tool_results
      /\ state'.approval = state.approval
      /\ StageOf(node') = StageOf(node)
  BY <1>0, IntakeStep, RiskyActionStep, AnswerStep, ClarifyStep, DeadLetterStep
     DEF Ran, SameTriage, SameDecision, SameLoop, StageOf
<1>2. ReplyOf(node', state') = ReplyOf(node, state)
  <2>1. CASE Intake \/ RiskyAction
    <3>1. /\ node \in {"intake", "risky_action"} /\ node' \in {"classify", "approval"}
      BY <1>0, <2>1, IntakeStep, RiskyActionStep DEF Ran
    <3> QED BY <3>1, NoReplyBefore
  <2>2. CASE Answer
    <3>1. PICK text \in Texts : state' = answer_node(state, text)
      BY <2>2 DEF Answer, Advance
    <3>2. /\ state'.final_answer \in {"generated", "templated"}
          /\ node = "answer" /\ node' = "finalize"
      BY <1>0, <2>2, <3>1, ReplyingNodes, AnswerStep DEF Ran
    <3> QED BY <3>2 DEF ReplyOf
  <2>3. CASE Clarify
    <3>1. PICK text \in Texts : state' = ask_clarification_node(state, text)
      BY <2>3 DEF Clarify, Advance
    <3>2. /\ state'.final_answer = "question"
          /\ node = "clarify" /\ node' = "finalize"
      BY <1>0, <2>3, <3>1, ReplyingNodes, ClarifyStep DEF Ran
    <3> QED BY <3>2 DEF ReplyOf
  <2>4. CASE DeadLetter
    <3>1. state' = dead_letter_node(state)
      BY <2>4 DEF DeadLetter, Advance
    <3>2. /\ state'.final_answer = "escalated"
          /\ node = "dead_letter" /\ node' = "finalize"
      BY <1>0, <2>4, <3>1, ReplyingNodes, DeadLetterStep DEF Ran, Texts
    <3> QED BY <3>2 DEF ReplyOf
  <2> QED BY <2>1, <2>2, <2>3, <2>4
<1> QED BY <1>1, <1>2, CountsKept DEF Ticket!vars

\* Where the router sends each route.
LEMMA RouteTargets ==
  ASSUME NEW s
  PROVE  /\ s.route = "risky" => route_after_classify(s) = "risky_action"
         /\ s.route \in {"tool", "error"} => route_after_classify(s) \in {"tool", "retry"}
         /\ s.route \in {"simple", "missing_info"} =>
              route_after_classify(s) \in {"answer", "clarify"}
<1>1. DOMAIN RouteToNode = CLASSIFIABLE_ROUTES
  BY DEF RouteToNode, CLASSIFIABLE_ROUTES
<1> QED BY <1>1 DEF route_after_classify, RouteToNode, CLASSIFIABLE_ROUTES

\* classify proposes an action, lets the tool act, or replies at once.
LEMMA ClassifyRefines == ASSUME RInv, Classify PROVE Ticket!Next
<1>1. /\ node = "classify" /\ node' = route_after_classify(state')
      /\ state'.route \in CLASSIFIABLE_ROUTES /\ state.route = ""
      /\ state'.max_attempts = state.max_attempts
      /\ state'.approval = state.approval /\ state'.tool_results = state.tool_results
  BY ClassifyStep DEF RInv, TriageInv, Ran, SameDecision, SameLoop
<1>2. /\ Calls' = Calls /\ Cardinality(Executed)' = Cardinality(Executed)
      /\ (state'.approval = "approved") = (state.approval = "approved")
  BY <1>1 DEF Calls, Executed
<1>3. StageOf(node) = "triage" /\ ReplyOf(node, state) = "none"
  BY <1>1, NoReplyBefore DEF StageOf
<1>4. CallBudget' = IF state'.route = "error" THEN CallBudget - 1 ELSE CallBudget
  BY <1>1 DEF CallBudget
<1>5. CASE state'.route = "risky"
  <2>1. node' = "risky_action"
    BY <1>1, <1>5, RouteTargets
  <2>2. StageOf(node') = "gate" /\ ReplyOf(node', state') = "none"
    BY <2>1, NoReplyBefore DEF StageOf
  <2>3. Ticket!Propose
    BY <1>2, <1>3, <1>4, <1>5, <2>2 DEF Ticket!Propose, Ticket!Move
  <2> QED BY <2>3 DEF Ticket!Next, Ticket!Proceed
<1>6. CASE state'.route \in {"tool", "error"}
  <2>1. node' \in {"tool", "retry"}
    BY <1>1, <1>6, RouteTargets
  <2>2. StageOf(node') = "acting" /\ ReplyOf(node', state') = "none"
    BY <2>1, NoReplyBefore DEF StageOf
  <2>3. CallBudget' \in {CallBudget, CallBudget - 1}
    BY <1>4
  <2>4. Ticket!Act
    BY <1>2, <1>3, <2>2, <2>3 DEF Ticket!Act, Ticket!Move
  <2> QED BY <2>4 DEF Ticket!Next, Ticket!Proceed
<1>7. CASE state'.route \in {"simple", "missing_info"}
  <2>1. node' \in {"answer", "clarify"}
    BY <1>1, <1>7, RouteTargets
  <2>2. StageOf(node') = "replying" /\ ReplyOf(node', state') \in {"answer", "question"}
    BY <2>1 DEF StageOf, ReplyOf
  <2>3. CallBudget' = CallBudget
    BY <1>4, <1>7
  <2>4. Ticket!ReplyAtOnce
    BY <1>2, <1>3, <2>2, <2>3 DEF Ticket!ReplyAtOnce, Ticket!Move
  <2> QED BY <2>4 DEF Ticket!Next, Ticket!Proceed
<1> QED BY <1>1, <1>5, <1>6, <1>7 DEF CLASSIFIABLE_ROUTES

\* A decision, made by the mock reviewer or by a human, opens or closes the gate.
LEMMA DecisionRefines == ASSUME RInv, MockApproval \/ Resume PROVE Ticket!Next
<1>1. /\ node = "approval" /\ node' = route_after_approval(state')
      /\ state'.approval \in {"approved", "rejected"}
      /\ state'.route = state.route /\ state'.max_attempts = state.max_attempts
      /\ state'.tool_results = state.tool_results
  BY MockApprovalStep, ResumeStep DEF RInv, GateInv, Ran, Decided, SameTriage, SameLoop
<1>2. /\ CallBudget' = CallBudget /\ Calls' = Calls
      /\ Cardinality(Executed)' = Cardinality(Executed)
  BY <1>1, CountsKept
<1>3. StageOf(node) = "gate" /\ ReplyOf(node, state) = "none"
  BY <1>1, NoReplyBefore DEF StageOf
<1>4. (state.approval = "approved") = FALSE
  BY <1>1 DEF RInv, GateInv, Untouched, None
<1>5. CASE state'.approval = "approved"
  <2>1. node' = "tool"
    BY <1>1, <1>5 DEF route_after_approval
  <2>2. StageOf(node') = "acting" /\ ReplyOf(node', state') = "none"
    BY <2>1, NoReplyBefore DEF StageOf
  <2>3. Ticket!Authorise
    BY <1>2, <1>3, <1>5, <2>2 DEF Ticket!Authorise, Ticket!Move
  <2> QED BY <2>3 DEF Ticket!Next
<1>6. CASE state'.approval # "approved"
  <2>1. node' = "clarify"
    BY <1>1, <1>6 DEF route_after_approval
  <2>2. StageOf(node') = "replying" /\ ReplyOf(node', state') = "question"
    BY <2>1 DEF StageOf, ReplyOf
  <2>3. Ticket!Decline
    BY <1>2, <1>3, <1>4, <1>6, <2>2 DEF Ticket!Decline, Ticket!Move
  <2> QED BY <2>3 DEF Ticket!Next
<1> QED BY <1>5, <1>6

\* A tool call within the limit, and an effect if the action was authorised.
LEMMA ToolRefines == ASSUME RInv, LoopInv', Tool PROVE Ticket!Next
<1>1. /\ node = "tool" /\ node' = "evaluate"
      /\ state'.route = state.route /\ state'.max_attempts = state.max_attempts
      /\ state'.approval = state.approval
      /\ state'.tool_results = Append(state.tool_results, tool_result(state))
      /\ tool_result(state) \in ToolResults /\ state.tool_results \in Seq(ToolResults)
  BY ToolStep, FieldTypes DEF RInv, TypeOK, Ran, SameTriage, SameDecision
<1>2. /\ Calls' = Calls + 1 /\ Calls \in Nat
      /\ DOMAIN state.tool_results = 1..Calls
      /\ DOMAIN state'.tool_results = DOMAIN state.tool_results \cup {Calls + 1}
      /\ Calls + 1 \notin DOMAIN state.tool_results
      /\ \A i \in DOMAIN state.tool_results : state'.tool_results[i] = state.tool_results[i]
      /\ state'.tool_results[Calls + 1] = tool_result(state)
  BY <1>1 DEF Calls
<1>3. CallBudget' = CallBudget /\ CallBudget \in Int /\ Calls' <= CallBudget'
  <2>1. state.max_attempts \in Int
    BY LoopTypes DEF RInv
  <2> QED BY <1>1, <2>1 DEF CallBudget, AtLeastOne, LoopInv
<1>4. Calls < CallBudget
  BY <1>2, <1>3
<1>5. tool_result(state) = "executed" <=> state.approval = "approved"
  BY <1>1 DEF tool_result, RInv, GateInv, None
<1>6. Executed' = IF state.approval = "approved" THEN Executed \cup {Calls + 1} ELSE Executed
  BY <1>2, <1>5 DEF Executed
<1>7. IsFiniteSet(Executed) /\ Calls + 1 \notin Executed
  <2>1. IsFiniteSet(1..Calls)
    BY <1>2, FS_Interval
  <2>2. Executed \in SUBSET (1..Calls)
    BY <1>2 DEF Executed
  <2> QED BY <1>2, <2>1, <2>2, FS_Subset
<1>8. Cardinality(Executed)' =
        IF state.approval = "approved" THEN Cardinality(Executed) + 1
        ELSE Cardinality(Executed)
  BY <1>6, <1>7, FS_AddElement
<1>9. /\ StageOf(node) = "acting" /\ StageOf(node') = "acting"
      /\ ReplyOf(node, state) = "none" /\ ReplyOf(node', state') = "none"
  BY <1>1, NoReplyBefore DEF StageOf
<1>10. Ticket!Call
  BY <1>1, <1>2, <1>3, <1>4, <1>8, <1>9 DEF Ticket!Call
<1> QED BY <1>10 DEF Ticket!Next, Ticket!Proceed

\* evaluate keeps the ticket acting, or accepts a result there is.
LEMMA EvaluateRefines ==
  ASSUME RInv, Evaluate PROVE Ticket!Next \/ UNCHANGED Ticket!vars
<1>1. PICK judgement \in Judgements : state'.evaluation_result = verdict(state, judgement)
  BY EvaluateStep DEF RInv
<1>2. /\ node = "evaluate" /\ node' = route_after_evaluate(state')
      /\ state'.route = state.route /\ state'.max_attempts = state.max_attempts
      /\ state'.approval = state.approval /\ state'.tool_results = state.tool_results
      /\ state.tool_results \in Seq(ToolResults)
  BY EvaluateStep, FieldTypes DEF RInv, TypeOK, Ran, SameTriage, SameDecision
<1>3. /\ CallBudget' = CallBudget /\ Calls' = Calls
      /\ Cardinality(Executed)' = Cardinality(Executed)
      /\ (state'.approval = "approved") = (state.approval = "approved")
  BY <1>2, CountsKept
<1>4. StageOf(node) = "acting" /\ ReplyOf(node, state) = "none"
  BY <1>2, NoReplyBefore DEF StageOf
<1>5. CASE node' = "retry"
  <2>1. StageOf(node') = "acting" /\ ReplyOf(node', state') = "none"
    BY <1>5, NoReplyBefore DEF StageOf
  <2> QED BY <1>3, <1>4, <2>1 DEF Ticket!vars
<1>6. CASE node' = "answer"
  <2>1. judge_consulted(state)
    BY <1>1, <1>2, <1>6 DEF route_after_evaluate, verdict
  <2>2. Calls > 0
    BY <1>2, <2>1 DEF judge_consulted, Calls
  <2>3. StageOf(node') = "replying" /\ ReplyOf(node', state') = "answer"
    BY <1>6 DEF StageOf, ReplyOf
  <2>4. Ticket!Accept
    BY <1>3, <1>4, <2>2, <2>3 DEF Ticket!Accept, Ticket!Move
  <2> QED BY <2>4 DEF Ticket!Next, Ticket!Proceed
<1> QED BY <1>2, <1>5, <1>6, RouterTypes

\* retry keeps the ticket acting, or gives it up with its limit used up.
LEMMA RetryRefines ==
  ASSUME RInv, LoopInv', Retry PROVE Ticket!Next \/ UNCHANGED Ticket!vars
<1>1. /\ node = "retry" /\ node' = route_after_retry(state')
      /\ state'.route = state.route /\ state'.max_attempts = state.max_attempts
      /\ state'.approval = state.approval /\ state'.tool_results = state.tool_results
  BY RetryStep DEF RInv, Ran, SameTriage, SameDecision
<1>2. /\ CallBudget' = CallBudget /\ Calls' = Calls
      /\ Cardinality(Executed)' = Cardinality(Executed)
      /\ (state'.approval = "approved") = (state.approval = "approved")
  BY <1>1, CountsKept
<1>3. StageOf(node) = "acting" /\ ReplyOf(node, state) = "none"
  BY <1>1, NoReplyBefore DEF StageOf
<1>4. CASE node' = "tool"
  <2>1. StageOf(node') = "acting" /\ ReplyOf(node', state') = "none"
    BY <1>4, NoReplyBefore DEF StageOf
  <2> QED BY <1>2, <1>3, <2>1 DEF Ticket!vars
<1>5. CASE node' = "dead_letter"
  <2>1. StageOf(node') = "replying" /\ ReplyOf(node', state') = "escalation"
    BY <1>5 DEF StageOf, ReplyOf
  <2>2. Calls = CallBudget
    BY <1>2, <1>5 DEF LoopInv
  <2>3. Ticket!Escalate
    BY <1>2, <1>3, <2>1, <2>2 DEF Ticket!Escalate, Ticket!Move
  <2> QED BY <2>3 DEF Ticket!Next, Ticket!Proceed
<1> QED BY <1>1, <1>4, <1>5, RouterTypes

\* finalize closes the ticket with the reply it has.
LEMMA FinalizeRefines == ASSUME RInv, Finalize PROVE Ticket!Next
<1>1. /\ node = "finalize" /\ node' = "END"
      /\ state'.route = state.route /\ state'.max_attempts = state.max_attempts
      /\ state'.approval = state.approval /\ state'.tool_results = state.tool_results
      /\ SameReply(state, state')
  BY FinalizeStep, SilentSteps DEF RInv, Ran, SameTriage, SameDecision, SameLoop
<1>2. /\ CallBudget' = CallBudget /\ Calls' = Calls
      /\ Cardinality(Executed)' = Cardinality(Executed)
      /\ (state'.approval = "approved") = (state.approval = "approved")
  BY <1>1, CountsKept
<1>3. /\ StageOf(node) = "replying" /\ StageOf(node') = "closed"
      /\ ReplyOf(node', state') = ReplyOf(node, state)
  BY <1>1 DEF StageOf, ReplyOf, SameReply
<1>4. Ticket!Close
  BY <1>2, <1>3 DEF Ticket!Close, Ticket!Move
<1> QED BY <1>4 DEF Ticket!Next, Ticket!Proceed

\* Every step of the graph is a step of the ticket or leaves it as it is.
LEMMA NextRefines == RInv /\ LoopInv' /\ [Next]_vars => [Ticket!Next]_(Ticket!vars)
<1> SUFFICES ASSUME RInv, LoopInv', [Next]_vars PROVE [Ticket!Next]_(Ticket!vars)
  OBVIOUS
<1>1. CASE Intake \/ RiskyAction \/ Answer \/ Clarify \/ DeadLetter
  BY <1>1, SilentRefines
<1>2. CASE Classify
  BY <1>2, ClassifyRefines
<1>3. CASE MockApproval \/ Resume
  BY <1>3, DecisionRefines
<1>4. CASE Tool
  BY <1>4, ToolRefines
<1>5. CASE Evaluate
  BY <1>5, EvaluateRefines
<1>6. CASE Retry
  BY <1>6, RetryRefines
<1>7. CASE Finalize
  BY <1>7, FinalizeRefines
<1>8. CASE Interrupt \/ RaiseRecursionError \/ UNCHANGED vars
  <2>1. UNCHANGED <<state, node>>
    BY <1>8, IdleStep
  <2> QED BY <2>1 DEF Ticket!vars, CallBudget, Calls, Executed
<1> QED BY <1>1, <1>2, <1>3, <1>4, <1>5, <1>6, <1>7, <1>8 DEF Next, Engine

\* Every journey through the graph is one TicketHandling allows: decisions come
\* before the calls they cover, calls stay within the limit, an escalation means
\* the limit is used up, and there is one reply (the wiring of graph.py).
THEOREM GraphImplementsTicketHandling == Spec => Ticket!Spec
<1>1. RInv => LoopInv
  BY DEF RInv
<1> QED BY <1>1, InitRefines, NextRefines, RInvariant, PTL DEF Spec, Ticket!Spec

-------------------------------------------------------------------------------
(* The ticket the store shows *)

\* A ticket s at node n: what the invariants of the journey say about the two.
OnTheWay(s, n) ==
  LET limit   == AtLeastOne(s.max_attempts)
      calls   == Len(s.tool_results)
      before  == IF s.route = "error" THEN s.attempt - 1 ELSE s.attempt
      budget  == IF s.route = "error" THEN limit - 1 ELSE limit
      visits(m) == {i \in DOMAIN s.events : s.events[i].node = m}
      granted == {j \in visits("approval") : s.events[j].event_type = "approved"}
  IN /\ s.attempt <= limit
     /\ n \in BeforeTheLoop =>
          /\ s.attempt = 0 /\ calls = 0 /\ s.approval = None
          /\ DOMAIN s.tool_results = {} /\ visits("tool") = {}
     /\ n \in {"intake", "classify"} => s.route = ""
     /\ n \in {"risky_action", "approval"} => s.route = "risky" /\ s.risk_level = "high"
     /\ n = "approval" => s.proposed_action = "proposed"
     /\ n \in {"tool", "evaluate", "retry"} =>
          /\ s.route \in {"tool", "error", "risky"}
          /\ s.route = "risky" => s.approval = "approved"
     /\ n \in {"tool", "evaluate", "retry", "answer"} => s.attempt < limit
     /\ n = "tool" => calls = before
     /\ n \in {"evaluate", "retry"} => calls = before + 1
     /\ n = "dead_letter" => s.attempt >= s.max_attempts /\ calls = budget
     /\ calls <= budget
     /\ s.approval # None => s.route = "risky"
     /\ s.approval = "approved" => granted # {}
     /\ \A i \in DOMAIN s.tool_results :
          CASE s.tool_results[i] = "executed" -> s.route = "risky" /\ s.approval = "approved"
            [] s.tool_results[i] = "error"  -> s.route = "error"
            [] s.tool_results[i] = "lookup" -> s.route \in {"tool", "error"}
     /\ s.route = "risky" => \A i \in visits("tool") : \E j \in granted : j < i

\* The invariants of the journey, before a step.
LEMMA OnTheWayBefore ==
  ASSUME OnTheWay(state, node), status = "interrupted" => node = "approval"
  PROVE  LoopInv /\ GateInv /\ TriageInv
<1>1. LoopInv
  BY DEF OnTheWay, LoopInv, Budget, Calls, CallBudget, CallsBefore, BeforeTheLoop
<1>2. TriageInv
  BY DEF OnTheWay, TriageInv
<1>3. RiskyGate /\ EffectsMatchRoute
  <2>1. RiskyGate
    BY DEF OnTheWay, RiskyGate, Visits
  <2>2. EffectsMatchRoute
    BY DEF OnTheWay, EffectsMatchRoute
  <2> QED BY <2>1, <2>2
<1>4. state.approval = "approved" => ApprovalOnRecord
  BY DEF OnTheWay, ApprovalOnRecord, Visits
<1>5. node \in BeforeTheLoop => Untouched
  BY DEF OnTheWay, Untouched, Visited, Visits
<1>6. GateInv
  BY <1>3, <1>4, <1>5 DEF OnTheWay, GateInv, BeforeTheLoop
<1> QED BY <1>1, <1>2, <1>6

\* The same, after a step.
LEMMA OnTheWayAfter == LoopInv' /\ GateInv' /\ TriageInv' => OnTheWay(state', node')
<1> SUFFICES ASSUME LoopInv', GateInv', TriageInv' PROVE OnTheWay(state', node')
  OBVIOUS
<1>1. RiskyGate' /\ EffectsMatchRoute'
  BY DEF GateInv
<1> QED BY <1>1 DEF OnTheWay, LoopInv, GateInv, TriageInv, RiskyGate, EffectsMatchRoute,
                    Budget, Calls, CallBudget, CallsBefore, BeforeTheLoop, Untouched,
                    Visited, Visits, ApprovalOnRecord

\* The parts of a ticket that TicketHandling speaks of.
LimitOf(s) == IF s.route = "error" THEN AtLeastOne(s.max_attempts) - 1
              ELSE AtLeastOne(s.max_attempts)

ExecutedIn(s) == {i \in DOMAIN s.tool_results : s.tool_results[i] = "executed"}

\* Ticket t at node m follows on ticket s at node n: TicketHandling's steps, for
\* two checkpoints instead of the current state and the next.
Follows(s, n, t, m) ==
  LET move(from, to) == StageOf(n) = from /\ StageOf(m) = to
      sameLimit      == LimitOf(t) = LimitOf(s)
      sameDecision   == (t.approval = "approved") = (s.approval = "approved")
      sameCalls      == Len(t.tool_results) = Len(s.tool_results)
      sameEffects    == Cardinality(ExecutedIn(t)) = Cardinality(ExecutedIn(s))
      sameReply      == ReplyOf(m, t) = ReplyOf(n, s)
  IN \/ /\ StageOf(m) = StageOf(n)
        /\ sameLimit /\ sameDecision /\ sameCalls /\ sameEffects /\ sameReply
     \/ /\ move("triage", "gate")
        /\ sameLimit /\ sameDecision /\ sameCalls /\ sameEffects /\ sameReply
     \/ /\ move("gate", "acting") /\ (t.approval = "approved") = TRUE
        /\ sameLimit /\ sameCalls /\ sameEffects /\ sameReply
     \/ /\ move("gate", "replying") /\ ReplyOf(m, t) = "question"
        /\ sameLimit /\ sameDecision /\ sameCalls /\ sameEffects
     \/ /\ move("triage", "acting") /\ LimitOf(t) \in {LimitOf(s), LimitOf(s) - 1}
        /\ sameDecision /\ sameCalls /\ sameEffects /\ sameReply
     \/ /\ move("triage", "replying") /\ ReplyOf(m, t) \in {"answer", "question"}
        /\ sameLimit /\ sameDecision /\ sameCalls /\ sameEffects
     \/ /\ StageOf(n) = "acting" /\ StageOf(m) = StageOf(n)
        /\ Len(s.tool_results) < LimitOf(s)
        /\ Len(t.tool_results) = Len(s.tool_results) + 1
        /\ Cardinality(ExecutedIn(t)) =
             IF s.approval = "approved" THEN Cardinality(ExecutedIn(s)) + 1
             ELSE Cardinality(ExecutedIn(s))
        /\ sameLimit /\ sameDecision /\ sameReply
     \/ /\ move("acting", "replying") /\ Len(s.tool_results) > 0
        /\ ReplyOf(m, t) = "answer"
        /\ sameLimit /\ sameDecision /\ sameCalls /\ sameEffects
     \/ /\ move("acting", "replying") /\ Len(s.tool_results) = LimitOf(s)
        /\ ReplyOf(m, t) = "escalation"
        /\ sameLimit /\ sameDecision /\ sameCalls /\ sameEffects
     \/ /\ move("replying", "closed")
        /\ sameLimit /\ sameDecision /\ sameCalls /\ sameEffects /\ sameReply

\* A step of the graph makes a ticket that follows on the one before.
LEMMA StepFollows ==
  ASSUME RInv, LoopInv', [Next]_vars PROVE Follows(state, node, state', node')
<1> USE DEF Ticket!vars, Ticket!Move, CallBudget, Calls, Executed, LimitOf, ExecutedIn
<1>1. CASE UNCHANGED Ticket!vars
  BY <1>1 DEF Follows
<1>2. CASE Ticket!Next
  BY <1>2 DEF Follows, Ticket!Next, Ticket!Proceed, Ticket!Propose, Ticket!Authorise,
     Ticket!Decline, Ticket!Act, Ticket!ReplyAtOnce, Ticket!Call, Ticket!Accept,
     Ticket!Escalate, Ticket!Close
<1> QED BY <1>1, <1>2, NextRefines

\* The node at which the store shows the ticket.
ShownNode == IF Shown.next = "__start__" THEN "intake" ELSE Shown.next

\* A shown ticket that follows on the one shown before is a step TicketHandling
\* allows.
LEMMA FollowingIsLegal ==
  ASSUME Follows(Shown.values, ShownNode, Shown'.values, ShownNode')
  PROVE  [Durable!Ticket!Next]_(Durable!Ticket!vars)
<1>1. /\ \A n : Durable!StageOf(n) = StageOf(n)
      /\ \A n, s : Durable!ReplyOf(n, s) = ReplyOf(n, s)
      /\ \A S : Durable!Cardinality(S) = Cardinality(S)
  BY DEF Durable!StageOf, StageOf, Durable!ReplyOf, ReplyOf, Durable!Cardinality, Cardinality
<1>2. /\ Durable!CallBudget = LimitOf(Shown.values)
      /\ Durable!Calls = Len(Shown.values.tool_results)
      /\ Durable!Executed = ExecutedIn(Shown.values)
      /\ Durable!CallBudget' = LimitOf(Shown'.values)
      /\ Durable!Calls' = Len(Shown'.values.tool_results)
      /\ Durable!Executed' = ExecutedIn(Shown'.values)
  BY DEF Durable!CallBudget, LimitOf, Durable!Calls, Durable!Executed, ExecutedIn,
         Durable!AtLeastOne, AtLeastOne
<1> QED BY <1>1, <1>2 DEF Follows, ShownNode, Durable!Ticket!vars, Durable!Ticket!Move,
     Durable!Ticket!Next, Durable!Ticket!Proceed, Durable!Ticket!Propose,
     Durable!Ticket!Authorise, Durable!Ticket!Decline, Durable!Ticket!Act,
     Durable!Ticket!ReplyAtOnce, Durable!Ticket!Call, Durable!Ticket!Accept,
     Durable!Ticket!Escalate, Durable!Ticket!Close

-------------------------------------------------------------------------------
(* One input, however often its process dies *)

\* The ticket of the process and those of the checkpoints are on their way.
JourneyInv ==
  /\ OnTheWay(state, node)
  /\ \A i \in DOMAIN Log : OnTheWay(Log[i].values, NodeToRun(Log[i]))

\* One input is given at the start, and no other.
LEMMA OneInput == ASSUME ThreadOK, MaxInvocations = 1 PROVE ~InvokeAgain
<1>1. invocations \in Nat /\ invocations >= 1
  BY BoundTypes DEF ThreadOK, PersistenceTypeOK
<1> QED BY <1>1 DEF InvokeAgain

\* No replay where none is asked for.
LEMMA NoReplay == ASSUME ThreadOK, MaxReplays = 0 PROVE ~Replay
<1>1. replays \in Nat
  BY BoundTypes DEF ThreadOK, PersistenceTypeOK
<1> QED BY <1>1 DEF Replay

\* A ticket in the graph makes a step of the graph.
LEMMA ProceedsOnTheWay ==
  ASSUME ThreadOK, OnTheWay(state, node), Proceeds
  PROVE  RInv /\ [Next]_vars /\ LoopInv' /\ GateInv' /\ TriageInv' /\ OnTheWay(state', node')
<1>1. TypeOK /\ TypeOK' /\ [Next]_vars
  <2>1. CASE Superstep /\ superstep' # superstep
    BY <2>1, SuperstepTypes DEF ThreadOK, Superstep, Next
  <2>2. CASE ResumeThread
    <3>1. TypeOK /\ Resume
      BY <2>2, WorkflowTyped DEF ThreadOK, ResumeThread, Returned
    <3> QED BY <3>1, NextType DEF Next
  <2> QED BY <2>1, <2>2 DEF Proceeds
<1>2. LoopInv /\ GateInv /\ TriageInv
  BY OnTheWayBefore DEF ThreadOK, ThreadShape
<1>3. LoopInv' /\ GateInv' /\ TriageInv'
  BY <1>1, <1>2, LoopNext, GateNext, TriageNext
<1> QED BY <1>1, <1>2, <1>3, OnTheWayAfter DEF RInv

\* A new ticket is on its way.
LEMMA JourneyInit == PersistenceInit => JourneyInv
<1> SUFFICES ASSUME PersistenceInit PROVE JourneyInv
  OBVIOUS
<1>1. /\ state \in AgentStates /\ node = "intake" /\ status = "running"
      /\ history = <<>> /\ unsaved = InputCheckpoints(state)
  BY ThreadTypesInit DEF PersistenceTypeOK, PersistenceInit, Init
<1>2. OnTheWay(state, "intake")
  <2>1. PICK query \in Queries, budget \in Budgets : state = initial_state(query, budget)
    BY DEF PersistenceInit, Init
  <2>2. /\ state.route = "" /\ state.attempt = 0 /\ state.max_attempts = budget
        /\ state.approval = None /\ state.tool_results = <<>> /\ state.events = <<>>
    BY <2>1 DEF initial_state
  <2>3. state.tool_results = <<>> /\ state.events = <<>>
    BY <2>2
  <2>4. DOMAIN state.tool_results = {} /\ DOMAIN state.events = {}
    BY <2>3
  <2>5. AtLeastOne(state.max_attempts) \in Nat /\ AtLeastOne(state.max_attempts) >= 1
    BY <2>2, LimitType, BudgetsAssumption
  <2>6. Len(state.tool_results) = 0
    BY <2>3
  <2>7. state.route = "" /\ state.attempt = 0 /\ state.approval = None
    BY <2>2
  <2>8. \A m : {i \in DOMAIN state.events : state.events[i].node = m} = {}
    BY <2>4
  <2>9. /\ ~(state.approval = "approved") /\ state.route # "risky"
        /\ state.route # "error" /\ "intake" \in BeforeTheLoop
    BY <2>7 DEF None, BeforeTheLoop
  <2>10. /\ state.attempt <= AtLeastOne(state.max_attempts)
         /\ Len(state.tool_results) <= AtLeastOne(state.max_attempts)
    <3> DEFINE limit == AtLeastOne(state.max_attempts)
    <3>1. limit \in Nat /\ limit >= 1
      BY <2>5
    <3> HIDE DEF limit
    <3>2. 0 <= limit
      BY <3>1
    <3>3. state.attempt = 0 /\ Len(state.tool_results) = 0
      BY <2>6, <2>7
    <3> QED BY <3>2, <3>3, Zenon DEF limit
  <2>11. \A i \in DOMAIN state.tool_results : FALSE
    BY <2>4
  <2> HIDE DEF AtLeastOne
  <2> QED BY <2>4, <2>5, <2>6, <2>7, <2>8, <2>9, <2>10, <2>11 DEF OnTheWay
<1>3. \A i \in DOMAIN Log : Log[i].values = state /\ NodeToRun(Log[i]) = "intake"
  <2>1. unsaved \in Seq(Checkpoint) /\ Len(unsaved) = 2
    BY <1>1, SnapshotType
  <2>2. Log = unsaved /\ DOMAIN Log = 1..2
    BY <1>1, <2>1, ConcatEmptySeq DEF Log
  <2>3. Log[1] = snapshot(state, "__start__") /\ Log[2] = snapshot(state, "intake")
    BY <1>1, <2>2, SnapshotType
  <2> QED BY <2>2, <2>3 DEF snapshot, NodeToRun
<1> QED BY <1>1, <1>2, <1>3 DEF JourneyInv

\* No second input: every step leaves tickets that are on their way.
LEMMA JourneyNext ==
  ASSUME MaxInvocations = 1
  PROVE  ThreadOK /\ JourneyInv /\ [PersistenceNext]_allvars => JourneyInv'
<1> SUFFICES ASSUME ThreadOK, JourneyInv, [PersistenceNext]_allvars PROVE JourneyInv'
  OBVIOUS
<1>0. ~InvokeAgain
  BY OneInput
<1>1. OnTheWay(state', node')
  <2>1. CASE Proceeds
    BY <2>1, ProceedsOnTheWay DEF JourneyInv
  <2>2. CASE (Superstep /\ superstep' = superstep) \/ Save \/ UNCHANGED allvars
    BY <2>2, Waits DEF JourneyInv
  <2>3. CASE Crash
    BY <2>3 DEF Crash, JourneyInv
  <2>4. ASSUME NEW i \in DOMAIN Log, TakeUp(Log[i]) PROVE OnTheWay(state', node')
    BY <2>4 DEF TakeUp, JourneyInv
  <2>5. ASSUME history # <<>>
        PROVE  /\ Len(history) \in DOMAIN Log /\ Log[Len(history)] = Latest
               /\ Middle \in DOMAIN Log /\ Log[Middle] = history[Middle]
    BY <2>5, TakenFrom, LogShape DEF ThreadOK
  <2>6. CASE Recover
    BY <2>4, <2>5, <2>6 DEF Recover
  <2>7. CASE Replay
    BY <2>4, <2>5, <2>7 DEF Replay, Returned, ThreadOK, ThreadShape
  <2> QED BY <1>0, <2>1, <2>2, <2>3, <2>6, <2>7 DEF PersistenceNext, Proceeds
<1>2. \A i \in DOMAIN Log' : OnTheWay(Log'[i].values, NodeToRun(Log'[i]))
  BY <1>1, NewCheckpoints DEF JourneyInv
<1> QED BY <1>1, <1>2 DEF JourneyInv

\* Checkpoint i + 1 follows on checkpoint i, the process is at the last one, and
\* the first is the one a reader of an empty store is told of.
LinkInv ==
  /\ \A i \in 1..(Len(Log) - 1) :
       Follows(Log[i].values, NodeToRun(Log[i]), Log[i + 1].values, NodeToRun(Log[i + 1]))
  /\ status # "crashed" =>
       /\ Log[Len(Log)].values = state /\ NodeToRun(Log[Len(Log)]) = node
       /\ history = <<>> => Log[1] = Shown

\* A ticket follows on itself.
LEMMA FollowsItself == ASSUME NEW s, NEW n PROVE Follows(s, n, s, n)
BY DEF Follows

\* A new thread has two checkpoints of the same ticket.
LEMMA LinkInit == PersistenceInit => LinkInv
<1> SUFFICES ASSUME PersistenceInit PROVE LinkInv
  OBVIOUS
<1>1. /\ state \in AgentStates /\ node = "intake"
      /\ history = <<>> /\ unsaved = InputCheckpoints(state)
  BY ThreadTypesInit DEF PersistenceTypeOK, PersistenceInit, Init
<1>2. PICK query \in Queries, budget \in Budgets : state = initial_state(query, budget)
  BY DEF PersistenceInit, Init
<1>3. /\ Len(Log) = 2 /\ Log[1] = snapshot(state, "__start__")
      /\ Log[2] = snapshot(state, "intake")
  <2>1. unsaved \in Seq(Checkpoint) /\ Len(unsaved) = 2
    BY <1>1, SnapshotType
  <2>2. Log = unsaved
    BY <1>1, <2>1, ConcatEmptySeq DEF Log
  <2> QED BY <1>1, <2>1, <2>2, SnapshotType
<1>4. Shown = snapshot(state, "__start__")
  <2>1. state.query = query /\ state.max_attempts = budget
    BY <1>2 DEF initial_state
  <2> QED BY <1>1, <1>2, <2>1 DEF Shown
<1>5. \A i \in 1..2 : Log[i].values = state /\ NodeToRun(Log[i]) = "intake"
  BY <1>3 DEF snapshot, NodeToRun
<1> QED BY <1>1, <1>3, <1>4, <1>5, FollowsItself DEF LinkInv

\* With no second input, no replay and no MemorySaver, checkpoints keep following
\* on each other, also across crashes.
LEMMA LinkNext ==
  ASSUME MaxInvocations = 1, MaxReplays = 0, "memory" \notin Kinds
  PROVE  ThreadOK /\ JourneyInv /\ LinkInv /\ [PersistenceNext]_allvars => LinkInv'
<1> SUFFICES ASSUME ThreadOK, JourneyInv, LinkInv, [PersistenceNext]_allvars PROVE LinkInv'
  OBVIOUS
<1>1. ~InvokeAgain /\ ~Replay
  BY OneInput, NoReplay
<1>2. /\ Log \in Seq(Checkpoint) /\ DOMAIN Log = 1..Len(Log) /\ Len(Log) \in Nat
      /\ Len(history) \in Nat /\ Len(history) <= Len(Log)
      /\ status # "crashed" => Len(Log) >= 1
      /\ \A i \in 1..Len(history) : Log[i] = history[i]
  <2>1. /\ history \in Seq(Checkpoint) /\ unsaved \in Seq(Checkpoint)
        /\ Len(Log) = Len(history) + Len(unsaved)
    BY LogShape DEF ThreadOK, PersistenceTypeOK
  <2>2. status # "crashed" => history # <<>> \/ unsaved # <<>>
    BY DEF ThreadOK, ThreadShape
  <2>3. status # "crashed" => Len(Log) >= 1
    BY <2>1, <2>2
  <2> QED BY <2>1, <2>3, LogShape DEF ThreadOK
<1>3. CASE (Superstep /\ superstep' = superstep) \/ Save \/ UNCHANGED allvars
  <2>1. /\ UNCHANGED <<state, node>> /\ Log' = Log
        /\ status' = "crashed" <=> status = "crashed"
    BY <1>3, Waits
  <2>2. history' = <<>> => history = <<>>
    <3>1. history \in Seq(Checkpoint) /\ unsaved \in Seq(Checkpoint)
      BY DEF ThreadOK, PersistenceTypeOK
    <3>2. CASE Save
      <4>1. history' = Append(history, Head(unsaved)) /\ Head(unsaved) \in Checkpoint
        BY <3>1, <3>2 DEF Save
      <4> QED BY <3>1, <4>1
    <3> QED BY <1>3, <3>2 DEF Superstep, allvars
  <2>3. history' = <<>> => Shown' = Shown
    BY <2>1, <2>2 DEF Shown
  <2> QED BY <2>1, <2>2, <2>3 DEF LinkInv
<1>4. CASE Proceeds
  <2>1. /\ Log' = Append(Log, snapshot(state', node')) /\ history' = history
        /\ status # "crashed" /\ node' \in NodeNames \cup {"END"} /\ state' \in AgentStates
        /\ state'.query = state.query /\ state'.max_attempts = state.max_attempts
    <3>1. Wrote(node) /\ node \in NodeNames /\ node' \in Successors(node)
      BY <1>4, ProceedsEffect
    <3>2. node' \in NodeNames \cup {"END"}
      BY <3>1, Edges DEF NodeNames, ReplyNodes
    <3> QED BY <1>4, <3>1, <3>2, ProceedsEffect DEF Wrote
  <2>2. Follows(state, node, state', node')
    BY <1>4, ProceedsOnTheWay, StepFollows DEF JourneyInv
  <2>3. /\ snapshot(state', node') \in Checkpoint /\ snapshot(state', node').values = state'
        /\ NodeToRun(snapshot(state', node')) = node'
    BY <2>1, SnapshotType DEF snapshot, NodeToRun, NodeNames
  <2>4. /\ Len(Log') = Len(Log) + 1 /\ Log'[Len(Log) + 1] = snapshot(state', node')
        /\ \A i \in 1..Len(Log) : Log'[i] = Log[i]
    BY <1>2, <2>1, <2>3
  <2>5. history = <<>> => Shown' = Shown
    BY <2>1 DEF Shown
  <2>6. ASSUME NEW i \in 1..Len(Log)
        PROVE  Follows(Log'[i].values, NodeToRun(Log'[i]),
                       Log'[i + 1].values, NodeToRun(Log'[i + 1]))
    <3>1. CASE i = Len(Log)
      BY <1>2, <2>1, <2>2, <2>3, <2>4, <3>1 DEF LinkInv
    <3>2. CASE i # Len(Log)
      <4>1. Len(Log) \in Nat
        BY <1>2
      <4>2. i \in 1..(Len(Log) - 1) /\ i + 1 \in 1..Len(Log)
        BY <3>2, <4>1
      <4> QED BY <2>4, <4>2 DEF LinkInv
    <3> QED BY <3>1, <3>2
  <2>7. Log'[1] = Log[1]
    BY <1>2, <2>1, <2>4
  <2> QED BY <1>2, <2>1, <2>3, <2>4, <2>5, <2>6, <2>7 DEF LinkInv
<1>5. CASE Crash
  <2>1. Log' = history /\ status' = "crashed"
    BY <1>5, CrashLogs DEF Crash, OutlivesProcess, ThreadOK, PersistenceTypeOK
  <2>2. \A i \in 1..(Len(history) - 1) :
          Follows(history[i].values, NodeToRun(history[i]),
                  history[i + 1].values, NodeToRun(history[i + 1]))
    BY <1>2 DEF LinkInv
  <2> QED BY <2>1, <2>2 DEF LinkInv
<1>6. CASE Recover
  <2>1. /\ Latest \in Checkpoint /\ TakeUp(Latest) /\ history # <<>> /\ unsaved = <<>>
        /\ Latest = history[Len(history)] /\ Len(history) >= 1
    BY <1>2, <1>6, TakenFrom DEF Recover, ThreadOK, ThreadShape
  <2>2. /\ Log = history /\ history' = history
        /\ state' = Latest.values /\ node' = NodeToRun(Latest)
    BY <2>1, TakeUpLogs DEF TakeUp
  <2>3. CASE Latest.next = "__start__"
    <3> DEFINE c == snapshot(Latest.values, "intake")
    <3>1. Log' = Append(Log, c)
      BY <2>1, <2>3, TakeUpLogs
    <3>2. c \in Checkpoint /\ c.values = state' /\ NodeToRun(c) = node'
      <4>1. c \in Checkpoint
        BY <2>1, CheckpointFields, SnapshotType DEF NodeNames
      <4> QED BY <2>2, <2>3, <4>1 DEF snapshot, NodeToRun
    <3> HIDE DEF c
    <3>3. /\ Len(Log') = Len(Log) + 1 /\ Log'[Len(Log) + 1] = c
          /\ \A i \in 1..Len(Log) : Log'[i] = Log[i]
      BY <1>2, <3>1, <3>2
    <3>4. ASSUME NEW i \in 1..Len(Log)
          PROVE  Follows(Log'[i].values, NodeToRun(Log'[i]),
                         Log'[i + 1].values, NodeToRun(Log'[i + 1]))
      <4>1. CASE i = Len(Log)
        BY <2>1, <2>2, <3>2, <3>3, <4>1, FollowsItself
      <4>2. CASE i # Len(Log)
        <5>1. Len(Log) \in Nat
          BY <1>2
        <5>2. i \in 1..(Len(Log) - 1) /\ i + 1 \in 1..Len(Log)
          BY <4>2, <5>1
        <5> QED BY <3>3, <5>2 DEF LinkInv
      <4> QED BY <4>1, <4>2
    <3> QED BY <1>2, <2>1, <2>2, <3>2, <3>3, <3>4 DEF LinkInv
  <2>4. CASE Latest.next # "__start__"
    <3>1. Log' = Log
      BY <2>1, <2>4, TakeUpLogs
    <3> QED BY <2>1, <2>2, <3>1 DEF LinkInv
  <2> QED BY <2>3, <2>4
<1> QED BY <1>1, <1>3, <1>4, <1>5, <1>6 DEF PersistenceNext, Proceeds

\* What the store shows is a new ticket at first.
LEMMA ShownInit == PersistenceInit => Durable!Ticket!Init
<1> SUFFICES ASSUME PersistenceInit PROVE Durable!Ticket!Init
  OBVIOUS
<1>1. PICK query \in Queries, budget \in Budgets : state = initial_state(query, budget)
  BY DEF PersistenceInit, Init
<1>2. Shown = snapshot(state, "__start__")
  <2>1. state.query = query /\ state.max_attempts = budget
    BY <1>1 DEF initial_state
  <2> QED BY <1>1, <2>1 DEF PersistenceInit, Shown
<1>3. Shown.values = state /\ ShownNode = "intake"
  BY <1>2 DEF snapshot, ShownNode
<1>4. /\ state.route = "" /\ state.max_attempts = budget /\ state.approval = None
      /\ state.tool_results = <<>>
  BY <1>1 DEF initial_state
<1>5. Durable!StageOf(ShownNode) = "triage" /\ Durable!ReplyOf(ShownNode, state) = "none"
  BY <1>3 DEF Durable!StageOf, Durable!ReplyOf
<1>6. Durable!CallBudget = Durable!AtLeastOne(budget)
  BY <1>3, <1>4 DEF Durable!CallBudget
<1>7. Durable!Calls = 0 /\ Durable!Executed = {}
  <2>0. state.tool_results = <<>>
    BY <1>4
  <2>1. Len(state.tool_results) = 0
    BY <2>0
  <2>2. DOMAIN state.tool_results = {}
    BY <2>0
  <2> QED BY <1>3, <2>1, <2>2 DEF Durable!Calls, Durable!Executed
<1>8. Durable!Cardinality(Durable!Executed) = 0
  BY <1>7, FS_EmptySet DEF Durable!Cardinality, Cardinality
<1>9. (Shown.values.approval = "approved") = FALSE
  BY <1>3, <1>4 DEF None
<1> QED BY <1>3, <1>5, <1>6, <1>7, <1>8, <1>9 DEF Durable!Ticket!Init, ShownNode

\* Whatever happens, the shown ticket moves as TicketHandling allows or not at all.
LEMMA ShownNext ==
  ASSUME MaxInvocations = 1, MaxReplays = 0, "memory" \notin Kinds
  PROVE  ThreadOK /\ JourneyInv /\ LinkInv /\ [PersistenceNext]_allvars
           => [Durable!Ticket!Next]_(Durable!Ticket!vars)
<1> SUFFICES ASSUME ThreadOK, JourneyInv, LinkInv, [PersistenceNext]_allvars
             PROVE  Follows(Shown.values, ShownNode, Shown'.values, ShownNode')
  BY FollowingIsLegal
<1>1. ~InvokeAgain /\ ~Replay
  BY OneInput, NoReplay
<1>2. CASE Save
  <2>1. /\ history \in Seq(Checkpoint) /\ unsaved \in Seq(Checkpoint) /\ unsaved # <<>>
        /\ status # "crashed"
    BY <1>2 DEF Save, ThreadOK, PersistenceTypeOK, ThreadShape
  <2>2. /\ Head(unsaved) \in Checkpoint /\ Len(history) \in Nat /\ Len(unsaved) \in Nat
        /\ Len(unsaved) >= 1 /\ Head(unsaved) = unsaved[1]
        /\ history' = Append(history, Head(unsaved)) /\ history' # <<>>
    BY <1>2, <2>1 DEF Save
  <2>3. Head(unsaved) = Log[Len(history) + 1] /\ Len(Log) >= Len(history) + 1
    BY <2>1, <2>2, LogShape DEF ThreadOK
  <2>4. Shown' = Log[Len(history) + 1]
    <3>1. Last(history') = Head(unsaved)
      BY <2>1, <2>2 DEF Last
    <3> QED BY <2>2, <2>3, <3>1 DEF Shown, Latest
  <2>5. CASE history = <<>>
    <3>1. Shown = Log[1] /\ Len(history) = 0
      BY <2>1, <2>5 DEF LinkInv
    <3>2. Shown' = Shown
      BY <2>4, <3>1
    <3> QED BY <3>2, FollowsItself DEF ShownNode
  <2>6. CASE history # <<>>
    <3>1. /\ Len(history) \in 1..(Len(Log) - 1)
          /\ Shown = Log[Len(history)]
      <4>1. Len(history) >= 1 /\ Latest = history[Len(history)]
        BY <2>1, <2>6 DEF Latest, Last
      <4>2. Log[Len(history)] = history[Len(history)] /\ Len(Log) \in Nat
        BY <2>2, <4>1, LogShape DEF ThreadOK
      <4> QED BY <2>2, <2>3, <2>6, <4>1, <4>2 DEF Shown
    <3>2. Follows(Log[Len(history)].values, NodeToRun(Log[Len(history)]),
                  Log[Len(history) + 1].values, NodeToRun(Log[Len(history) + 1]))
      BY <3>1 DEF LinkInv
    <3> QED BY <2>4, <3>1, <3>2 DEF ShownNode, NodeToRun
  <2> QED BY <2>5, <2>6
<1>3. CASE ~Save
  <2>1. Shown' = Shown
    <3>1. CASE (Superstep /\ superstep' = superstep) \/ UNCHANGED allvars
      <4>1. state' = state /\ history' = history
        BY <3>1, Waits DEF Superstep, allvars
      <4> QED BY <4>1 DEF Shown, Latest
    <3>2. CASE Proceeds
      <4>1. /\ history' = history /\ state'.query = state.query
            /\ state'.max_attempts = state.max_attempts
        BY <3>2, ProceedsEffect DEF Wrote
      <4> QED BY <4>1 DEF Shown, Latest
    <3>3. CASE Crash
      <4>1. history' = history /\ state' = state
        BY <3>3 DEF Crash, OutlivesProcess, ThreadOK, PersistenceTypeOK
      <4> QED BY <4>1 DEF Shown, Latest
    <3>4. CASE Recover
      BY <3>4 DEF Recover, TakeUp, Shown, Latest
    <3> QED BY <1>1, <1>3, <3>1, <3>2, <3>3, <3>4 DEF PersistenceNext, Proceeds
  <2> QED BY <2>1, FollowsItself DEF ShownNode
<1> QED BY <1>2, <1>3

\* However often the process dies and another takes the thread up, a reader of the
\* store sees a ticket that moves as TicketHandling allows.  One input: a second
\* one starts another ticket.  No replay: it shows an earlier ticket again.  No
\* MemorySaver: its checkpoints die with the process.
THEOREM StoreImplementsTicketHandling ==
  ASSUME MaxInvocations = 1, MaxReplays = 0, "memory" \notin Kinds
  PROVE  PersistenceSpec => StoreShowsLegalTicket
<1>1. PersistenceSpec => [](ThreadOK /\ JourneyInv /\ LinkInv)
  BY JourneyInit, JourneyNext, LinkInit, LinkNext, ThreadInvariant, PTL DEF PersistenceSpec
<1> QED BY <1>1, ShownInit, ShownNext, PTL
        DEF PersistenceSpec, StoreShowsLegalTicket, Durable!Ticket!Spec

\* What is promised of one journey holds of one that crashes and replays interrupt:
\* no call without the approval it needs, and no more calls than the budget allows.
THEOREM CrashesKeepThePromises ==
  ASSUME MaxInvocations = 1
  PROVE  PersistenceSpec => [](RiskyGate /\ EffectsMatchRoute /\ CallsWithinBudget)
<1>1. PersistenceSpec => []JourneyInv
  BY JourneyInit, JourneyNext, ThreadInvariant, PTL DEF PersistenceSpec
<1>2. JourneyInv => RiskyGate /\ EffectsMatchRoute /\ CallsWithinBudget
  <2> SUFFICES ASSUME JourneyInv PROVE RiskyGate /\ EffectsMatchRoute /\ CallsWithinBudget
    OBVIOUS
  <2>1. OnTheWay(state, node)
    BY DEF JourneyInv
  <2>2. RiskyGate
    BY <2>1 DEF OnTheWay, RiskyGate, Visits
  <2>3. EffectsMatchRoute
    BY <2>1 DEF OnTheWay, EffectsMatchRoute
  <2>4. CallsWithinBudget
    BY <2>1 DEF OnTheWay, CallsWithinBudget, Calls, CallBudget
  <2> QED BY <2>2, <2>3, <2>4
<1> QED BY <1>1, <1>2, PTL

-------------------------------------------------------------------------------
(* A decline, and a crash before it is stored *)

\* A checkpoint with a granted approval.
Granted(c) == c.values.approval = "approved"

\* Approvals are never taken back, and a decline finds none, in the process or in
\* the checkpoints.
DeclinedInv ==
  /\ interrupt_enabled = TRUE
  /\ \A i, j \in DOMAIN Log : i <= j /\ Granted(Log[i]) => Granted(Log[j])
  /\ status # "crashed" =>
       \A i \in DOMAIN Log : Granted(Log[i]) => state.approval = "approved"
  /\ declined =>
       state.approval # "approved" /\ \A i \in DOMAIN Log : ~Granted(Log[i])

\* Declines stand across crashes.
LEMMA DeclinedNext ==
  ASSUME MaxInvocations = 1, MaxReplays = 0,
         InterruptModes = {TRUE}, Replies \subseteq StructuredReplies
  PROVE  ThreadOK /\ JourneyInv /\ DeclinedInv /\ [PersistenceNext]_allvars => DeclinedInv'
<1> SUFFICES ASSUME ThreadOK, JourneyInv, DeclinedInv, [PersistenceNext]_allvars
             PROVE  DeclinedInv'
  OBVIOUS
<1>1. ~InvokeAgain /\ ~Replay
  BY OneInput, NoReplay
<1>2. /\ interrupt_enabled = TRUE
      /\ \A i, j \in DOMAIN Log : i <= j /\ Granted(Log[i]) => Granted(Log[j])
      /\ status # "crashed" =>
           \A i \in DOMAIN Log : Granted(Log[i]) => state.approval = "approved"
      /\ declined =>
           state.approval # "approved" /\ \A i \in DOMAIN Log : ~Granted(Log[i])
  BY DEF DeclinedInv
\* The mode, the approvals on record before the step, and the decline after it.
<1>3. /\ interrupt_enabled' = TRUE
      /\ status' # "crashed" =>
           \A i \in DOMAIN Log : Granted(Log[i]) => state'.approval = "approved"
      /\ declined' =>
           state'.approval # "approved" /\ \A i \in DOMAIN Log : ~Granted(Log[i])
  <2>1. CASE Superstep
    <3>1. TypeOK /\ Engine /\ status # "crashed"
      BY <2>1, SuperstepTypes DEF ThreadOK, Superstep, TypeOK
    <3>2. interrupt_enabled' = interrupt_enabled /\ declined' = declined
      BY <3>1, EngineKeepsMode, EngineWrites
    <3>3. state'.approval = state.approval
      BY <1>2, <3>1, EngineKeepsMode, EngineWrites DEF Wrote
    <3> QED BY <1>2, <3>1, <3>2, <3>3
  <2>2. CASE ResumeThread
    <3>1. TypeOK /\ Resume /\ GateInv /\ status = "interrupted" /\ node = "approval"
      <4>1. TypeOK /\ Resume /\ (status = "interrupted" => node = "approval")
        BY <2>2, WorkflowTyped DEF ThreadOK, ThreadShape, ResumeThread, Returned
      <4>2. GateInv
        BY <4>1, OnTheWayBefore DEF JourneyInv
      <4> QED BY <4>1, <4>2 DEF Resume
    <3>2. state.approval = None
      BY <3>1 DEF GateInv, Untouched
    <3>3. \A i \in DOMAIN Log : ~Granted(Log[i])
      BY <1>2, <3>1, <3>2 DEF None
    <3>4. interrupt_enabled' = TRUE
      BY <3>1, ResumeStep
    <3>5. PICK reply \in Replies : /\ declined' = Declines(reply)
                                   /\ state'.approval = human_decision(reply)
      BY <3>1, <3>4, ResumeStep
    <3>6. Declines(reply) => human_decision(reply) = "rejected"
      BY DEF Declines, human_decision, Approves, StructuredReplies
    <3> QED BY <3>3, <3>4, <3>5, <3>6
  <2>3. CASE Save \/ UNCHANGED allvars
    <3>1. UNCHANGED <<state, status, interrupt_enabled, declined>>
      BY <2>3 DEF Save, vars, allvars
    <3> QED BY <1>2, <3>1
  <2>4. CASE Crash
    BY <1>2, <2>4 DEF Crash
  <2>5. CASE Recover
    <3>1. /\ Latest = history[Len(history)] /\ Len(history) \in Nat \ {0}
          /\ TakeUp(Latest) /\ unsaved = <<>>
      BY <2>5, TakenFrom DEF Recover, ThreadOK, ThreadShape
    <3>2. /\ Log \in Seq(Checkpoint) /\ DOMAIN Log = 1..Len(Log)
          /\ Len(Log) = Len(history) /\ Log[Len(history)] = Latest
      <4>1. Len(unsaved) = 0
        BY <3>1
      <4> QED BY <3>1, <4>1, LogShape DEF ThreadOK
    <3>3. state' = Latest.values /\ declined' = declined /\ interrupt_enabled' = TRUE
      BY <3>1 DEF TakeUp
    <3>4. \A i \in DOMAIN Log : i <= Len(history) /\ Len(history) \in DOMAIN Log
      BY <3>1, <3>2
    <3>5. Granted(Latest) <=> state'.approval = "approved"
      BY <3>3 DEF Granted
    <3>6. \A i \in DOMAIN Log : Granted(Log[i]) => state'.approval = "approved"
      BY <1>2, <3>2, <3>4, <3>5
    <3>7. declined =>
            state'.approval # "approved" /\ \A i \in DOMAIN Log : ~Granted(Log[i])
      BY <1>2, <3>1, <3>2, <3>5
    <3> QED BY <3>3, <3>6, <3>7
  <2> QED BY <1>1, <2>1, <2>2, <2>3, <2>4, <2>5 DEF PersistenceNext
<1>4. /\ DOMAIN Log \subseteq Nat /\ DOMAIN Log' \subseteq Nat
      /\ \A i \in DOMAIN Log, j \in Nat : j >= 1 /\ j <= i => j \in DOMAIN Log
      /\ \A i \in DOMAIN Log' : i >= 1
  <2>1. ThreadOK'
    BY ThreadNext
  <2>2. Log \in Seq(Checkpoint) /\ Log' \in Seq(Checkpoint)
    <3>1. history' \in Seq(Checkpoint) /\ unsaved' \in Seq(Checkpoint)
      BY <2>1 DEF ThreadOK, PersistenceTypeOK
    <3> QED BY <3>1, LogShape, ConcatProperties DEF Log, ThreadOK
  <2> QED BY <2>2
<1>5. ASSUME NEW i \in DOMAIN Log'
      PROVE  \/ i \in DOMAIN Log /\ Log'[i] = Log[i]
             \/ i \notin DOMAIN Log /\ status' # "crashed" /\ Log'[i].values = state'
  BY <1>5, LogKept, NewCheckpoints
<1>6. ASSUME NEW i \in DOMAIN Log', NEW j \in DOMAIN Log', i <= j, Granted(Log'[i])
      PROVE  Granted(Log'[j])
  <2>1. CASE j \in DOMAIN Log
    <3>1. i \in DOMAIN Log
      BY <1>4, <1>6, <2>1
    <3> QED BY <1>2, <1>5, <1>6, <2>1, <3>1
  <2>2. CASE j \notin DOMAIN Log
    <3>1. status' # "crashed" /\ Log'[j].values = state'
      BY <1>5, <2>2
    <3>2. state'.approval = "approved"
      BY <1>3, <1>5, <1>6, <3>1 DEF Granted
    <3> QED BY <3>1, <3>2 DEF Granted
  <2> QED BY <2>1, <2>2
<1>7. ASSUME status' # "crashed", NEW i \in DOMAIN Log', Granted(Log'[i])
      PROVE  state'.approval = "approved"
  BY <1>3, <1>5, <1>7 DEF Granted
<1>8. ASSUME declined', NEW i \in DOMAIN Log' PROVE ~Granted(Log'[i])
  BY <1>3, <1>5, <1>8 DEF Granted
<1> QED BY <1>3, <1>6, <1>7, <1>8 DEF DeclinedInv

\* A declined action is not carried out, not even when the process dies before the
\* decision is stored and a human is asked again, under the conditions of
\* DeclineIsRespected and for one input without replays.
THEOREM DeclineSurvivesCrashes ==
  ASSUME MaxInvocations = 1, MaxReplays = 0,
         InterruptModes = {TRUE}, Replies \subseteq StructuredReplies
  PROVE  PersistenceSpec => []DeclinedNeverExecutes
<1>1. PersistenceInit => DeclinedInv
  <2> SUFFICES ASSUME PersistenceInit PROVE DeclinedInv
    OBVIOUS
  <2>1. interrupt_enabled = TRUE /\ declined = FALSE
    BY DEF PersistenceInit, Init
  <2>2. \A i \in DOMAIN Log : ~Granted(Log[i])
    <3>0. PICK query \in Queries, budget \in Budgets : state = initial_state(query, budget)
      BY DEF PersistenceInit, Init
    <3>1. /\ state \in AgentStates /\ state.approval = None
          /\ history = <<>> /\ unsaved = InputCheckpoints(state)
      BY <3>0, ThreadTypesInit DEF PersistenceTypeOK, PersistenceInit, initial_state
    <3>2. unsaved \in Seq(Checkpoint) /\ Len(unsaved) = 2
      BY <3>1, SnapshotType
    <3>3. Log = unsaved /\ DOMAIN Log = 1..2
      BY <3>1, <3>2, ConcatEmptySeq DEF Log
    <3>4. Log[1] = snapshot(state, "__start__") /\ Log[2] = snapshot(state, "intake")
      BY <3>1, <3>3, SnapshotType
    <3> QED BY <3>1, <3>3, <3>4 DEF snapshot, Granted, None
  <2> QED BY <2>1, <2>2 DEF DeclinedInv
<1>2. PersistenceSpec => [](ThreadOK /\ JourneyInv)
  BY JourneyInit, JourneyNext, ThreadInvariant, PTL DEF PersistenceSpec
<1>3. JourneyInv /\ DeclinedInv => DeclinedNeverExecutes
  <2> SUFFICES ASSUME OnTheWay(state, node), DeclinedInv PROVE DeclinedNeverExecutes
    BY DEF JourneyInv
  <2>1. EffectsMatchRoute
    BY DEF OnTheWay, EffectsMatchRoute
  <2> QED BY <2>1 DEF DeclinedInv, EffectsMatchRoute, DeclinedNeverExecutes, ToSet
<1> QED BY <1>1, <1>2, <1>3, DeclinedNext, PTL DEF PersistenceSpec

===============================================================================
