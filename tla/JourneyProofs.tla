---------------------------- MODULE JourneyProofs ----------------------------
(***************************************************************************)
(* The two things a journey must not get wrong, for every choice of the    *)
(* constants.  The retry loop is bounded by max_attempts: how often the    *)
(* tool is called, when a ticket is escalated, how many super-steps a      *)
(* journey can take.  The approval gate: what waits for the reviewer, what *)
(* the tool does with the decision, and when a decline is honoured.        *)
(***************************************************************************)
EXTENDS WorkflowProofs

-------------------------------------------------------------------------------
(* The retry loop *)

Budget == AtLeastOne(state.max_attempts)

BeforeTheLoop == {"intake", "classify", "risky_action", "approval"}

\* Calls made when the tool is about to run: the error route counts an attempt
\* before its first call, every other route after it.
CallsBefore == IF state.route = "error" THEN state.attempt - 1 ELSE state.attempt

\* The inductive invariant: the number of calls is a function of the route, the
\* attempt counter and the place in the loop.
LoopInv ==
  /\ state.attempt <= Budget
  /\ status = "interrupted" => node = "approval"
  /\ node \in BeforeTheLoop => state.attempt = 0 /\ Calls = 0
  /\ node \in {"risky_action", "approval"} => state.route = "risky"
  /\ node \in {"tool", "evaluate", "retry", "answer"} => state.attempt < Budget
  /\ node = "tool" => Calls = CallsBefore
  /\ node \in {"evaluate", "retry"} => Calls = CallsBefore + 1
  /\ node = "dead_letter" =>
       state.attempt >= state.max_attempts /\ Calls = CallBudget
  /\ Calls <= CallBudget

\* The ranges of the numbers the loop compares.
LEMMA LoopTypes ==
  ASSUME TypeOK
  PROVE  /\ state.attempt \in Nat /\ state.max_attempts \in Int
         /\ Calls \in Nat /\ Budget \in Nat
         /\ Budget >= 1 /\ Budget >= state.max_attempts
         /\ Budget = 1 \/ Budget = state.max_attempts
<1>1. /\ state.attempt \in Nat /\ state.max_attempts \in Int
      /\ state.tool_results \in Seq(ToolResults)
  BY FieldTypes DEF TypeOK
<1>2. Calls \in Nat
  BY <1>1 DEF Calls
<1> QED BY <1>1, <1>2 DEF Budget, AtLeastOne

\* The loop invariant holds initially.
LEMMA LoopInit == Init => LoopInv
<1> SUFFICES ASSUME Init PROVE LoopInv
  OBVIOUS
<1>1. PICK query \in Queries, budget \in Budgets : state = initial_state(query, budget)
  BY DEF Init
<1>2. state.attempt = 0
  BY <1>1 DEF initial_state
<1>3. state.tool_results = <<>>
  BY <1>1 DEF initial_state
<1>4. Calls = 0
  BY <1>3 DEF Calls
<1>5. node = "intake" /\ status = "running"
  BY DEF Init
<1>6. Budget >= 1 /\ Budget \in Nat
  BY InitType, LoopTypes
<1>7. CallBudget >= 0
  BY <1>6 DEF Budget, CallBudget
<1> QED BY <1>2, <1>4, <1>5, <1>6, <1>7 DEF LoopInv, BeforeTheLoop

\* Every step preserves the loop invariant.
LEMMA LoopNext == TypeOK /\ TypeOK' /\ LoopInv /\ [Next]_vars => LoopInv'
<1> SUFFICES ASSUME TypeOK, TypeOK', LoopInv, [Next]_vars PROVE LoopInv'
  OBVIOUS
<1>0. /\ state.attempt \in Nat /\ state.max_attempts \in Int
      /\ Calls \in Nat /\ Budget \in Nat
      /\ Budget >= 1 /\ Budget >= state.max_attempts
      /\ Budget = 1 \/ Budget = state.max_attempts
  BY LoopTypes
<1> USE <1>0
<1>1. CASE Intake
  BY <1>1, IntakeStep
     DEF Ran, SameTriage, SameLoop, LoopInv, Budget, AtLeastOne, CallBudget, Calls,
         BeforeTheLoop
<1>2. CASE Classify
  <2>1. /\ status' = "running" /\ node = "classify"
        /\ node' = route_after_classify(state')
        /\ state'.attempt = 0 /\ Calls' = 0
        /\ state'.max_attempts = state.max_attempts /\ Budget' = Budget
    BY <1>2, ClassifyStep, RouterTypes
       DEF Ran, SameLoop, LoopInv, Calls, Budget, BeforeTheLoop
  <2>2. CallBudget' >= 0
    BY <2>1 DEF CallBudget, Budget
  <2>3. node' = "retry" => state'.route = "error"
    BY <2>1 DEF route_after_classify, RouteToNode
  <2>4. node' = "tool" => state'.route # "error"
    BY <2>1 DEF route_after_classify, RouteToNode
  <2>5. node' \notin {"evaluate", "dead_letter", "approval"}
    BY <2>1, RouterTypes
  <2>6. node' = "risky_action" => state'.route = "risky"
    BY <2>1 DEF route_after_classify, RouteToNode
  <2> QED BY <2>1, <2>2, <2>3, <2>4, <2>5, <2>6 DEF LoopInv, CallsBefore
<1>3. CASE Tool
  <2>1. /\ state'.route = state.route /\ state'.attempt = state.attempt
        /\ state'.max_attempts = state.max_attempts
        /\ state'.tool_results = Append(state.tool_results, tool_result(state))
        /\ node = "tool" /\ node' = "evaluate" /\ status' = "running"
    BY <1>3, ToolStep DEF Ran, SameTriage
  <2>2. Calls' = Calls + 1
    <3>1. state.tool_results \in Seq(ToolResults) /\ tool_result(state) \in ToolResults
      BY <1>3, ToolStep, FieldTypes DEF TypeOK
    <3> QED BY <2>1, <3>1 DEF Calls
  <2> QED BY <2>1, <2>2
          DEF LoopInv, Budget, AtLeastOne, CallBudget, CallsBefore, BeforeTheLoop
<1>4. CASE Evaluate
  <2>1. /\ state'.route = state.route /\ state'.attempt = state.attempt
        /\ state'.max_attempts = state.max_attempts
        /\ Calls' = Calls
        /\ node = "evaluate" /\ node' \in {"retry", "answer"} /\ status' = "running"
    BY <1>4, EvaluateStep, RouterTypes DEF Ran, SameTriage, Calls
  <2> QED BY <2>1
          DEF LoopInv, Budget, AtLeastOne, CallBudget, CallsBefore, BeforeTheLoop
<1>5. CASE Answer \/ Clarify \/ DeadLetter \/ Finalize
  <2>1. /\ state'.route = state.route /\ state'.attempt = state.attempt
        /\ state'.max_attempts = state.max_attempts
        /\ Calls' = Calls
        /\ node' \in {"finalize", "END"} /\ status' \in {"running", "done"}
    BY <1>5, AnswerStep, ClarifyStep, DeadLetterStep, FinalizeStep
       DEF Ran, SameTriage, SameLoop, Calls
  <2> QED BY <2>1
          DEF LoopInv, Budget, AtLeastOne, CallBudget, CallsBefore, BeforeTheLoop
<1>6. CASE RiskyAction
  BY <1>6, RiskyActionStep
     DEF Ran, SameTriage, SameLoop, LoopInv, Budget, AtLeastOne, CallBudget, Calls,
         BeforeTheLoop
<1>7. CASE MockApproval \/ Resume
  <2>1. /\ state'.route = state.route /\ state'.attempt = state.attempt
        /\ state'.max_attempts = state.max_attempts
        /\ Calls' = Calls
        /\ node = "approval" /\ node' \in {"tool", "clarify"} /\ status' = "running"
    BY <1>7, MockApprovalStep, ResumeStep, RouterTypes
       DEF Ran, Decided, SameTriage, SameLoop, Calls, LoopInv
  <2> QED BY <2>1
          DEF LoopInv, Budget, AtLeastOne, CallBudget, CallsBefore, BeforeTheLoop
<1>8. CASE Retry
  <2>1. /\ state'.route = state.route /\ state'.attempt = state.attempt + 1
        /\ state'.max_attempts = state.max_attempts
        /\ Calls' = Calls
        /\ node = "retry" /\ node' = route_after_retry(state') /\ status' = "running"
    BY <1>8, RetryStep, RouterTypes DEF Ran, SameTriage, Calls
  <2>2. CASE state'.attempt < state'.max_attempts
    BY <2>1, <2>2
       DEF route_after_retry, LoopInv, Budget, AtLeastOne, CallBudget, CallsBefore,
           BeforeTheLoop
  <2>3. CASE ~(state'.attempt < state'.max_attempts)
    BY <2>1, <2>3
       DEF route_after_retry, LoopInv, Budget, AtLeastOne, CallBudget, CallsBefore,
           BeforeTheLoop
  <2> QED BY <2>2, <2>3
<1>9. CASE Interrupt \/ RaiseRecursionError \/ UNCHANGED vars
  <2>1. UNCHANGED <<state, node>> /\ (status' = "interrupted" => node = "approval")
    BY <1>9, IdleStep
       DEF Interrupt, AtNode, RaiseRecursionError, vars, LoopInv
  <2> QED BY <2>1 DEF LoopInv, Budget, CallBudget, Calls, CallsBefore
<1> QED
  BY <1>1, <1>2, <1>3, <1>4, <1>5, <1>6, <1>7, <1>8, <1>9 DEF Next, Engine

\* The invariant and the types it needs hold together.
LEMMA LoopInvariant == Spec => [](TypeOK /\ LoopInv)
<1>1. Init => TypeOK /\ LoopInv
  BY InitType, LoopInit
<1>2. TypeOK /\ LoopInv /\ [Next]_vars => TypeOK' /\ LoopInv'
  BY NextType, LoopNext
<1> QED BY <1>1, <1>2, PTL DEF Spec

\* The tool is never called more often than the budget allows, for every value
\* of max_attempts and every judge (route_after_retry, retry_or_fallback_node).
THEOREM BudgetRespected == Spec => []CallsWithinBudget
<1>1. LoopInv => CallsWithinBudget
  BY DEF LoopInv, CallsWithinBudget
<1> QED BY <1>1, LoopInvariant, PTL

-------------------------------------------------------------------------------
(* Escalation *)

\* The dead letter is followed by finalize only, and leaves the count alone.
EscalationInv ==
  Visited("dead_letter") =>
    /\ node \in {"finalize", "END"} /\ status # "interrupted"
    /\ state.attempt >= state.max_attempts
    /\ Calls = CallBudget

\* No ticket starts escalated.
LEMMA EscalationInit == Init => EscalationInv
<1> SUFFICES ASSUME Init PROVE ~Visited("dead_letter")
  BY DEF EscalationInv
<1>1. PICK query \in Queries, budget \in Budgets : state = initial_state(query, budget)
  BY DEF Init
<1>2. state.events = <<>>
  BY <1>1 DEF initial_state
<1> QED BY <1>2 DEF Visited, Visits

\* Every step preserves EscalationInv.
LEMMA EscalationNext ==
  TypeOK /\ LoopInv /\ EscalationInv /\ [Next]_vars => EscalationInv'
<1> SUFFICES ASSUME TypeOK, LoopInv, EscalationInv, [Next]_vars, Visited("dead_letter")'
             PROVE  /\ node' \in {"finalize", "END"} /\ status' # "interrupted"
                    /\ state'.attempt >= state'.max_attempts
                    /\ Calls' = CallBudget'
  BY DEF EscalationInv
<1>1. CASE DeadLetter
  <2>1. /\ state'.route = state.route /\ state'.attempt = state.attempt
        /\ state'.max_attempts = state.max_attempts
        /\ Calls' = Calls
        /\ node = "dead_letter" /\ node' = "finalize" /\ status' = "running"
    BY <1>1, DeadLetterStep DEF Ran, SameTriage, SameLoop, Calls
  <2> QED BY <2>1 DEF LoopInv, CallBudget
<1>2. CASE Finalize
  <2>1. /\ state'.route = state.route /\ state'.attempt = state.attempt
        /\ state'.max_attempts = state.max_attempts
        /\ Calls' = Calls
        /\ node' = "END" /\ status' = "done"
        /\ \E type \in EventTypes :
             state'.events = Append(state.events, make_event("finalize", type))
    BY <1>2, FinalizeStep DEF Ran, SameTriage, SameLoop, Calls
  <2>2. Visited("dead_letter")
    BY <2>1, VisitsGrow DEF Visited, NodeNames
  <2> QED BY <2>1, <2>2 DEF EscalationInv, CallBudget
<1>3. CASE \/ Intake \/ Classify \/ Tool \/ Evaluate \/ Answer \/ Clarify
           \/ RiskyAction \/ MockApproval \/ Retry \/ Resume
  <2>1. \E n \in NodeNames \ {"dead_letter", "finalize"}, type \in EventTypes :
          /\ node = n
          /\ state'.events = Append(state.events, make_event(n, type))
    BY <1>3, IntakeStep, ClassifyStep, ToolStep, EvaluateStep, AnswerStep, ClarifyStep,
       RiskyActionStep, MockApprovalStep, RetryStep, ResumeStep
       DEF Ran, Decided, LoopInv, NodeNames, EventTypes
  <2>2. Visited("dead_letter")
    BY <2>1, VisitsGrow DEF Visited, NodeNames
  <2> QED BY <2>1, <2>2 DEF EscalationInv, NodeNames
<1>4. CASE Interrupt
  <2>1. node = "approval" /\ UNCHANGED state
    BY <1>4 DEF Interrupt, AtNode
  <2>2. Visited("dead_letter")
    BY <2>1 DEF Visited, Visits
  <2> QED BY <2>1, <2>2 DEF EscalationInv
<1>5. CASE RaiseRecursionError \/ UNCHANGED vars
  <2>1. UNCHANGED <<state, node>> /\ (status' = "interrupted" => status = "interrupted")
    BY <1>5, IdleStep DEF RaiseRecursionError, vars
  <2>2. Visited("dead_letter")
    BY <2>1 DEF Visited, Visits
  <2> QED BY <2>1, <2>2 DEF EscalationInv, Calls, CallBudget
<1> QED BY <1>1, <1>2, <1>3, <1>4, <1>5 DEF Next, Engine

\* A ticket is escalated only when its budget is spent to the last call, for
\* every budget (route_after_retry, dead_letter_node).
THEOREM EscalationSpendsTheBudget == Spec => []EscalationIsLastResort
<1>1. Init => EscalationInv
  BY EscalationInit
<1>2. TypeOK /\ LoopInv /\ EscalationInv /\ [Next]_vars => EscalationInv'
  BY EscalationNext
<1>3. EscalationInv => EscalationIsLastResort
  BY DEF EscalationInv, EscalationIsLastResort
<1> QED BY <1>1, <1>2, <1>3, LoopInvariant, PTL DEF Spec

-------------------------------------------------------------------------------
(* The length of a journey *)

\* How many super-steps may have run when a node is scheduled.
StepBound ==
  CASE node = "intake"       -> 0
    [] node = "classify"     -> 1
    [] node = "risky_action" -> 2
    [] node = "approval"     -> 3
    [] node = "clarify"      -> 4
    [] node = "tool"         -> 3 * state.attempt + 4
    [] node = "evaluate"     -> 3 * state.attempt + 5
    [] node = "retry"        -> 3 * state.attempt + 6
    [] node = "answer"       -> 3 * state.attempt + 6
    [] node = "dead_letter"  -> 3 * state.attempt + 4
    [] node = "finalize"     -> 3 * Budget + 5
    [] node = "END"          -> 3 * Budget + 6

StepInv ==
  /\ superstep <= StepBound
  /\ status = "running" => node # "END"
  /\ RaiseNeedsLargeBudget

\* No super-step has run initially.
LEMMA StepInit == Init => StepInv
BY DEF Init, StepInv, StepBound, RaiseNeedsLargeBudget

\* Every step respects the bound of the node it schedules.
LEMMA StepNext ==
  TypeOK /\ TypeOK' /\ LoopInv /\ LoopInv' /\ StepInv /\ [Next]_vars => StepInv'
<1> SUFFICES ASSUME TypeOK, TypeOK', LoopInv, LoopInv', StepInv, [Next]_vars
             PROVE  StepInv'
  OBVIOUS
<1>0. /\ state.attempt \in Nat /\ superstep \in Nat
      /\ Budget \in Nat /\ Budget >= 1 /\ state.attempt <= Budget
  BY LoopTypes, RecursionAssumption DEF TypeOK, LoopInv
<1> USE <1>0
<1>1. CASE Intake
  BY <1>1, IntakeStep DEF Ran, StepInv, StepBound, RaiseNeedsLargeBudget
<1>2. CASE Classify
  BY <1>2, ClassifyStep, RouterTypes
     DEF Ran, SameLoop, StepInv, StepBound, RaiseNeedsLargeBudget
<1>3. CASE Tool
  BY <1>3, ToolStep DEF Ran, StepInv, StepBound, RaiseNeedsLargeBudget
<1>4. CASE Evaluate
  BY <1>4, EvaluateStep, RouterTypes DEF Ran, StepInv, StepBound, RaiseNeedsLargeBudget
<1>5. CASE Answer
  BY <1>5, AnswerStep
     DEF Ran, SameLoop, StepInv, StepBound, RaiseNeedsLargeBudget, LoopInv, Budget
<1>6. CASE Clarify
  BY <1>6, ClarifyStep
     DEF Ran, SameLoop, StepInv, StepBound, RaiseNeedsLargeBudget, Budget
<1>7. CASE RiskyAction
  BY <1>7, RiskyActionStep DEF Ran, StepInv, StepBound, RaiseNeedsLargeBudget
<1>8. CASE MockApproval
  BY <1>8, MockApprovalStep, RouterTypes
     DEF Ran, Decided, SameLoop, StepInv, StepBound, RaiseNeedsLargeBudget
<1>9. CASE Resume
  BY <1>9, ResumeStep, RouterTypes
     DEF Decided, SameLoop, StepInv, StepBound, RaiseNeedsLargeBudget
<1>10. CASE Retry
  BY <1>10, RetryStep, RouterTypes DEF Ran, StepInv, StepBound, RaiseNeedsLargeBudget
<1>11. CASE DeadLetter
  BY <1>11, DeadLetterStep
     DEF Ran, SameLoop, StepInv, StepBound, RaiseNeedsLargeBudget, Budget
<1>12. CASE Finalize
  BY <1>12, FinalizeStep
     DEF Ran, SameLoop, StepInv, StepBound, RaiseNeedsLargeBudget, Budget
<1>13. CASE Interrupt
  BY <1>13 DEF Interrupt, StepInv, StepBound, RaiseNeedsLargeBudget, Budget
<1>14. CASE RaiseRecursionError
  <2>1. node \in NodeNames
    BY <1>14 DEF RaiseRecursionError, StepInv, TypeOK
  <2>2. node \in {"tool", "evaluate", "retry", "answer"} => state.attempt < Budget
    BY DEF LoopInv
  <2>3. StepBound \in Nat /\ StepBound <= 3 * Budget + 5
    BY <2>1, <2>2 DEF StepBound, NodeNames
  <2>4. /\ superstep = RecursionLimit /\ superstep <= StepBound
        /\ UNCHANGED state
    BY <1>14 DEF RaiseRecursionError, StepInv
  <2>5. RecursionLimit < 3 * Budget + 6
    BY <2>3, <2>4, RecursionAssumption
  <2>6. RaiseNeedsLargeBudget'
    BY <2>4, <2>5 DEF RaiseNeedsLargeBudget, Budget
  <2> QED BY <1>14, <2>6 DEF RaiseRecursionError, StepInv, StepBound, Budget
<1>15. CASE UNCHANGED vars
  BY <1>15 DEF vars, StepInv, StepBound, RaiseNeedsLargeBudget, Budget
<1> QED
  BY <1>1, <1>2, <1>3, <1>4, <1>5, <1>6, <1>7, <1>8, <1>9, <1>10, <1>11, <1>12,
     <1>13, <1>14, <1>15 DEF Next, Engine

\* The engine gives up only on a ticket whose budget is too large for its
\* super-step limit: 3 * max_attempts + 6 super-steps always suffice.
THEOREM JourneyLengthBound == Spec => []RaiseNeedsLargeBudget
<1>1. Init => StepInv
  BY StepInit
<1>2. TypeOK /\ TypeOK' /\ LoopInv /\ LoopInv' /\ StepInv /\ [Next]_vars => StepInv'
  BY StepNext
<1>3. StepInv => RaiseNeedsLargeBudget
  BY DEF StepInv
<1> QED BY <1>1, <1>2, <1>3, LoopInvariant, PTL DEF Spec

-------------------------------------------------------------------------------
(* The approval gate *)

\* Nothing was decided and nothing was called yet.
Untouched ==
  /\ state.approval = None
  /\ DOMAIN state.tool_results = {}
  /\ ~Visited("tool")

\* The event of a granted approval is in the audit trail.
ApprovalOnRecord ==
  \E j \in Visits("approval") : state.events[j].event_type = "approved"

\* The inductive invariant: where in the graph a ticket can be, given its route
\* and the decision on record.
GateInv ==
  /\ status = "interrupted" => node = "approval"
  /\ node \in {"intake", "classify", "risky_action", "approval"} => Untouched
  /\ node \in {"risky_action", "approval"} =>
       state.route = "risky" /\ state.risk_level = "high"
  /\ node = "approval" => state.proposed_action = "proposed"
  /\ node \in {"tool", "evaluate", "retry"} =>
       /\ state.route \in {"tool", "error", "risky"}
       /\ state.route = "risky" => state.approval = "approved"
  /\ state.approval # None => state.route = "risky"
  /\ state.approval = "approved" => ApprovalOnRecord
  /\ EffectsMatchRoute
  /\ RiskyGate

\* The gate invariant holds initially.
LEMMA GateInit == Init => GateInv
<1> SUFFICES ASSUME Init PROVE GateInv
  OBVIOUS
<1>1. PICK query \in Queries, budget \in Budgets : state = initial_state(query, budget)
  BY DEF Init
<1>2. state.approval = None /\ node = "intake" /\ status = "running"
  BY <1>1 DEF Init, initial_state
<1>3. DOMAIN state.tool_results = {} /\ DOMAIN state.events = {}
  <2>1. state.tool_results = <<>> /\ state.events = <<>>
    BY <1>1 DEF initial_state
  <2> QED BY <2>1
<1>4. ~Visited("tool") /\ Visits("tool") = {}
  BY <1>3 DEF Visited, Visits
<1>5. Untouched /\ EffectsMatchRoute /\ RiskyGate
  BY <1>2, <1>3, <1>4 DEF Untouched, EffectsMatchRoute, RiskyGate
<1> QED BY <1>2, <1>5 DEF GateInv, None

-------------------------------------------------------------------------------

\* A super-step elsewhere than at the tool keeps what the audit trail says
\* about the tool and about approvals.
LEMMA TrailKept ==
  ASSUME TypeOK, NEW n \in NodeNames \ {"tool"}, NEW type \in EventTypes,
         state'.events = Append(state.events, make_event(n, type))
  PROVE  /\ Visits("tool")' = Visits("tool")
         /\ Visits("approval") \subseteq Visits("approval")'
         /\ \A i \in DOMAIN state.events : state'.events[i] = state.events[i]
BY VisitsGrow DEF NodeNames

\* EffectsMatchRoute and RiskyGate survive a super-step elsewhere than at the
\* tool that changes neither the route nor the decision.
LEMMA GateKept ==
  ASSUME TypeOK, GateInv, NEW n \in NodeNames \ {"tool"}, NEW type \in EventTypes,
         state'.events = Append(state.events, make_event(n, type)),
         state'.route = state.route, state'.approval = state.approval,
         state'.tool_results = state.tool_results
  PROVE  /\ EffectsMatchRoute' /\ RiskyGate'
         /\ state'.approval = "approved" => ApprovalOnRecord'
         /\ Untouched => Untouched'
<1>1. /\ Visits("tool")' = Visits("tool")
      /\ Visits("approval") \subseteq Visits("approval")'
      /\ \A i \in DOMAIN state.events : state'.events[i] = state.events[i]
  BY TrailKept
<1>2. \A j \in Visits("approval") : j \in Visits("approval")'
                                     /\ state'.events[j] = state.events[j]
  BY <1>1 DEF Visits
<1>3. EffectsMatchRoute'
  BY DEF GateInv, EffectsMatchRoute
<1>4. RiskyGate'
  BY <1>1, <1>2 DEF GateInv, RiskyGate
<1>5. state'.approval = "approved" => ApprovalOnRecord'
  BY <1>2 DEF GateInv, ApprovalOnRecord
<1>6. Untouched => Untouched'
  BY <1>1 DEF Untouched, Visited
<1> QED BY <1>3, <1>4, <1>5, <1>6

\* While nothing was called, both properties hold whatever the route becomes.
LEMMA GateIdle ==
  ASSUME Untouched'
  PROVE  EffectsMatchRoute' /\ RiskyGate'
BY DEF Untouched, Visited, EffectsMatchRoute, RiskyGate

\* Every step preserves the gate invariant.
LEMMA GateNext == TypeOK /\ GateInv /\ [Next]_vars => GateInv'
<1> SUFFICES ASSUME TypeOK, GateInv, [Next]_vars PROVE GateInv'
  OBVIOUS
<1>1. CASE Intake
  <2>1. /\ node = "intake" /\ node' = "classify" /\ status' = "running"
        /\ SameTriage /\ SameDecision /\ SameLoop
        /\ \E type \in EventTypes :
             state'.events = Append(state.events, make_event("intake", type))
    BY <1>1, IntakeStep DEF Ran
  <2>2. /\ EffectsMatchRoute' /\ RiskyGate' /\ Untouched'
        /\ state'.approval = "approved" => ApprovalOnRecord'
    BY <2>1, GateKept DEF SameTriage, SameDecision, SameLoop, NodeNames, GateInv
  <2> QED BY <2>1, <2>2 DEF GateInv, SameTriage, SameDecision
<1>2. CASE Classify
  <2>1. /\ node = "classify" /\ node' = route_after_classify(state')
        /\ status' = "running" /\ state'.route \in CLASSIFIABLE_ROUTES
        /\ state'.route = "risky" => state'.risk_level = "high"
        /\ state'.approval = state.approval
        /\ state'.tool_results = state.tool_results
        /\ \E type \in EventTypes :
             state'.events = Append(state.events, make_event("classify", type))
    BY <1>2, ClassifyStep, RouterTypes DEF Ran, SameDecision, SameLoop
  <2>2. Untouched'
    BY <2>1, TrailKept DEF GateInv, Untouched, Visited, NodeNames
  <2>3. \/ node' \in {"answer", "clarify"}
        \/ node' = "tool" /\ state'.route = "tool"
        \/ node' = "risky_action" /\ state'.route = "risky"
        \/ node' = "retry" /\ state'.route = "error"
    BY <2>1 DEF route_after_classify, RouteToNode, CLASSIFIABLE_ROUTES
  <2>4. EffectsMatchRoute' /\ RiskyGate'
    BY <2>2, GateIdle
  <2> QED BY <2>1, <2>2, <2>3, <2>4 DEF GateInv, Untouched, None
<1>3. CASE Tool
  <2>1. /\ node = "tool" /\ node' = "evaluate" /\ status' = "running"
        /\ state'.route = state.route /\ state'.approval = state.approval
        /\ state'.tool_results = Append(state.tool_results, tool_result(state))
        /\ \E type \in EventTypes :
             state'.events = Append(state.events, make_event("tool", type))
    BY <1>3, ToolStep DEF Ran, SameTriage, SameDecision
  <2>2. state.tool_results \in Seq(ToolResults) /\ tool_result(state) \in ToolResults
    BY <1>3, ToolStep, FieldTypes DEF TypeOK
  <2>3. /\ DOMAIN state'.tool_results =
             DOMAIN state.tool_results \cup {Len(state.tool_results) + 1}
        /\ \A i \in DOMAIN state.tool_results :
             state'.tool_results[i] = state.tool_results[i]
        /\ state'.tool_results[Len(state.tool_results) + 1] = tool_result(state)
    BY <2>1, <2>2
  <2>4. /\ tool_result(state) = "executed" =>
             state.route = "risky" /\ state.approval = "approved"
        /\ tool_result(state) = "error" => state.route = "error"
        /\ tool_result(state) = "lookup" => state.route \in {"tool", "error"}
        /\ tool_result(state) \in {"executed", "error", "lookup"}
    BY <2>1 DEF tool_result, GateInv, None
  <2>5. EffectsMatchRoute'
    BY <2>1, <2>3, <2>4 DEF GateInv, EffectsMatchRoute
  <2>6. /\ Visits("tool")' = Visits("tool") \cup {Len(state.events) + 1}
        /\ Visits("approval")' = Visits("approval")
        /\ \A i \in DOMAIN state.events : state'.events[i] = state.events[i]
    BY <2>1, VisitsGrow DEF NodeNames
  <2>7. \A j \in Visits("approval") :
          j \in Nat /\ j < Len(state.events) + 1 /\ state'.events[j] = state.events[j]
    <3>1. state.events \in Seq(LabEvent)
      BY FieldTypes DEF TypeOK
    <3>2. DOMAIN state.events = 1..Len(state.events) /\ Len(state.events) \in Nat
      BY <3>1
    <3> QED BY <2>6, <3>2 DEF Visits
  <2>8. state.approval = "approved" => ApprovalOnRecord'
    BY <2>6, <2>7 DEF GateInv, ApprovalOnRecord
  <2>9. state.route = "risky" => state.approval = "approved"
    BY <2>1 DEF GateInv
  <2>10. RiskyGate'
    BY <2>1, <2>6, <2>7, <2>9 DEF GateInv, RiskyGate, ApprovalOnRecord
  <2> QED BY <2>1, <2>5, <2>8, <2>9, <2>10 DEF GateInv
<1>4. CASE Evaluate \/ Retry
  <2>1. /\ node \in {"evaluate", "retry"} /\ status' = "running"
        /\ node' \in {"retry", "answer", "tool", "dead_letter"}
        /\ state'.route = state.route /\ state'.approval = state.approval
        /\ state'.tool_results = state.tool_results
        /\ \E n \in NodeNames \ {"tool"}, type \in EventTypes :
             state'.events = Append(state.events, make_event(n, type))
    BY <1>4, EvaluateStep, RetryStep, RouterTypes
       DEF Ran, SameTriage, SameDecision, NodeNames
  <2>2. /\ EffectsMatchRoute' /\ RiskyGate'
        /\ state'.approval = "approved" => ApprovalOnRecord'
    BY <2>1, GateKept
  <2> QED BY <2>1, <2>2 DEF GateInv
<1>5. CASE Answer \/ Clarify \/ DeadLetter \/ Finalize
  <2>1. /\ node' \in {"finalize", "END"} /\ status' \in {"running", "done"}
        /\ state'.route = state.route /\ state'.approval = state.approval
        /\ state'.tool_results = state.tool_results
        /\ \E n \in NodeNames \ {"tool"}, type \in EventTypes :
             state'.events = Append(state.events, make_event(n, type))
    BY <1>5, AnswerStep, ClarifyStep, DeadLetterStep, FinalizeStep
       DEF Ran, SameTriage, SameDecision, SameLoop, NodeNames
  <2>2. /\ EffectsMatchRoute' /\ RiskyGate'
        /\ state'.approval = "approved" => ApprovalOnRecord'
    BY <2>1, GateKept
  <2> QED BY <2>1, <2>2 DEF GateInv
<1>6. CASE RiskyAction
  <2>1. /\ node = "risky_action" /\ node' = "approval" /\ status' = "running"
        /\ state'.route = state.route /\ state'.risk_level = state.risk_level
        /\ state'.approval = state.approval
        /\ state'.proposed_action = "proposed"
        /\ state'.tool_results = state.tool_results
        /\ \E type \in EventTypes :
             state'.events = Append(state.events, make_event("risky_action", type))
    BY <1>6, RiskyActionStep DEF Ran, SameTriage, SameLoop
  <2>2. /\ EffectsMatchRoute' /\ RiskyGate' /\ Untouched'
        /\ state'.approval = "approved" => ApprovalOnRecord'
    BY <2>1, GateKept DEF NodeNames, GateInv
  <2> QED BY <2>1, <2>2 DEF GateInv
<1>7. CASE MockApproval \/ Resume
  <2>1. /\ node = "approval" /\ node' = route_after_approval(state')
        /\ status' = "running"
        /\ state'.approval \in {"approved", "rejected"}
        /\ state'.route = state.route /\ state'.tool_results = state.tool_results
        /\ state'.events = Append(state.events, make_event("approval", state'.approval))
    BY <1>7, MockApprovalStep, ResumeStep, RouterTypes
       DEF Ran, Decided, SameTriage, SameLoop, GateInv
  <2>2. state.route = "risky" /\ Untouched
    BY <2>1 DEF GateInv
  <2>3. /\ Visits("tool")' = Visits("tool")
        /\ Visits("approval")' = Visits("approval") \cup {Len(state.events) + 1}
    BY <2>1, VisitsGrow DEF NodeNames, EventTypes
  <2>4. state'.events[Len(state.events) + 1].event_type = state'.approval
    <3>1. state.events \in Seq(LabEvent)
      BY FieldTypes DEF TypeOK
    <3> QED BY <2>1, <3>1 DEF make_event
  <2>5. state'.approval = "approved" => ApprovalOnRecord'
    BY <2>3, <2>4 DEF ApprovalOnRecord
  <2>6. EffectsMatchRoute' /\ RiskyGate'
    BY <2>1, <2>2, <2>3 DEF Untouched, Visited, EffectsMatchRoute, RiskyGate
  <2>7. \/ node' = "tool" /\ state'.approval = "approved"
        \/ node' = "clarify"
    BY <2>1 DEF route_after_approval
  <2>8. status' = "running" /\ state'.route = "risky"
    BY <2>1, <2>2
  <2> QED BY <2>5, <2>6, <2>7, <2>8 DEF GateInv
<1>8. CASE Interrupt \/ RaiseRecursionError \/ UNCHANGED vars
  <2>1. UNCHANGED <<state, node>> /\ (status' = "interrupted" => node = "approval")
    BY <1>8, IdleStep DEF Interrupt, AtNode, RaiseRecursionError, vars, GateInv
  <2>2. Untouched' <=> Untouched
    BY <2>1 DEF Untouched, Visited, Visits
  <2>3. ApprovalOnRecord' <=> ApprovalOnRecord
    BY <2>1 DEF ApprovalOnRecord, Visits
  <2>4. EffectsMatchRoute' <=> EffectsMatchRoute
    BY <2>1 DEF EffectsMatchRoute
  <2>5. RiskyGate' <=> RiskyGate
    BY <2>1 DEF RiskyGate, Visits
  <2> QED BY <2>1, <2>2, <2>3, <2>4, <2>5 DEF GateInv
<1> QED
  BY <1>1, <1>2, <1>3, <1>4, <1>5, <1>6, <1>7, <1>8 DEF Next, Engine

\* The gate invariant and the types it needs hold together.
LEMMA GateInvariant == Spec => [](TypeOK /\ GateInv)
<1>1. Init => TypeOK /\ GateInv
  BY InitType, GateInit
<1>2. TypeOK /\ GateInv /\ [Next]_vars => TypeOK' /\ GateInv'
  BY NextType, GateNext
<1> QED BY <1>1, <1>2, PTL DEF Spec

\* A risky ticket reaches the tool only behind a granted approval, at every
\* retry (graph.py: risky_action -> approval -> route_after_approval).
THEOREM ApprovalGatesTheTool == Spec => []RiskyGate
<1>1. GateInv => RiskyGate
  BY DEF GateInv
<1> QED BY <1>1, GateInvariant, PTL

\* The tool executes exactly the approved actions of risky tickets (tool_node).
THEOREM ToolHonoursTheRoute == Spec => []EffectsMatchRoute
<1>1. GateInv => EffectsMatchRoute
  BY DEF GateInv
<1> QED BY <1>1, GateInvariant, PTL

\* The reviewer is asked about a recorded proposal of high risk, whatever the
\* classifier said about the risk (classify_node, risky_action_node).
THEOREM ReviewerIsWarned == Spec => []ReviewerSeesHighRisk
<1>1. GateInv => ReviewerSeesHighRisk
  BY DEF GateInv, ReviewerSeesHighRisk
<1> QED BY <1>1, GateInvariant, PTL

-------------------------------------------------------------------------------
(* Decisions *)

\* A step writes the approval only at the approval node, where there is none.
LEMMA DecisionNext ==
  ASSUME TypeOK, GateInv, [Next]_vars, state.approval # None
  PROVE  state'.approval = state.approval /\ declined' = declined
<1>1. CASE \/ Intake \/ Classify \/ Tool \/ Evaluate \/ Answer \/ Clarify
           \/ Retry \/ DeadLetter \/ Finalize
  BY <1>1, IntakeStep, ClassifyStep, ToolStep, EvaluateStep, AnswerStep, ClarifyStep,
     RetryStep, DeadLetterStep, FinalizeStep DEF Ran, SameDecision
<1>2. CASE RiskyAction
  BY <1>2, RiskyActionStep DEF Ran
<1>3. CASE MockApproval \/ Resume
  BY <1>3, MockApprovalStep, ResumeStep DEF Ran, GateInv, Untouched
<1>4. CASE Interrupt \/ RaiseRecursionError \/ UNCHANGED vars
  BY <1>4, IdleStep
<1> QED BY <1>1, <1>2, <1>3, <1>4 DEF Next, Engine

\* Once made, a decision is never revised (approval is written by one node).
THEOREM DecisionStands == Spec => DecisionIsFinal
<1>1. TypeOK /\ GateInv /\ [Next]_vars
        => [state.approval # None => state'.approval = state.approval]_vars
  BY DecisionNext
<1> QED BY <1>1, GateInvariant, PTL DEF Spec, DecisionIsFinal

\* A decline is on record as the rejection it is.
DeclineInv ==
  /\ interrupt_enabled = TRUE
  /\ declined => state.approval = "rejected"

\* Where every process asks a human, and the human answers in the form the
\* request asks for, a declined action is never executed (approval_node).  Both
\* conditions are needed: the runs text_decline and unset_mode drop one each.
THEOREM DeclineIsRespected ==
  ASSUME InterruptModes = {TRUE}, Replies \subseteq StructuredReplies
  PROVE  Spec => []DeclinedNeverExecutes
<1>1. Init => DeclineInv
  BY DEF Init, DeclineInv
<1>2. TypeOK /\ GateInv /\ DeclineInv /\ [Next]_vars => DeclineInv'
  <2> SUFFICES ASSUME TypeOK, GateInv, DeclineInv, [Next]_vars PROVE DeclineInv'
    OBVIOUS
  <2>1. CASE \/ Intake \/ Classify \/ Tool \/ Evaluate \/ Answer \/ Clarify
             \/ Retry \/ DeadLetter \/ Finalize
    <3>1. /\ interrupt_enabled' = interrupt_enabled /\ declined' = declined
          /\ state'.approval = state.approval
      BY <2>1, IntakeStep, ClassifyStep, ToolStep, EvaluateStep, AnswerStep,
         ClarifyStep, RetryStep, DeadLetterStep, FinalizeStep DEF Ran, SameDecision
    <3> QED BY <3>1, Zenon DEF DeclineInv
  <2>2. CASE RiskyAction
    BY <2>2, RiskyActionStep DEF Ran, DeclineInv
  <2>3. CASE MockApproval
    BY <2>3, MockApprovalStep DEF DeclineInv
  <2>4. CASE Resume
    <3>1. interrupt_enabled' = TRUE
      BY <2>4, ResumeStep
    <3>2. PICK reply \in Replies : /\ declined' = Declines(reply)
                                   /\ state'.approval = human_decision(reply)
      BY <2>4, <3>1, ResumeStep
    <3>3. Declines(reply) => human_decision(reply) = "rejected"
      BY DEF Declines, human_decision, Approves, StructuredReplies
    <3> QED BY <3>1, <3>2, <3>3 DEF DeclineInv
  <2>5. CASE Interrupt \/ RaiseRecursionError \/ UNCHANGED vars
    <3>1. /\ interrupt_enabled' = interrupt_enabled /\ declined' = declined
          /\ state' = state
      BY <2>5, IdleStep
    <3> QED BY <3>1, Zenon DEF DeclineInv
  <2> QED BY <2>1, <2>2, <2>3, <2>4, <2>5 DEF Next, Engine
<1>3. GateInv /\ DeclineInv => DeclinedNeverExecutes
  BY DEF GateInv, DeclineInv, EffectsMatchRoute, DeclinedNeverExecutes, ToSet
<1> QED BY <1>1, <1>2, <1>3, GateInvariant, PTL DEF Spec

===============================================================================
