------------------------------- MODULE Workflow -------------------------------
(***************************************************************************)
(* One ticket travelling through the compiled graph (graph.py).            *)
(*                                                                         *)
(* graph.invoke runs one node per super-step, applies its update and       *)
(* follows the edge, until it reaches END, approval_node calls interrupt() *)
(* (the call returns and the thread waits for Command(resume=...)), or the *)
(* engine refuses another super-step and raises GraphRecursionError, which *)
(* no caller catches.                                                      *)
(***************************************************************************)
EXTENDS Nodes, Routing

CONSTANTS
  Queries,          \* The tickets, each a set of QueryFacts.
  Budgets,          \* The values of max_attempts a scenario may carry.
  InterruptModes,   \* The settings of LANGGRAPH_INTERRUPT a process may run with.
  Replies,          \* What the human may answer.
  RecursionLimit    \* The engine's bound on the super-steps of one invocation.

ASSUME QueriesAssumption   == Queries \subseteq SUBSET QueryFacts
ASSUME BudgetsAssumption   == Budgets \subseteq Int
ASSUME ModesAssumption     == InterruptModes \subseteq BOOLEAN
ASSUME RepliesAssumption   == Replies \subseteq HumanReplies
ASSUME RecursionAssumption == RecursionLimit \in Nat \ {0}

VARIABLES
  state,              \* The AgentState of the thread.
  node,               \* The node of the next super-step, or "END".
  status,             \* What became of the invocation.
  superstep,          \* Super-steps run by the current invocation.
  interrupt_enabled,  \* os.getenv("LANGGRAPH_INTERRUPT") of the running process.
  declined,           \* History: a human answered the approval request with a no.
  outages             \* History: model calls that raised.

vars ==
  <<state, node, status, superstep, interrupt_enabled, declined, outages>>

Init ==
  /\ \E query \in Queries, budget \in Budgets :
       state = initial_state(query, budget)
  /\ node = "intake"
  /\ status = "running"
  /\ superstep = 0
  /\ interrupt_enabled \in InterruptModes
  /\ declined = FALSE
  /\ outages = 0

-------------------------------------------------------------------------------

\* The engine is about to run node n.
AtNode(n) ==
  /\ status = "running"
  /\ node = n
  /\ superstep < RecursionLimit

\* The engine applies the update of the node and follows the edge.
Advance(update, successor) ==
  /\ state' = update
  /\ node' = successor
  /\ superstep' = superstep + 1
  /\ status' = IF successor = "END" THEN "done" ELSE "running"
  /\ UNCHANGED <<interrupt_enabled, declined>>

Count(outage) == outages' = IF outage THEN outages + 1 ELSE outages

Intake ==
  /\ AtNode("intake")
  /\ Advance(intake_node(state), "classify")
  /\ UNCHANGED outages

Classify ==
  /\ AtNode("classify")
  /\ \E reply \in ClassifyReplies :
       LET update == classify_node(state, reply)
       IN /\ Advance(update, route_after_classify(update))
          /\ Count(reply \in Outages)

Tool ==
  /\ AtNode("tool")
  /\ Advance(tool_node(state), "evaluate")
  /\ UNCHANGED outages

Evaluate ==
  /\ AtNode("evaluate")
  /\ \E judgement \in Judgements :
       LET update == evaluate_node(state, judgement)
       IN /\ Advance(update, route_after_evaluate(update))
          /\ Count(judge_consulted(state) /\ judgement \in Exceptions)

Answer ==
  /\ AtNode("answer")
  /\ \E text \in Texts :
       /\ Advance(answer_node(state, text), "finalize")
       /\ Count(text \in Exceptions)

Clarify ==
  /\ AtNode("clarify")
  /\ \E text \in Texts :
       /\ Advance(ask_clarification_node(state, text), "finalize")
       /\ Count(text \in Exceptions)

RiskyAction ==
  /\ AtNode("risky_action")
  /\ Advance(risky_action_node(state), "approval")
  /\ UNCHANGED outages

\* The offline default: the mock reviewer signs off at once.
MockApproval ==
  /\ AtNode("approval")
  /\ ~interrupt_enabled
  /\ LET update == approval_node(state, mock_decision)
     IN Advance(update, route_after_approval(update))
  /\ UNCHANGED outages

\* interrupt() suspends the graph: the invocation returns without an update.
Interrupt ==
  /\ AtNode("approval")
  /\ interrupt_enabled
  /\ status' = "interrupted"
  /\ UNCHANGED <<state, node, superstep, interrupt_enabled, declined, outages>>

\* Command(resume=reply) starts a new invocation, perhaps in another process;
\* approval_node runs again from its first line and reads the environment anew.
Resume ==
  /\ status = "interrupted"
  /\ \E reply \in Replies :
       /\ interrupt_enabled' \in InterruptModes
       /\ LET decision == IF interrupt_enabled' THEN human_decision(reply)
                          ELSE mock_decision
              update   == approval_node(state, decision)
          IN /\ state' = update
             /\ node' = route_after_approval(update)
       /\ declined' = Declines(reply)
  /\ superstep' = 1
  /\ status' = "running"
  /\ UNCHANGED outages

Retry ==
  /\ AtNode("retry")
  /\ LET update == retry_or_fallback_node(state)
     IN Advance(update, route_after_retry(update))
  /\ UNCHANGED outages

DeadLetter ==
  /\ AtNode("dead_letter")
  /\ Advance(dead_letter_node(state), "finalize")
  /\ UNCHANGED outages

Finalize ==
  /\ AtNode("finalize")
  /\ Advance(finalize_node(state), "END")
  /\ UNCHANGED outages

\* No super-step is left and the graph has not reached END.
RaiseRecursionError ==
  /\ status = "running"
  /\ superstep = RecursionLimit
  /\ status' = "raised"
  /\ UNCHANGED <<state, node, superstep, interrupt_enabled, declined, outages>>

\* What graph.invoke does by itself, without a human.
Engine ==
  \/ Intake
  \/ Classify
  \/ Tool
  \/ Evaluate
  \/ Answer
  \/ Clarify
  \/ RiskyAction
  \/ MockApproval
  \/ Interrupt
  \/ Retry
  \/ DeadLetter
  \/ Finalize
  \/ RaiseRecursionError

Next == Engine \/ Resume

\* invoke is a loop over super-steps that nothing else has to schedule, so a
\* started invocation goes on; nobody promises that the human ever answers.
Fairness == WF_vars(Engine)

Spec == Init /\ [][Next]_vars

FairSpec == Spec /\ Fairness

===============================================================================
