-------------------------- MODULE WorkflowRefinement --------------------------
(***************************************************************************)
(* The graph implements TicketHandling: the scheduled node determines the  *)
(* stage, the state determines the rest.                                   *)
(***************************************************************************)
EXTENDS WorkflowProperties

StageOf(n) ==
  CASE n \in {"intake", "classify"}                           -> "triage"
    [] n \in {"risky_action", "approval"}                     -> "gate"
    [] n \in {"tool", "evaluate", "retry"}                    -> "acting"
    [] n \in {"answer", "clarify", "dead_letter", "finalize"} -> "replying"
    [] n = "END"                                              -> "closed"

\* The reply a scheduled node is about to write, or the one already written.
ReplyOf(n, s) ==
  CASE n = "answer"      -> "answer"
    [] n = "clarify"     -> "question"
    [] n = "dead_letter" -> "escalation"
    [] n \in {"finalize", "END"} ->
         IF s.final_answer \in {"generated", "templated"} THEN "answer"
         ELSE IF s.final_answer = "question" THEN "question"
         ELSE "escalation"
    [] OTHER -> "none"

Executed == {i \in DOMAIN state.tool_results : state.tool_results[i] = "executed"}

Ticket == INSTANCE TicketHandling WITH
  Limits     <- {AtLeastOne(budget) : budget \in Budgets},
  stage      <- StageOf(node),
  limit      <- CallBudget,
  authorised <- state.approval = "approved",
  calls      <- Calls,
  effects    <- Cardinality(Executed),
  reply      <- ReplyOf(node, state)

\* Every journey is one TicketHandling allows, and a ticket that does not wait
\* for its reviewer is closed (graph.py wiring with the nodes and routers).
ImplementsTicketHandling == Ticket!FairSpec

===============================================================================
