------------------------------ MODULE AgentState ------------------------------
(***************************************************************************)
(* The typed state that flows through the support-ticket graph (state.py). *)
(*                                                                         *)
(* A field keeps what some node, router or metric reads of it:             *)
(*   - query is the set of facts the code looks for in the ticket text;    *)
(*   - approval is the approved flag of the serialized ApprovalDecision;   *)
(*   - tool_results and events hold per list entry the kind of result, the *)
(*     node and event type;                                                *)
(*   - an entry of errors is its writer, and whether its text is one that  *)
(*     the report takes for a dead letter;                                 *)
(*   - latest_named says the same of what a retry quotes of the last tool  *)
(*     result; it is a fact about tool_results and not a field of its own. *)
(* thread_id, scenario_id, classify_reason and messages are left out: no   *)
(* node, router or metric branches on them.                                *)
(***************************************************************************)
EXTENDS Integers, SequencesExt

None == "none"

\* The facts _heuristic_route looks for: a word of each of its three keyword
\* lists, and a ticket of at most four words.
KeywordFacts == {"risky", "lookup", "failure", "brief"}

\* How far in front the ticket mentions "dead_letter".  A retry quotes 60
\* characters of the ticket, or of the latest tool result; a lookup quotes the
\* ticket after 26 characters of its own, an executed action after 34.
NameFacts == {"named_in_60", "named_in_34", "named_in_26"}

QueryFacts == KeywordFacts \cup NameFacts

CLASSIFIABLE_ROUTES == {"risky", "tool", "missing_info", "error", "simple"}

RiskLevels == {"low", "medium", "high"}

NodeNames ==
  {"intake", "classify", "tool", "evaluate", "answer", "clarify",
   "risky_action", "approval", "retry", "dead_letter", "finalize"}

EventTypes ==
  {"completed", "failed", "pending_approval", "approved", "rejected",
   "retrying", "escalated"}

LabEvent == [node : NodeNames, event_type : EventTypes]

make_event(node, event_type) == [node |-> node, event_type |-> event_type]

ToolResults == {"error", "executed", "lookup"}

ErrorSources ==
  {"classify", "evaluate", "answer", "clarify", "retry", "dead_letter"}

\* named: the text of the entry contains "dead_letter".
Errors == [source : ErrorSources, named : BOOLEAN]

make_error(source, named) == [source |-> source, named |-> named]

AgentStates ==
  [query             : SUBSET QueryFacts,
   route             : CLASSIFIABLE_ROUTES \cup {""},
   risk_level        : RiskLevels \cup {"unknown"},
   attempt           : Nat,
   max_attempts      : Int,
   evaluation_result : {"", "success", "needs_retry"},
   pending_question  : {None, "question"},
   proposed_action   : {None, "proposed"},
   approval          : {None, "approved", "rejected"},
   final_answer      : {None, "generated", "templated", "question", "escalated"},
   tool_results      : Seq(ToolResults),
   latest_named      : BOOLEAN,
   errors            : Seq(Errors),
   events            : Seq(LabEvent)]

\* The input of the first run of a thread: every list is empty.
initial_state(query, max_attempts) ==
  [query             |-> query,
   route             |-> "",
   risk_level        |-> "unknown",
   attempt           |-> 0,
   max_attempts      |-> max_attempts,
   evaluation_result |-> "",
   pending_question  |-> None,
   proposed_action   |-> None,
   approval          |-> None,
   final_answer      |-> None,
   tool_results      |-> <<>>,
   latest_named      |-> FALSE,
   errors            |-> <<>>,
   events            |-> <<>>]

===============================================================================
