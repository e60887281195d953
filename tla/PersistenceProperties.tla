------------------------ MODULE PersistenceProperties ------------------------
(***************************************************************************)
(* What a thread promises across crashes, second inputs and replays.       *)
(***************************************************************************)
EXTENDS Persistence, WorkflowProperties

\* Type correctness; the process is never further ahead than it may be.
PersistenceTypeOK ==
  /\ state \in AgentStates
  /\ node \in NodeNames \cup {"END"}
  /\ status \in {"running", "interrupted", "done", "raised", "crashed"}
  /\ superstep \in 0..RecursionLimit
  /\ interrupt_enabled \in BOOLEAN
  /\ declined \in BOOLEAN
  /\ outages \in Nat
  /\ kind \in Kinds
  /\ history \in Seq(Checkpoint)
  /\ unsaved \in Seq(Checkpoint)
  /\ Len(unsaved) <= AtLeastOne(WriteBehind) + 1
  /\ effects \in Nat
  /\ crashes \in 0..MaxCrashes
  /\ invocations \in 1..(MaxInvocations + 1)
  /\ fork \in [at : Nat, length : Nat]
  /\ replays \in 0..MaxReplays

-------------------------------------------------------------------------------
(* Crash and recovery *)

\* Checkpoints written right after a tool call that carried out the action.
EffectsIn(log) ==
  {i \in DOMAIN log :
     log[i].next = "evaluate" /\ Last(log[i].values.tool_results) = "executed"}

\* An action carried out but in no checkpoint, and therefore perhaps carried out
\* again, is the fault of a crash, and a crash forgets no more of them than fit
\* into the super-steps the process may be ahead: one, unless it may be three or
\* more (nodes.py:243 runs before the checkpoint of its super-step is written).
OnlyCrashesForgetEffects ==
  OutlivesProcess =>
    effects - Cardinality(EffectsIn(Log)) \in 0..(crashes * (WriteBehind \div 3 + 1))

\* The thread as a reader of the store finds it (graph.get_state); before the
\* first checkpoint it is the ticket that is about to be written.
Shown == IF history = <<>>
         THEN snapshot(initial_state(state.query, state.max_attempts), "__start__")
         ELSE Latest

Durable == INSTANCE WorkflowRefinement WITH
  state <- Shown.values,
  node  <- IF Shown.next = "__start__" THEN "intake" ELSE Shown.next

\* Whenever the process dies and another takes the thread up, the tickets the
\* store shows make a journey TicketHandling allows: decision before calls, calls
\* within the budget, one reply (persistence.py:3-6, "crash-resume").
StoreShowsLegalTicket == Durable!Ticket!Spec

\* An invocation that survives comes back, and then the store holds what it
\* returned: the next process finds the same ticket at the same node.
InvocationComesToRest ==
  status = "running" ~>
    \/ status = "crashed"
    \/ Returned /\ Latest = snapshot(state, node)

-------------------------------------------------------------------------------
(* One thread, several inputs *)

\* Visits of node n since the latest input.
ThisRun(n) ==
  IF node = "intake" THEN {}
  ELSE {i \in Visits(n) : \A j \in Visits("intake") : j <= i}

\* Nothing that describes the current situation is left over from an earlier
\* input on the same thread: every such field was written in this run, also
\* after a crash, and attempt counts the retries of this run ("last-write-wins",
\* state.py:14-17, with the lists still holding the earlier runs).
SituationIsOfThisRun ==
  status # "crashed" =>
    /\ state.route # ""             => ThisRun("classify") # {}
    /\ state.evaluation_result # "" => ThisRun("evaluate") # {}
    /\ state.pending_question # None => ThisRun("clarify") # {}
    /\ state.proposed_action # None => ThisRun("risky_action") # {}
    /\ state.approval # None        => ThisRun("approval") # {}
    /\ state.final_answer # None    =>
         ThisRun("answer") \cup ThisRun("clarify") \cup ThisRun("dead_letter") # {}
    /\ state.attempt = Cardinality(ThisRun("retry"))

\* An action is carried out only after an approval given in this run, whatever
\* was approved on the thread before (tool_node reads approval, not the route).
ApprovalIsOfThisRun ==
  CarriesOutAction /\ status # "crashed" =>
    \E i \in ThisRun("approval") : state.events[i].event_type = "approved"

-------------------------------------------------------------------------------
(* Crash, then replay *)

\* However the inputs of a thread are interrupted by a crash and replayed from
\* the middle, the action is carried out at most once per attempt of each input
\* and of each replay, and once more for each call a crash forgot: a replay takes
\* attempt and max_attempts from its checkpoint, not from the end of the run.
EffectsWithinBudgets ==
  \E budget \in Budgets :
    effects <= (invocations + replays) * AtLeastOne(budget)
               + crashes * (WriteBehind \div 3 + 1)

\* Step k after the fork leads to one node in the replay and to another in the
\* run that is replayed.
PartsAt(k) == Log[fork.length + k].next # Log[fork.at + k].next

\* Up to the end of the replayed run, which a later input of the thread follows
\* if a crash had cut it short.
StepsToCompare ==
  IF fork = NoFork THEN {}
  ELSE {k \in 1..(Len(Log) - fork.length) :
          /\ fork.at + k <= fork.length
          /\ \A j \in 1..k : Log[fork.at + j].next # "__start__"}

\* A replay may leave the path of the run it replays, but it parts from it only
\* where a model is asked again, and never because of the state it starts from:
\* the routers read nothing else ("replay deterministic", report.py:189-190).
ReplayPartsOnlyAtAModel ==
  \A k \in StepsToCompare :
    PartsAt(k) /\ (\A j \in 1..(k - 1) : ~PartsAt(j)) =>
      Log[fork.at + k - 1].next \in {"classify", "evaluate"}

===============================================================================
