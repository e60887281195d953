----------------------------- MODULE ThreadProofs -----------------------------
(***************************************************************************)
(* What a thread keeps through crashes, second inputs and replays, for     *)
(* every checkpointer, every distance between process and store and any    *)
(* number of incidents: types, and that nothing of an earlier input is     *)
(* taken for the current one.                                              *)
(***************************************************************************)
EXTENDS PersistenceProperties, ReplyProofs, SequenceTheorems

-------------------------------------------------------------------------------
(* One super-step *)

\* What the step of node n writes: each field has one writer.
Wrote(n) ==
  /\ node = n /\ node' # "intake"
  /\ state' \in AgentStates
  /\ state'.query = state.query
  /\ state'.max_attempts = state.max_attempts
  /\ n # "classify"     => state'.route = state.route
  /\ n # "evaluate"     => state'.evaluation_result = state.evaluation_result
  /\ n # "clarify"      => state'.pending_question = state.pending_question
  /\ n # "risky_action" => state'.proposed_action = state.proposed_action
  /\ n # "approval"     => state'.approval = state.approval
  /\ n \notin ReplyNodes => state'.final_answer = state.final_answer
  /\ n # "tool"         => state'.tool_results = state.tool_results
  /\ n = "tool"         => state'.tool_results =
                             Append(state.tool_results, tool_result(state))
  /\ state'.attempt = IF n = "retry" THEN state.attempt + 1 ELSE state.attempt
  /\ \E type \in EventTypes :
       /\ state'.events = Append(state.events, make_event(n, type))
       /\ n = "approval" => type = state'.approval

\* The nodes that hand the ticket on without a reply.
LEMMA SilentWrites ==
  ASSUME TypeOK, \/ Intake \/ Tool \/ RiskyAction \/ MockApproval \/ Retry \/ Finalize
  PROVE  Wrote(node) /\ node \in NodeNames
<1>0. state \in AgentStates /\ SameReply(state, state')
  BY SilentSteps DEF TypeOK
<1>1. CASE Intake
  <2>1. state' = intake_node(state) /\ node = "intake" /\ node' = "classify"
    BY <1>1 DEF Intake, AtNode, Advance
  <2>2. state'.query = state.query
    BY <1>0, <2>1 DEF intake_node, AgentStates
  <2> QED BY <1>0, <2>1, <2>2, IntakeEffect
          DEF Wrote, SameReply, NodeNames, EventTypes, ReplyNodes
<1>2. CASE Tool
  <2>1. state' = tool_node(state) /\ node = "tool" /\ node' = "evaluate"
    BY <1>2 DEF Tool, AtNode, Advance
  <2>2. state'.query = state.query
    BY <1>0, <2>1 DEF tool_node, AgentStates
  <2> QED BY <1>0, <2>1, <2>2, ToolEffect DEF Wrote, SameReply, NodeNames, ReplyNodes
<1>3. CASE RiskyAction
  <2>1. state' = risky_action_node(state) /\ node = "risky_action" /\ node' = "approval"
    BY <1>3 DEF RiskyAction, AtNode, Advance
  <2>2. state'.query = state.query
    BY <1>0, <2>1 DEF risky_action_node, AgentStates
  <2> QED BY <1>0, <2>1, <2>2, RiskyActionEffect
          DEF Wrote, SameReply, NodeNames, EventTypes, ReplyNodes
<1>4. CASE MockApproval
  <2>1. /\ state' = approval_node(state, "approved") /\ node = "approval"
        /\ node' = route_after_approval(state')
    BY <1>4 DEF MockApproval, AtNode, Advance, mock_decision
  <2>2. state'.query = state.query
    BY <1>0, <2>1 DEF approval_node, AgentStates
  <2> QED BY <1>0, <2>1, <2>2, ApprovalEffect, RouterTypes
          DEF Wrote, SameReply, NodeNames, EventTypes, ReplyNodes
<1>5. CASE Retry
  <2>1. /\ state' = retry_or_fallback_node(state) /\ node = "retry"
        /\ node' = route_after_retry(state')
    BY <1>5 DEF Retry, AtNode, Advance
  <2>2. state'.query = state.query
    BY <1>0, <2>1 DEF retry_or_fallback_node, AgentStates
  <2> QED BY <1>0, <2>1, <2>2, RetryEffect, RouterTypes
          DEF Wrote, SameReply, NodeNames, EventTypes, ReplyNodes
<1>6. CASE Finalize
  <2>1. state' = finalize_node(state) /\ node = "finalize" /\ node' = "END"
    BY <1>6 DEF Finalize, AtNode, Advance
  <2>2. state'.query = state.query
    BY <1>0, <2>1 DEF finalize_node, AgentStates
  <2> QED BY <1>0, <2>1, <2>2, FinalizeEffect
          DEF Wrote, SameReply, NodeNames, EventTypes, ReplyNodes
<1> QED BY <1>1, <1>2, <1>3, <1>4, <1>5, <1>6

\* The nodes that ask a model, and the dead letter.
LEMMA ModelWrites ==
  ASSUME TypeOK, Classify \/ Evaluate \/ Answer \/ Clarify \/ DeadLetter
  PROVE  Wrote(node) /\ node \in NodeNames
<1>0. state \in AgentStates
  BY DEF TypeOK
<1>1. CASE Classify
  <2>1. PICK reply \in ClassifyReplies :
          /\ state' = classify_node(state, reply) /\ node = "classify"
          /\ node' = route_after_classify(state')
    BY <1>1 DEF Classify, AtNode, Advance
  <2>2. state'.query = state.query
    BY <1>0, <2>1 DEF classify_node, AgentStates
  <2>3. SameReply(state, state')
    BY <1>1, SilentSteps
  <2> QED BY <1>0, <2>1, <2>2, <2>3, ClassifyEffect, RouterTypes
          DEF Wrote, SameReply, NodeNames, EventTypes, ReplyNodes
<1>2. CASE Evaluate
  <2>1. PICK judgement \in Judgements :
          /\ state' = evaluate_node(state, judgement) /\ node = "evaluate"
          /\ node' = route_after_evaluate(state')
    BY <1>2 DEF Evaluate, AtNode, Advance
  <2>2. state'.query = state.query
    BY <1>0, <2>1 DEF evaluate_node, AgentStates
  <2>3. SameReply(state, state')
    BY <1>2, SilentSteps
  <2> QED BY <1>0, <2>1, <2>2, <2>3, EvaluateEffect, RouterTypes
          DEF Wrote, SameReply, NodeNames, ReplyNodes
<1>3. CASE Answer
  <2>1. PICK text \in Texts :
          state' = answer_node(state, text) /\ node = "answer" /\ node' = "finalize"
    BY <1>3 DEF Answer, AtNode, Advance
  <2>2. state'.query = state.query
    BY <1>0, <2>1 DEF answer_node, AgentStates
  <2> QED BY <1>0, <2>1, <2>2, AnswerEffect, ReplyingNodes
          DEF Wrote, NodeNames, EventTypes, ReplyNodes
<1>4. CASE Clarify
  <2>1. PICK text \in Texts :
          /\ state' = ask_clarification_node(state, text)
          /\ node = "clarify" /\ node' = "finalize"
    BY <1>4 DEF Clarify, AtNode, Advance
  <2>2. state'.query = state.query
    BY <1>0, <2>1 DEF ask_clarification_node, AgentStates
  <2> QED BY <1>0, <2>1, <2>2, ClarifyEffect, ReplyingNodes
          DEF Wrote, NodeNames, EventTypes, ReplyNodes
<1>5. CASE DeadLetter
  <2>1. state' = dead_letter_node(state) /\ node = "dead_letter" /\ node' = "finalize"
    BY <1>5 DEF DeadLetter, AtNode, Advance
  <2>2. state'.query = state.query
    BY <1>0, <2>1 DEF dead_letter_node, AgentStates
  <2>3. state'.pending_question = state.pending_question
    BY <1>0, <2>1, ReplyingNodes DEF Texts
  <2> QED BY <1>0, <2>1, <2>2, <2>3, DeadLetterEffect
          DEF Wrote, NodeNames, EventTypes, ReplyNodes
<1> QED BY <1>1, <1>2, <1>3, <1>4, <1>5

\* A super-step writes what its node writes; a refused one leaves the ticket alone.
LEMMA EngineWrites ==
  ASSUME TypeOK, Engine
  PROVE  /\ status = "running" /\ declined' = declined
         /\ status' \in {"running", "interrupted", "done", "raised"}
         /\ status' = "interrupted" => node' = "approval"
         /\ IF superstep' = superstep THEN UNCHANGED <<state, node>>
            ELSE Wrote(node) /\ node \in NodeNames /\ superstep < RecursionLimit
<1>0. superstep \in Nat
  BY RecursionAssumption DEF TypeOK
<1>1. CASE Interrupt \/ RaiseRecursionError
  BY <1>1, <1>0 DEF Interrupt, RaiseRecursionError, AtNode
<1>2. CASE \/ Intake \/ Tool \/ RiskyAction \/ MockApproval \/ Retry \/ Finalize
           \/ Classify \/ Evaluate \/ Answer \/ Clarify \/ DeadLetter
  <2>1. Wrote(node) /\ node \in NodeNames
    BY <1>2, SilentWrites, ModelWrites
  <2>2. /\ status = "running" /\ superstep < RecursionLimit
        /\ superstep' = superstep + 1
        /\ status' \in {"running", "done"} /\ declined' = declined
    BY <1>2 DEF Intake, Tool, RiskyAction, MockApproval, Retry, Finalize, Classify,
                Evaluate, Answer, Clarify, DeadLetter, AtNode, Advance
  <2> QED BY <1>0, <2>1, <2>2
<1> QED BY <1>1, <1>2 DEF Engine

\* A resumed approval writes what the approval node writes.
LEMMA ResumeWrites ==
  ASSUME TypeOK, status = "interrupted" => node = "approval", Resume
  PROVE  /\ status = "interrupted" /\ status' = "running" /\ superstep' = 1
         /\ Wrote("approval") /\ node = "approval"
<1>1. PICK decision \in {"approved", "rejected"} :
        state' = approval_node(state, decision) /\ node' = route_after_approval(state')
  BY DEF Resume, human_decision, mock_decision
<1>2. /\ status = "interrupted" /\ status' = "running" /\ superstep' = 1
      /\ node = "approval"
  BY DEF Resume
<1>3. state \in AgentStates /\ SameReply(state, state')
  BY SilentSteps DEF TypeOK
<1>4. state'.query = state.query
  BY <1>1, <1>3 DEF approval_node, AgentStates
<1> QED BY <1>1, <1>2, <1>3, <1>4, ApprovalEffect, RouterTypes
        DEF Wrote, SameReply, NodeNames, EventTypes, ReplyNodes

-------------------------------------------------------------------------------
(* Types *)

\* The workflow of a living process is well typed.
LEMMA WorkflowTyped == PersistenceTypeOK /\ status # "crashed" => TypeOK
BY DEF PersistenceTypeOK, TypeOK

\* A snapshot of a well-typed ticket is a checkpoint, and so are those of an input.
LEMMA SnapshotType ==
  ASSUME NEW s \in AgentStates
  PROVE  /\ \A n \in NodeNames \cup {"__start__", "END"} : snapshot(s, n) \in Checkpoint
         /\ InputCheckpoints(s) \in Seq(Checkpoint) /\ Len(InputCheckpoints(s)) = 2
         /\ InputCheckpoints(s)[1] = snapshot(s, "__start__")
         /\ InputCheckpoints(s)[2] = snapshot(s, "intake")
<1>1. \A n \in NodeNames \cup {"__start__", "END"} : snapshot(s, n) \in Checkpoint
  BY DEF snapshot, Checkpoint
<1>2. snapshot(s, "__start__") \in Checkpoint /\ snapshot(s, "intake") \in Checkpoint
  BY <1>1 DEF NodeNames
<1> QED BY <1>1, <1>2 DEF InputCheckpoints

\* What a checkpoint is made of, and where the thread goes on from it.
LEMMA CheckpointFields ==
  ASSUME NEW c \in Checkpoint
  PROVE  /\ c.values \in AgentStates
         /\ c.next \in NodeNames \cup {"__start__", "END"}
         /\ NodeToRun(c) \in NodeNames \cup {"END"}
         /\ NodeToRun(c) = "END" <=> c.next = "END"
<1>1. c.values \in AgentStates /\ c.next \in NodeNames \cup {"__start__", "END"}
  BY DEF Checkpoint
<1> QED BY <1>1 DEF NodeToRun, NodeNames

\* How far the process may be ahead, as the type invariant says it.
Ahead == AtLeastOne(WriteBehind) + 1

\* A first input fits between process and store.
LEMMA AheadType == Ahead \in Nat /\ Ahead >= 2 /\ Ahead >= WriteBehind + 1
BY WriteBehindAssumption DEF Ahead, AtLeastOne

\* The constants that bound a run.
LEMMA BoundTypes ==
  MaxCrashes \in Nat /\ MaxInvocations \in Nat /\ MaxReplays \in Nat
BY BoundsAssumption

\* A thread starts well typed.
LEMMA ThreadTypesInit == PersistenceInit => PersistenceTypeOK
<1> SUFFICES ASSUME PersistenceInit PROVE PersistenceTypeOK
  OBVIOUS
<1>1. TypeOK
  BY InitType DEF PersistenceInit
<1>2. unsaved \in Seq(Checkpoint) /\ Len(unsaved) <= Ahead
  BY <1>1, SnapshotType, AheadType DEF PersistenceInit, TypeOK
<1>3. history \in Seq(Checkpoint) /\ kind \in Kinds /\ effects \in Nat
  BY DEF PersistenceInit
<1>4. /\ crashes \in 0..MaxCrashes /\ replays \in 0..MaxReplays
      /\ invocations \in 1..(MaxInvocations + 1)
  BY BoundTypes DEF PersistenceInit
<1>5. fork \in [at : Nat, length : Nat]
  BY DEF PersistenceInit, NoFork
<1> QED BY <1>1, <1>2, <1>3, <1>4, <1>5 DEF PersistenceTypeOK, TypeOK, Ahead

\* A super-step is well typed, and writes at most one checkpoint.
LEMMA SuperstepTypes ==
  ASSUME PersistenceTypeOK, Superstep
  PROVE  PersistenceTypeOK' /\ TypeOK /\ TypeOK'
<1>1. TypeOK /\ TypeOK' /\ status # "crashed"
  <2>1. status # "crashed"
    BY DEF Superstep, Engine, Intake, Classify, Tool, Evaluate, Answer, Clarify,
           RiskyAction, MockApproval, Interrupt, Retry, DeadLetter, Finalize,
           RaiseRecursionError, AtNode
  <2>2. TypeOK
    BY <2>1, WorkflowTyped
  <2> QED BY <2>1, <2>2, NextType DEF Superstep, Next
<1>2. unsaved' \in Seq(Checkpoint) /\ Len(unsaved') <= Ahead
  <2>1. CASE superstep' = superstep
    BY <2>1 DEF Superstep, PersistenceTypeOK, Ahead
  <2>2. CASE superstep' # superstep
    <3>1. unsaved' = Append(unsaved, snapshot(state', node'))
      BY <2>2 DEF Superstep, Written
    <3>2. snapshot(state', node') \in Checkpoint
      BY <1>1, SnapshotType DEF TypeOK
    <3>3. unsaved \in Seq(Checkpoint) /\ Len(unsaved) <= WriteBehind
      BY DEF Superstep, MayRun, PersistenceTypeOK
    <3> QED BY <3>1, <3>2, <3>3, AheadType, WriteBehindAssumption
  <2> QED BY <2>1, <2>2
<1>3. effects' \in Nat
  BY DEF Superstep, PersistenceTypeOK
<1> QED BY <1>1, <1>2, <1>3 DEF Superstep, PersistenceTypeOK, TypeOK, counts, Ahead

\* A process that takes up a well-typed checkpoint is well typed.
LEMMA TakeUpTypes ==
  ASSUME PersistenceTypeOK, NEW c \in Checkpoint, TakeUp(c),
         fork' \in [at : Nat, length : Nat],
         crashes' \in 0..MaxCrashes, replays' \in 0..MaxReplays,
         invocations' = invocations
  PROVE  PersistenceTypeOK'
<1>1. state' \in AgentStates /\ node' \in NodeNames \cup {"END"}
  BY CheckpointFields DEF TakeUp
<1>2. status' \in {"running", "done"} /\ superstep' \in 0..RecursionLimit
  BY RecursionAssumption DEF TakeUp
<1>3. interrupt_enabled' \in BOOLEAN
  BY ModesAssumption DEF TakeUp
<1>4. unsaved' \in Seq(Checkpoint) /\ Len(unsaved') <= Ahead
  <2>1. snapshot(c.values, "intake") \in Checkpoint
    BY CheckpointFields, SnapshotType DEF NodeNames
  <2> QED BY <2>1, AheadType DEF TakeUp
<1> QED BY <1>1, <1>2, <1>3, <1>4 DEF TakeUp, PersistenceTypeOK, Ahead

-------------------------------------------------------------------------------
(* The shape of a thread *)

\* A dead process has nothing on its way, a living one has left a checkpoint, and
\* what waits for a human waits at the approval.
ThreadShape ==
  /\ status = "crashed" => unsaved = <<>>
  /\ status # "crashed" => history # <<>> \/ unsaved # <<>>
  /\ status = "interrupted" => node = "approval"

\* Types and shape together.
ThreadOK == PersistenceTypeOK /\ ThreadShape

\* The input merged with the lists of the thread is a ticket.
LEMMA MergeType ==
  ASSUME NEW s \in AgentStates, NEW query \in Queries, NEW budget \in Budgets
  PROVE  LET input == initial_state(query, budget)
         IN /\ input \in AgentStates /\ merge(s, input) \in AgentStates
            /\ \A t \in {input, merge(s, input)} :
                 /\ t.route = "" /\ t.evaluation_result = "" /\ t.attempt = 0
                 /\ t.pending_question = None /\ t.proposed_action = None
                 /\ t.approval = None /\ t.final_answer = None
                 /\ t.query = query /\ t.max_attempts = budget
<1> DEFINE input == initial_state(query, budget)
<1>1. input \in AgentStates
  BY InitialStateType, QueriesAssumption, BudgetsAssumption
<1>2. /\ s.tool_results \o input.tool_results \in Seq(ToolResults)
      /\ s.latest_named \in BOOLEAN
      /\ s.errors \o input.errors \in Seq(Errors)
      /\ s.events \o input.events \in Seq(LabEvent)
  <2>1. /\ s.tool_results \in Seq(ToolResults) /\ input.tool_results \in Seq(ToolResults)
        /\ s.errors \in Seq(Errors) /\ input.errors \in Seq(Errors)
        /\ s.events \in Seq(LabEvent) /\ input.events \in Seq(LabEvent)
        /\ s.latest_named \in BOOLEAN
    BY <1>1, FieldTypes
  <2> QED BY <2>1
<1>3. /\ input.route = "" /\ input.evaluation_result = "" /\ input.attempt = 0
      /\ input.pending_question = None /\ input.proposed_action = None
      /\ input.approval = None /\ input.final_answer = None
      /\ input.query = query /\ input.max_attempts = budget
  BY DEF initial_state
<1> HIDE DEF input
<1>4. merge(s, input) \in AgentStates
  BY <1>1, <1>2 DEF merge, AgentStates
<1>5. \A t \in {input, merge(s, input)} :
        /\ t.route = input.route /\ t.evaluation_result = input.evaluation_result
        /\ t.attempt = input.attempt /\ t.pending_question = input.pending_question
        /\ t.proposed_action = input.proposed_action /\ t.approval = input.approval
        /\ t.final_answer = input.final_answer
        /\ t.query = input.query /\ t.max_attempts = input.max_attempts
  BY <1>1 DEF merge, AgentStates
<1> QED BY <1>1, <1>3, <1>4, <1>5 DEF input

\* The checkpoints a thread can be taken up from.
LEMMA TakenFrom ==
  ASSUME PersistenceTypeOK, history # <<>>
  PROVE  /\ Len(history) \in Nat \ {0} /\ Latest = history[Len(history)]
         /\ Middle \in 1..Len(history)
         /\ Latest \in Checkpoint /\ history[Middle] \in Checkpoint
<1>1. history \in Seq(Checkpoint)
  BY DEF PersistenceTypeOK
<1>2. Len(history) \in Nat \ {0} /\ DOMAIN history = 1..Len(history)
  BY <1>1
<1>3. Middle \in 1..Len(history)
  BY <1>2 DEF Middle
<1> QED BY <1>1, <1>2, <1>3 DEF Latest, Last

\* An input that is given again starts from a fresh situation.
LEMMA InvokedState ==
  ASSUME PersistenceTypeOK, InvokeAgain
  PROVE  /\ state' \in AgentStates
         /\ state'.route = "" /\ state'.evaluation_result = "" /\ state'.attempt = 0
         /\ state'.pending_question = None /\ state'.proposed_action = None
         /\ state'.approval = None /\ state'.final_answer = None
         /\ state'.max_attempts \in Budgets
<1>1. PICK query \in Queries, budget \in Budgets :
        LET input == initial_state(query, budget)
        IN state' = IF history = <<>> THEN input ELSE merge(Latest.values, input)
  BY DEF InvokeAgain
<1>2. CASE history = <<>>
  <2>1. state' = initial_state(query, budget)
    BY <1>1, <1>2
  <2>2. initial_state(query, budget) \in AgentStates
    BY InitialStateType, QueriesAssumption, BudgetsAssumption
  <2> QED BY <2>1, <2>2 DEF initial_state
<1>3. CASE history # <<>>
  <2>1. Latest.values \in AgentStates
    BY <1>3, TakenFrom, CheckpointFields
  <2>2. state' = merge(Latest.values, initial_state(query, budget))
    BY <1>1, <1>3
  <2> QED BY <2>1, <2>2, MergeType
<1> QED BY <1>2, <1>3

\* Every step keeps the thread well typed and in shape.
LEMMA ThreadNext == ThreadOK /\ [PersistenceNext]_allvars => ThreadOK'
<1> SUFFICES ASSUME PersistenceTypeOK, ThreadShape, [PersistenceNext]_allvars
             PROVE  PersistenceTypeOK' /\ ThreadShape'
  BY DEF ThreadOK
<1>1. CASE Superstep
  <2>1. PersistenceTypeOK' /\ TypeOK
    BY <1>1, SuperstepTypes
  <2>2. status' # "crashed" /\ (status' = "interrupted" => node' = "approval")
    BY <1>1, <2>1, EngineWrites DEF Superstep
  <2>3. history' # <<>> \/ unsaved' # <<>>
    <3>1. unsaved' = unsaved \/ unsaved' = Append(unsaved, snapshot(state', node'))
      BY <1>1 DEF Superstep, Written
    <3>2. unsaved \in Seq(Checkpoint) /\ history' = history /\ status # "crashed"
      BY <1>1, <2>1 DEF Superstep, PersistenceTypeOK, TypeOK
    <3>3. Append(unsaved, snapshot(state', node')) # <<>>
      BY <3>2
    <3> QED BY <3>1, <3>2, <3>3 DEF ThreadShape
  <2> QED BY <2>1, <2>2, <2>3 DEF ThreadShape
<1>2. CASE Save
  <2>1. /\ unsaved \in Seq(Checkpoint) /\ unsaved # <<>> /\ history \in Seq(Checkpoint)
        /\ Len(unsaved) <= Ahead
    BY <1>2 DEF Save, PersistenceTypeOK, Ahead
  <2>2. /\ history' \in Seq(Checkpoint) /\ unsaved' \in Seq(Checkpoint)
        /\ history' # <<>> /\ Len(unsaved') <= Ahead
    BY <1>2, <2>1, AheadType DEF Save
  <2>3. status' # "crashed"
    BY <1>2, <2>1 DEF Save, ThreadShape, vars
  <2> QED BY <1>2, <2>2, <2>3
          DEF Save, PersistenceTypeOK, ThreadShape, vars, counts, Ahead
<1>3. CASE ResumeThread
  <2>1. TypeOK /\ Resume /\ Returned
    BY <1>3, WorkflowTyped DEF ResumeThread, Returned
  <2>2. TypeOK'
    BY <2>1, NextType DEF Next
  <2>3. unsaved' \in Seq(Checkpoint) /\ Len(unsaved') <= Ahead /\ unsaved' # <<>>
    <3>1. snapshot(state', node') \in Checkpoint
      BY <2>2, SnapshotType DEF TypeOK
    <3>2. unsaved' = <<snapshot(state', node')>>
      BY <1>3 DEF ResumeThread
    <3> QED BY <3>1, <3>2, AheadType
  <2>4. status' = "running"
    BY <2>1 DEF Resume
  <2> QED BY <1>3, <2>2, <2>3, <2>4
          DEF ResumeThread, PersistenceTypeOK, TypeOK, ThreadShape, counts, Ahead
<1>4. CASE Crash
  <2>1. unsaved' \in Seq(Checkpoint) /\ Len(unsaved') <= Ahead /\ unsaved' = <<>>
    BY <1>4, AheadType DEF Crash
  <2>2. history' \in Seq(Checkpoint)
    BY <1>4 DEF Crash, PersistenceTypeOK
  <2>3. crashes' \in 0..MaxCrashes
    BY <1>4, BoundTypes DEF Crash, PersistenceTypeOK
  <2> QED BY <1>4, <2>1, <2>2, <2>3 DEF Crash, PersistenceTypeOK, ThreadShape, Ahead
<1>5. CASE Recover
  <2>1. /\ Latest \in Checkpoint /\ history # <<>> /\ TakeUp(Latest)
        /\ UNCHANGED <<crashes, invocations, replays>>
    BY <1>5, TakenFrom DEF Recover, counts
  <2>2. fork' \in [at : Nat, length : Nat]
    BY <1>5 DEF Recover, NoFork, PersistenceTypeOK
  <2>3. PersistenceTypeOK'
    BY <2>1, <2>2, TakeUpTypes DEF PersistenceTypeOK
  <2> QED BY <2>1, <2>3 DEF TakeUp, ThreadShape
<1>6. CASE Replay
  <2>1. history # <<>>
    BY <1>6 DEF Replay, Returned, ThreadShape
  <2>2. /\ history[Middle] \in Checkpoint /\ TakeUp(history[Middle])
        /\ Middle \in Nat /\ Len(history) \in Nat
    BY <1>6, <2>1, TakenFrom DEF Replay
  <2>3. fork' \in [at : Nat, length : Nat]
    BY <1>6, <2>2 DEF Replay
  <2>4. /\ crashes' \in 0..MaxCrashes /\ replays' \in 0..MaxReplays
        /\ invocations' = invocations
    BY <1>6, BoundTypes DEF Replay, PersistenceTypeOK
  <2>5. PersistenceTypeOK'
    BY <2>2, <2>3, <2>4, TakeUpTypes
  <2> QED BY <2>1, <2>2, <2>5 DEF TakeUp, ThreadShape
<1>7. CASE InvokeAgain
  <2>1. state' \in AgentStates
    BY <1>7, InvokedState
  <2>2. unsaved' \in Seq(Checkpoint) /\ Len(unsaved') <= Ahead /\ unsaved' # <<>>
    <3>1. unsaved' = InputCheckpoints(state')
      BY <1>7 DEF InvokeAgain
    <3>2. InputCheckpoints(state') \in Seq(Checkpoint) /\ Len(InputCheckpoints(state')) = 2
      BY <2>1, SnapshotType
    <3> QED BY <3>1, <3>2, AheadType
  <2>3. invocations' \in 1..(MaxInvocations + 1)
    BY <1>7, BoundTypes DEF InvokeAgain, PersistenceTypeOK
  <2>4. fork' \in [at : Nat, length : Nat] /\ superstep' \in 0..RecursionLimit
    BY <1>7, RecursionAssumption DEF InvokeAgain, NoFork
  <2>5. interrupt_enabled' \in BOOLEAN /\ declined' \in BOOLEAN
    BY <1>7, ModesAssumption DEF InvokeAgain
  <2> QED BY <1>7, <2>1, <2>2, <2>3, <2>4, <2>5
          DEF InvokeAgain, PersistenceTypeOK, ThreadShape, NodeNames, Ahead
<1>8. CASE UNCHANGED allvars
  BY <1>8 DEF allvars, vars, counts, PersistenceTypeOK, ThreadShape
<1> QED BY <1>1, <1>2, <1>3, <1>4, <1>5, <1>6, <1>7, <1>8 DEF PersistenceNext

\* The thread starts in shape.
LEMMA ThreadInit == PersistenceInit => ThreadOK
<1> SUFFICES ASSUME PersistenceInit PROVE ThreadOK
  OBVIOUS
<1>1. PersistenceTypeOK
  BY ThreadTypesInit
<1>2. state \in AgentStates
  BY <1>1 DEF PersistenceTypeOK
<1>3. unsaved # <<>> /\ status = "running"
  BY <1>2, SnapshotType DEF PersistenceInit, Init
<1> QED BY <1>1, <1>3 DEF ThreadOK, ThreadShape

\* Types and shape hold in every reachable state.
LEMMA ThreadInvariant == PersistenceSpec => []ThreadOK
BY ThreadInit, ThreadNext, PTL DEF PersistenceSpec

\* A thread is well typed, and its process never further ahead of the store than it
\* may be, whatever crashes, is resumed, replayed or invoked again.
THEOREM ThreadTypeCorrect == PersistenceSpec => []PersistenceTypeOK
<1>1. ThreadOK => PersistenceTypeOK
  BY DEF ThreadOK
<1> QED BY <1>1, ThreadInvariant, PTL

-------------------------------------------------------------------------------
(* The checkpoints of a thread *)

\* The log is what the store holds, followed by what is on its way.
LEMMA LogShape ==
  ASSUME PersistenceTypeOK
  PROVE  /\ Log \in Seq(Checkpoint) /\ DOMAIN Log = 1..Len(Log)
         /\ Len(history) \in Nat /\ Len(unsaved) \in Nat
         /\ Len(Log) = Len(history) + Len(unsaved)
         /\ \A i \in 1..Len(history) : Log[i] = history[i]
         /\ \A i \in 1..Len(unsaved) : Log[Len(history) + i] = unsaved[i]
<1>1. history \in Seq(Checkpoint) /\ unsaved \in Seq(Checkpoint)
  BY DEF PersistenceTypeOK
<1> QED BY <1>1, ConcatProperties DEF Log

\* A checkpoint handed over is the last of the log.
LEMMA HandedOver ==
  ASSUME PersistenceTypeOK, NEW c \in Checkpoint,
         history' = history, unsaved' = Append(unsaved, c)
  PROVE  Log' = Append(Log, c)
<1>1. history \in Seq(Checkpoint) /\ unsaved \in Seq(Checkpoint)
  BY DEF PersistenceTypeOK
<1>2. Append(unsaved, c) = unsaved \o <<c>>
  BY <1>1, AppendIsConcat
<1>3. Append(history \o unsaved, c) = (history \o unsaved) \o <<c>>
  BY <1>1, AppendIsConcat, ConcatProperties
<1>4. (history \o unsaved) \o <<c>> = history \o (unsaved \o <<c>>)
  <2>1. <<c>> \in Seq(Checkpoint)
    OBVIOUS
  <2> QED BY <1>1, <2>1, ConcatAssociative
<1> QED BY <1>2, <1>3, <1>4 DEF Log

\* A super-step that runs adds one checkpoint, a refused one none.
LEMMA SuperstepLogs ==
  ASSUME ThreadOK, Superstep
  PROVE  IF superstep' = superstep THEN Log' = Log
         ELSE Log' = Append(Log, snapshot(state', node'))
<1>1. CASE superstep' = superstep
  BY <1>1 DEF Superstep, Log
<1>2. CASE superstep' # superstep
  <2>1. unsaved' = Append(unsaved, snapshot(state', node')) /\ history' = history
    BY <1>2 DEF Superstep, Written
  <2>2. snapshot(state', node') \in Checkpoint
    BY SuperstepTypes, SnapshotType DEF ThreadOK, TypeOK
  <2> QED BY <1>2, <2>1, <2>2, HandedOver DEF ThreadOK
<1> QED BY <1>1, <1>2

\* A write to the store takes nothing from the log and adds nothing.
LEMMA SaveLogs == ASSUME ThreadOK, Save PROVE Log' = Log
<1>1. history \in Seq(Checkpoint) /\ unsaved \in Seq(Checkpoint) /\ unsaved # <<>>
  BY DEF ThreadOK, PersistenceTypeOK, Save
<1>2. Head(unsaved) \in Checkpoint /\ Tail(unsaved) \in Seq(Checkpoint)
  BY <1>1
<1>3. Append(history, Head(unsaved)) = history \o <<Head(unsaved)>>
  BY <1>1, <1>2, AppendIsConcat
<1>4. <<Head(unsaved)>> \o Tail(unsaved) = unsaved
  BY <1>1
<1>5. (history \o <<Head(unsaved)>>) \o Tail(unsaved)
        = history \o (<<Head(unsaved)>> \o Tail(unsaved))
  <2>1. <<Head(unsaved)>> \in Seq(Checkpoint)
    BY <1>2
  <2> QED BY <1>1, <1>2, <2>1, ConcatAssociative
<1> QED BY <1>3, <1>4, <1>5 DEF Save, Log

\* A decision of a human adds the checkpoint of the approval.
LEMMA ResumeLogs ==
  ASSUME ThreadOK, ResumeThread PROVE Log' = Append(Log, snapshot(state', node'))
<1>1. TypeOK' /\ unsaved = <<>> /\ history' = history
  <2>1. TypeOK /\ Resume
    BY WorkflowTyped DEF ThreadOK, ResumeThread, Returned
  <2> QED BY <2>1, NextType DEF Next, ResumeThread, Returned
<1>2. snapshot(state', node') \in Checkpoint
  BY <1>1, SnapshotType DEF TypeOK
<1>3. unsaved' = Append(unsaved, snapshot(state', node'))
  BY <1>1 DEF ResumeThread
<1> QED BY <1>1, <1>2, <1>3, HandedOver DEF ThreadOK

\* A crash keeps what the store holds, if it outlives the process.
LEMMA CrashLogs ==
  ASSUME ThreadOK, Crash
  PROVE  Log' = IF OutlivesProcess THEN history ELSE <<>>
<1>1. history \in Seq(Checkpoint) /\ <<>> \in Seq(Checkpoint)
  BY DEF ThreadOK, PersistenceTypeOK
<1> QED BY <1>1, ConcatEmptySeq DEF Crash, Log

\* A thread that is taken up from the input writes the checkpoint of the input.
LEMMA TakeUpLogs ==
  ASSUME ThreadOK, unsaved = <<>>, NEW c \in Checkpoint, TakeUp(c)
  PROVE  /\ Log = history
         /\ Log' = IF c.next = "__start__" THEN Append(Log, snapshot(c.values, "intake"))
                   ELSE Log
<1>1. history \in Seq(Checkpoint)
  BY DEF ThreadOK, PersistenceTypeOK
<1>2. Log = history
  BY <1>1, ConcatEmptySeq DEF Log
<1>3. snapshot(c.values, "intake") \in Checkpoint
  BY CheckpointFields, SnapshotType DEF NodeNames
<1>4. CASE c.next = "__start__"
  <2>1. history' = history /\ unsaved' = Append(unsaved, snapshot(c.values, "intake"))
    BY <1>4 DEF TakeUp
  <2> QED BY <1>2, <1>3, <1>4, <2>1, HandedOver DEF ThreadOK
<1>5. CASE c.next # "__start__"
  BY <1>2, <1>5 DEF TakeUp, Log
<1> QED BY <1>2, <1>4, <1>5

\* An input adds its two checkpoints.
LEMMA InvokeLogs ==
  ASSUME ThreadOK, InvokeAgain
  PROVE  /\ Log = history
         /\ Log' = Log \o InputCheckpoints(state') /\ Len(Log') = Len(Log) + 2
         /\ \A i \in 1..Len(Log) : Log'[i] = Log[i]
         /\ Log'[Len(Log) + 1] = snapshot(state', "__start__")
         /\ Log'[Len(Log) + 2] = snapshot(state', "intake")
<1>1. history \in Seq(Checkpoint) /\ unsaved = <<>>
  BY DEF ThreadOK, PersistenceTypeOK, ThreadShape, InvokeAgain, Returned
<1>2. Log = history /\ history' = history
  BY <1>1, ConcatEmptySeq DEF Log, InvokeAgain
<1>3. unsaved' = InputCheckpoints(state') /\ state' \in AgentStates
  BY InvokedState DEF InvokeAgain, ThreadOK
<1>4. Log' = Log \o InputCheckpoints(state')
  BY <1>2, <1>3 DEF Log
<1>5. /\ InputCheckpoints(state') \in Seq(Checkpoint) /\ Len(InputCheckpoints(state')) = 2
      /\ InputCheckpoints(state')[1] = snapshot(state', "__start__")
      /\ InputCheckpoints(state')[2] = snapshot(state', "intake")
  BY <1>3, SnapshotType
<1> DEFINE input == InputCheckpoints(state')
<1>6. Len(Log) \in Nat /\ Log \in Seq(Checkpoint)
  BY <1>1, <1>2
<1> HIDE DEF input
<1>7. /\ Len(Log \o input) = Len(Log) + 2
      /\ \A i \in 1..(Len(Log) + 2) :
           (Log \o input)[i] = IF i <= Len(Log) THEN Log[i] ELSE input[i - Len(Log)]
  <2>1. input \in Seq(Checkpoint) /\ Len(input) = 2
    BY <1>5 DEF input
  <2>2. /\ Len(Log \o input) = Len(Log) + Len(input)
        /\ \A i \in 1..(Len(Log) + Len(input)) :
             (Log \o input)[i] = IF i <= Len(Log) THEN Log[i] ELSE input[i - Len(Log)]
    BY <1>6, <2>1, ConcatProperties
  <2> QED BY <2>1, <2>2
<1>8. /\ \A i \in 1..Len(Log) : (Log \o input)[i] = Log[i]
      /\ (Log \o input)[Len(Log) + 1] = input[1]
      /\ (Log \o input)[Len(Log) + 2] = input[2]
  BY <1>6, <1>7
<1> QED BY <1>2, <1>4, <1>5, <1>7, <1>8 DEF input

\* A checkpoint of the log was there before the step, or shows where the step led.
LEMMA NewCheckpoints ==
  ASSUME ThreadOK, [PersistenceNext]_allvars
  PROVE  \A i \in DOMAIN Log' :
           \/ i \in DOMAIN Log /\ Log'[i] = Log[i]
           \/ status' # "crashed" /\ Log'[i].values = state' /\ NodeToRun(Log'[i]) = node'
<1>0. ThreadOK' /\ PersistenceTypeOK /\ PersistenceTypeOK'
  BY ThreadNext DEF ThreadOK
<1>1. /\ Log \in Seq(Checkpoint) /\ Log' \in Seq(Checkpoint)
      /\ DOMAIN Log = 1..Len(Log) /\ DOMAIN Log' = 1..Len(Log')
      /\ Len(Log) \in Nat /\ Len(Log') \in Nat
  <2>1. /\ history \in Seq(Checkpoint) /\ unsaved \in Seq(Checkpoint)
        /\ history' \in Seq(Checkpoint) /\ unsaved' \in Seq(Checkpoint)
    BY <1>0 DEF PersistenceTypeOK
  <2>2. Log \in Seq(Checkpoint) /\ Log' \in Seq(Checkpoint)
    BY <2>1, ConcatProperties DEF Log
  <2> QED BY <2>2
<1>2. ASSUME NEW c \in Checkpoint, Log' = Append(Log, c), status' # "crashed",
             c.values = state', NodeToRun(c) = node'
      PROVE  \A i \in DOMAIN Log' :
               \/ i \in DOMAIN Log /\ Log'[i] = Log[i]
               \/ /\ status' # "crashed" /\ Log'[i].values = state'
                  /\ NodeToRun(Log'[i]) = node'
  <2>1. /\ Len(Log') = Len(Log) + 1 /\ Log'[Len(Log) + 1] = c
        /\ \A i \in 1..Len(Log) : Log'[i] = Log[i]
    BY <1>1, <1>2
  <2> QED BY <1>1, <1>2, <2>1
<1>3. ASSUME node' \in NodeNames \cup {"END"}
      PROVE  /\ snapshot(state', node').values = state'
             /\ NodeToRun(snapshot(state', node')) = node'
  BY <1>3 DEF snapshot, NodeToRun, NodeNames
<1>4. state' \in AgentStates /\ node' \in NodeNames \cup {"END"}
  BY <1>0 DEF PersistenceTypeOK
<1>5. snapshot(state', node') \in Checkpoint
  BY <1>4, SnapshotType
<1>6. CASE Superstep
  <2>1. status' # "crashed"
    BY <1>0, <1>6, SuperstepTypes DEF TypeOK
  <2>2. Log' = Log \/ Log' = Append(Log, snapshot(state', node'))
    BY <1>6, SuperstepLogs
  <2> QED BY <1>2, <1>3, <1>4, <1>5, <2>1, <2>2
<1>7. CASE ResumeThread
  BY <1>2, <1>3, <1>4, <1>5, <1>7, ResumeLogs DEF ResumeThread, Resume
<1>8. CASE Save
  BY <1>8, SaveLogs
<1>9. CASE Crash
  <2>1. Len(Log') <= Len(Log) /\ \A i \in 1..Len(Log') : Log'[i] = Log[i]
    <3>1. CASE OutlivesProcess
      BY <1>0, <1>9, <3>1, CrashLogs, LogShape
    <3>2. CASE ~OutlivesProcess
      <4>1. Log' = <<>>
        BY <1>9, <3>2, CrashLogs
      <4> QED BY <1>1, <4>1
    <3> QED BY <3>1, <3>2
  <2> QED BY <1>1, <2>1
<1>10. ASSUME NEW c \in Checkpoint, TakeUp(c), unsaved = <<>>
       PROVE  \A i \in DOMAIN Log' :
                \/ i \in DOMAIN Log /\ Log'[i] = Log[i]
                \/ /\ status' # "crashed" /\ Log'[i].values = state'
                   /\ NodeToRun(Log'[i]) = node'
  <2>1. CASE c.next = "__start__"
    <3>1. Log' = Append(Log, snapshot(c.values, "intake"))
      BY <1>10, <2>1, TakeUpLogs
    <3>2. state' = c.values /\ node' = "intake" /\ status' = "running"
      BY <1>10, <2>1 DEF TakeUp, NodeToRun
    <3> QED BY <1>2, <1>3, <1>4, <1>5, <3>1, <3>2
  <2>2. CASE c.next # "__start__"
    BY <1>10, <2>2, TakeUpLogs
  <2> QED BY <2>1, <2>2
<1>11. CASE Recover
  BY <1>0, <1>10, <1>11, TakenFrom DEF Recover, ThreadOK, ThreadShape
<1>12. CASE Replay
  BY <1>0, <1>10, <1>12, TakenFrom DEF Replay, Returned, ThreadOK, ThreadShape
<1>13. CASE InvokeAgain
  <2>1. status' # "crashed" /\ node' = "intake"
    BY <1>13 DEF InvokeAgain
  <2>2. \A i \in 1..Len(Log') : i \in 1..Len(Log) \/ i = Len(Log) + 1 \/ i = Len(Log) + 2
    BY <1>1, <1>13, InvokeLogs
  <2>3. /\ snapshot(state', "__start__").values = state'
        /\ NodeToRun(snapshot(state', "__start__")) = "intake"
        /\ snapshot(state', "intake").values = state'
        /\ NodeToRun(snapshot(state', "intake")) = "intake"
    BY DEF snapshot, NodeToRun
  <2> QED BY <1>1, <1>13, <2>1, <2>2, <2>3, InvokeLogs
<1>14. CASE UNCHANGED allvars
  BY <1>14 DEF allvars, Log
<1> QED BY <1>6, <1>7, <1>8, <1>9, <1>11, <1>12, <1>13, <1>14 DEF PersistenceNext

-------------------------------------------------------------------------------
(* One thread, several inputs *)

\* Visits of node m since the latest visit of intake, in the trail of a ticket s.
Lately(s, m) ==
  {i \in DOMAIN s.events :
     /\ s.events[i].node = m
     /\ \A j \in DOMAIN s.events : s.events[j].node = "intake" => j <= i}

\* Visits since the latest input, when the ticket is at node n.
Since(s, n, m) == IF n = "intake" THEN {} ELSE Lately(s, m)

\* Whatever ticket s says at node n was written since the latest input.
Situated(s, n) ==
  /\ s.route # ""              => Since(s, n, "classify") # {}
  /\ s.evaluation_result # ""  => Since(s, n, "evaluate") # {}
  /\ s.pending_question # None => Since(s, n, "clarify") # {}
  /\ s.proposed_action # None  => Since(s, n, "risky_action") # {}
  /\ s.approval # None         => Since(s, n, "approval") # {}
  /\ s.approval = "approved"   =>
       \E i \in Since(s, n, "approval") : s.events[i].event_type = "approved"
  /\ s.final_answer # None     =>
       Since(s, n, "answer") \cup Since(s, n, "clarify") \cup Since(s, n, "dead_letter") # {}
  /\ s.attempt = Cardinality(Since(s, n, "retry"))

\* The inductive invariant: the process and every checkpoint it may be taken up
\* from are situated in their input.
SituatedInv ==
  /\ status # "crashed" => Situated(state, node)
  /\ \A i \in DOMAIN Log : Situated(Log[i].values, NodeToRun(Log[i]))

\* Since is what ThisRun reads of the current ticket.
LEMMA ThisRunIsSince == \A m : ThisRun(m) = Since(state, node, m)
BY DEF ThisRun, Since, Lately, Visits

\* The step of a node adds itself to the visits of the run, and intake starts it.
LEMMA LatelyAfter ==
  ASSUME NEW s \in AgentStates, NEW t, NEW n \in NodeNames, NEW type \in EventTypes,
         t.events = Append(s.events, make_event(n, type))
  PROVE  /\ n = "intake" => \A m \in NodeNames \ {"intake"} : Lately(t, m) = {}
         /\ n # "intake" =>
              \A m \in NodeNames :
                Lately(t, m) = IF m = n THEN Lately(s, m) \cup {Len(s.events) + 1}
                               ELSE Lately(s, m)
         /\ \A i \in DOMAIN s.events : t.events[i] = s.events[i]
         /\ t.events[Len(s.events) + 1] = make_event(n, type)
         /\ \A m : \A i \in Lately(s, m) : i \in DOMAIN s.events /\ i # Len(s.events) + 1
<1> DEFINE L == Len(s.events)
<1>1. s.events \in Seq(LabEvent) /\ make_event(n, type) \in LabEvent
  BY FieldTypes DEF make_event, LabEvent
<1>2. /\ L \in Nat /\ DOMAIN s.events = 1..L /\ DOMAIN t.events = 1..(L + 1)
      /\ \A i \in 1..L : t.events[i] = s.events[i]
      /\ t.events[L + 1] = make_event(n, type)
  BY <1>1
<1>3. make_event(n, type).node = n
  BY DEF make_event
<1> HIDE DEF L
<1>4. ASSUME n = "intake", NEW m \in NodeNames \ {"intake"} PROVE Lately(t, m) = {}
  BY <1>2, <1>3, <1>4 DEF Lately
<1>5. ASSUME n # "intake", NEW m \in NodeNames
      PROVE  Lately(t, m) = IF m = n THEN Lately(s, m) \cup {L + 1} ELSE Lately(s, m)
  <2>1. Lately(t, m) = {i \in 1..(L + 1) :
                          /\ t.events[i].node = m
                          /\ \A j \in 1..(L + 1) : t.events[j].node = "intake" => j <= i}
    BY <1>2 DEF Lately
  <2>2. Lately(s, m) = {i \in 1..L :
                          /\ s.events[i].node = m
                          /\ \A j \in 1..L : s.events[j].node = "intake" => j <= i}
    BY <1>2 DEF Lately
  <2>3. \A i \in 1..L : i \in Lately(t, m) <=> i \in Lately(s, m)
    BY <1>2, <1>3, <1>5, <2>1, <2>2
  <2>4. L + 1 \in Lately(t, m) <=> m = n
    BY <1>2, <1>3, <2>1
  <2>5. \A i \in 1..(L + 1) : i \in 1..L \/ i = L + 1
    BY <1>2
  <2>6. L + 1 \notin Lately(s, m)
    BY <1>2, <2>2
  <2> QED BY <2>1, <2>2, <2>3, <2>4, <2>5, <2>6
<1>6. \A m : \A i \in Lately(s, m) : i \in 1..L
  BY <1>2 DEF Lately
<1> QED BY <1>2, <1>4, <1>5, <1>6 DEF L

\* A finite number of visits.
LEMMA SinceFinite ==
  ASSUME NEW s \in AgentStates, NEW n, NEW m
  PROVE  IsFiniteSet(Since(s, n, m))
<1>1. s.events \in Seq(LabEvent)
  BY FieldTypes
<1>2. IsFiniteSet(1..Len(s.events))
  BY <1>1, FS_Interval
<1>3. Since(s, n, m) \subseteq 1..Len(s.events)
  BY <1>1 DEF Since, Lately
<1> QED BY <1>2, <1>3, FS_Subset

\* A ticket with nothing written is situated at the start of its input.
LEMMA FreshIsSituated ==
  ASSUME NEW s \in AgentStates,
         s.route = "", s.evaluation_result = "", s.attempt = 0,
         s.pending_question = None, s.proposed_action = None, s.approval = None,
         s.final_answer = None
  PROVE  Situated(s, "intake")
<1>1. Since(s, "intake", "retry") = {}
  BY DEF Since
<1> QED BY <1>1, FS_EmptySet DEF Situated, None

\* A node that runs keeps the ticket situated: what it writes it writes now.
LEMMA SituatedStep ==
  ASSUME state \in AgentStates, NEW n \in NodeNames, Wrote(n), Situated(state, n)
  PROVE  Situated(state', node')
<1>1. PICK type \in EventTypes : /\ state'.events = Append(state.events, make_event(n, type))
                                 /\ n = "approval" => type = state'.approval
  BY DEF Wrote
<1> DEFINE L == Len(state.events)
           Was(m) == Since(state, n, m)
           Is(m) == Since(state', node', m)
<1>2. /\ n = "intake" => \A m \in NodeNames \ {"intake"} : Is(m) = {}
      /\ n # "intake" => \A m \in NodeNames : Is(m) = IF m = n THEN Was(m) \cup {L + 1}
                                                      ELSE Was(m)
      /\ \A i \in DOMAIN state.events : state'.events[i] = state.events[i]
      /\ state'.events[L + 1] = make_event(n, type)
      /\ \A m : \A i \in Was(m) : i \in DOMAIN state.events /\ i # L + 1
  <2>1. /\ n = "intake" => \A m \in NodeNames \ {"intake"} : Lately(state', m) = {}
        /\ n # "intake" =>
             \A m \in NodeNames :
               Lately(state', m) = IF m = n THEN Lately(state, m) \cup {L + 1}
                                   ELSE Lately(state, m)
        /\ \A i \in DOMAIN state.events : state'.events[i] = state.events[i]
        /\ state'.events[L + 1] = make_event(n, type)
        /\ \A m : \A i \in Lately(state, m) : i \in DOMAIN state.events /\ i # L + 1
    <3>1. state'.events = Append(state.events, make_event(n, type))
      BY <1>1
    <3> QED BY <3>1, LatelyAfter
  <2>2. node' # "intake"
    BY DEF Wrote
  <2> QED BY <2>1, <2>2 DEF Since
<1>3. n = "intake" => \A m : Was(m) = {}
  BY DEF Since
<1>4. /\ state.route # ""              => Was("classify") # {}
      /\ state.evaluation_result # ""  => Was("evaluate") # {}
      /\ state.pending_question # None => Was("clarify") # {}
      /\ state.proposed_action # None  => Was("risky_action") # {}
      /\ state.approval # None         => Was("approval") # {}
      /\ state.approval = "approved"   =>
           \E i \in Was("approval") : state.events[i].event_type = "approved"
      /\ state.final_answer # None     =>
           Was("answer") \cup Was("clarify") \cup Was("dead_letter") # {}
      /\ state.attempt = Cardinality(Was("retry"))
  BY DEF Situated
<1>5. IsFiniteSet(Was("retry")) /\ IsFiniteSet({})
  BY SinceFinite, FS_EmptySet
<1>6. make_event(n, type).event_type = type
  BY DEF make_event
<1> HIDE DEF L, Was, Is
<1>7. state'.attempt = Cardinality(Is("retry"))
  <2>1. CASE n = "intake"
    <3>1. Is("retry") = Was("retry")
      BY <1>2, <1>3, <2>1 DEF NodeNames
    <3> QED BY <1>4, <2>1, <3>1 DEF Wrote
  <2>2. CASE n = "retry"
    <3>1. Is("retry") = Was("retry") \cup {L + 1} /\ L + 1 \notin Was("retry")
      BY <1>2, <2>2
    <3>2. Cardinality(Is("retry")) = Cardinality(Was("retry")) + 1
      BY <1>5, <3>1, FS_AddElement
    <3> QED BY <1>4, <2>2, <3>2 DEF Wrote
  <2>3. CASE n \notin {"intake", "retry"}
    <3>1. Is("retry") = Was("retry")
      BY <1>2, <2>3 DEF NodeNames
    <3> QED BY <1>4, <2>3, <3>1 DEF Wrote
  <2> QED BY <2>1, <2>2, <2>3
<1>8. CASE n = "intake"
  <2>1. /\ state'.route = "" /\ state'.evaluation_result = ""
        /\ state'.pending_question = None /\ state'.proposed_action = None
        /\ state'.approval = None /\ state'.final_answer = None
    BY <1>3, <1>4, <1>8 DEF Wrote, ReplyNodes
  <2> QED BY <1>7, <2>1 DEF Situated, Is, None
<1>9. CASE n # "intake"
  <2>1. \A m \in NodeNames : Is(m) = IF m = n THEN Was(m) \cup {L + 1} ELSE Was(m)
    BY <1>2, <1>9
  <2>2. /\ state'.route # ""              => Is("classify") # {}
        /\ state'.evaluation_result # ""  => Is("evaluate") # {}
        /\ state'.pending_question # None => Is("clarify") # {}
        /\ state'.proposed_action # None  => Is("risky_action") # {}
        /\ state'.approval # None         => Is("approval") # {}
    BY <1>4, <2>1 DEF Wrote, NodeNames
  <2>3. state'.approval = "approved" =>
          \E i \in Is("approval") : state'.events[i].event_type = "approved"
    <3>1. CASE n = "approval"
      <4>1. L + 1 \in Is("approval")
        BY <2>1, <3>1
      <4> QED BY <1>1, <1>2, <1>6, <3>1, <4>1
    <3>2. CASE n # "approval"
      <4>1. Is("approval") = Was("approval") /\ state'.approval = state.approval
        BY <2>1, <3>2 DEF Wrote, NodeNames
      <4> QED BY <1>2, <1>4, <4>1
    <3> QED BY <3>1, <3>2
  <2>4. state'.final_answer # None =>
          Is("answer") \cup Is("clarify") \cup Is("dead_letter") # {}
    BY <1>4, <2>1 DEF Wrote, NodeNames, ReplyNodes
  <2> QED BY <1>7, <2>2, <2>3, <2>4 DEF Situated, Is
<1> QED BY <1>8, <1>9

\* The first ticket of a thread, and what a thread is taken up from, is situated.
LEMMA SituatedInit == PersistenceInit => SituatedInv
<1> SUFFICES ASSUME PersistenceInit PROVE SituatedInv
  OBVIOUS
<1>1. PICK query \in Queries, budget \in Budgets : state = initial_state(query, budget)
  BY DEF PersistenceInit, Init
<1>2. state \in AgentStates /\ node = "intake" /\ PersistenceTypeOK
  BY ThreadTypesInit DEF PersistenceInit, Init, PersistenceTypeOK
<1>3. Situated(state, "intake")
  <2>1. /\ state.route = "" /\ state.evaluation_result = "" /\ state.attempt = 0
        /\ state.pending_question = None /\ state.proposed_action = None
        /\ state.approval = None /\ state.final_answer = None
    BY <1>1 DEF initial_state
  <2> QED BY <1>2, <2>1, FreshIsSituated
<1>4. \A i \in DOMAIN Log : Log[i].values = state /\ NodeToRun(Log[i]) = "intake"
  <2>1. /\ Len(history) = 0 /\ Len(unsaved) = 2
        /\ unsaved[1] = snapshot(state, "__start__")
        /\ unsaved[2] = snapshot(state, "intake")
    BY <1>2, SnapshotType DEF PersistenceInit
  <2>2. \A i \in DOMAIN Log : Log[i] = unsaved[1] \/ Log[i] = unsaved[2]
    <3>1. unsaved \in Seq(Checkpoint) /\ history = <<>>
      BY <1>2 DEF PersistenceTypeOK, PersistenceInit
    <3>2. Log = unsaved
      BY <3>1, ConcatEmptySeq DEF Log
    <3>3. DOMAIN Log = 1..2
      BY <2>1, <3>1, <3>2
    <3> QED BY <3>2, <3>3
  <2> QED BY <2>1, <2>2 DEF snapshot, NodeToRun
<1> QED BY <1>2, <1>3, <1>4 DEF SituatedInv

\* Every step keeps process and checkpoints situated in their input.
LEMMA SituatedNext ==
  ThreadOK /\ SituatedInv /\ [PersistenceNext]_allvars => SituatedInv'
<1> SUFFICES ASSUME ThreadOK, SituatedInv, [PersistenceNext]_allvars
             PROVE  SituatedInv'
  OBVIOUS
<1>1. ASSUME status' # "crashed" PROVE Situated(state', node')
  <2>0. state \in AgentStates
    BY DEF ThreadOK, PersistenceTypeOK
  <2>1. CASE Superstep
    <3>1. TypeOK /\ Engine
      BY <2>1, SuperstepTypes DEF Superstep, ThreadOK
    <3>2. status # "crashed" /\ Situated(state, node)
      BY <3>1, EngineWrites DEF SituatedInv
    <3>3. CASE superstep' = superstep
      BY <3>1, <3>2, <3>3, EngineWrites
    <3>4. CASE superstep' # superstep
      BY <2>0, <3>1, <3>2, <3>4, EngineWrites, SituatedStep
    <3> QED BY <3>3, <3>4
  <2>2. CASE ResumeThread
    <3>1. TypeOK /\ Resume /\ (status = "interrupted" => node = "approval")
      BY <2>2, WorkflowTyped DEF ThreadOK, ThreadShape, ResumeThread, Returned
    <3>2. Wrote("approval") /\ status = "interrupted" /\ node = "approval"
      BY <3>1, ResumeWrites
    <3> QED BY <2>0, <3>2, SituatedStep DEF SituatedInv, NodeNames
  <2>3. ASSUME NEW i \in DOMAIN Log, TakeUp(Log[i]) PROVE Situated(state', node')
    BY <2>3 DEF TakeUp, SituatedInv
  <2>4. ASSUME history # <<>>
        PROVE  /\ Len(history) \in DOMAIN Log /\ Log[Len(history)] = Latest
               /\ Middle \in DOMAIN Log /\ Log[Middle] = history[Middle]
    BY <2>4, TakenFrom, LogShape DEF ThreadOK
  <2>5. CASE Recover
    BY <2>3, <2>4, <2>5 DEF Recover
  <2>6. CASE Replay
    BY <2>3, <2>4, <2>6 DEF Replay, Returned, ThreadOK, ThreadShape
  <2>7. CASE InvokeAgain
    BY <2>7, InvokedState, FreshIsSituated DEF InvokeAgain, ThreadOK
  <2>8. CASE Save \/ UNCHANGED allvars
    BY <1>1, <2>8 DEF Save, allvars, vars, SituatedInv
  <2>9. CASE Crash
    BY <1>1, <2>9 DEF Crash
  <2> QED BY <2>1, <2>2, <2>5, <2>6, <2>7, <2>8, <2>9 DEF PersistenceNext
<1>2. ASSUME NEW i \in DOMAIN Log'
      PROVE  Situated(Log'[i].values, NodeToRun(Log'[i]))
  BY <1>1, <1>2, NewCheckpoints DEF SituatedInv
<1> QED BY <1>1, <1>2 DEF SituatedInv

\* Process and checkpoints are situated in every reachable state.
LEMMA SituatedInvariant == PersistenceSpec => []SituatedInv
BY SituatedInit, SituatedNext, ThreadInvariant, PTL DEF PersistenceSpec

\* No verdict, question, proposal, decision or reply of an earlier input is taken
\* for one of the current input, and attempt counts its retries only: for any
\* number of inputs, crashes and replays (state.py:14-17).
THEOREM NothingIsLeftOver == PersistenceSpec => []SituationIsOfThisRun
<1>1. SituatedInv => SituationIsOfThisRun
  BY ThisRunIsSince DEF SituatedInv, Situated, SituationIsOfThisRun
<1> QED BY <1>1, SituatedInvariant, PTL

\* The tool carries an action out only on an approval given for the current input,
\* whatever was approved on the thread before (tool_node, approval_node).
THEOREM ApprovalIsFresh == PersistenceSpec => []ApprovalIsOfThisRun
<1>1. ThreadOK /\ SituatedInv => ApprovalIsOfThisRun
  <2> SUFFICES ASSUME SituatedInv, CarriesOutAction, status # "crashed"
               PROVE  \E i \in ThisRun("approval") : state.events[i].event_type = "approved"
    BY DEF ApprovalIsOfThisRun
  <2>1. state.approval = "approved"
    BY DEF CarriesOutAction, tool_result
  <2> QED BY <2>1, ThisRunIsSince DEF SituatedInv, Situated
<1> QED BY <1>1, SituatedInvariant, ThreadInvariant, PTL

===============================================================================
