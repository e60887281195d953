----------------------------- MODULE RunnerProofs -----------------------------
(***************************************************************************)
(* What a metrics file says of a batch, for every scenario file, every     *)
(* checkpointer and every number of batches: its variables are well typed, *)
(* a success is a finished run with the decision its scenario asks for, a  *)
(* report is the report of all the scenarios and leaves no escalation out, *)
(* and its totals are the visits its runs made or found on their threads.  *)
(***************************************************************************)
EXTENDS RunnerProperties, ReplyProofs, FiniteSetTheorems

\* The lists a thread keeps in the store.
Lists ==
  [tool_results : Seq(ToolResults), latest_named : BOOLEAN,
   errors : Seq(Errors), events : Seq(LabEvent)]

Threads == {<<>>} \cup {<<lists>> : lists \in Lists}

\* The variables of the invocation, the store and the history are well typed.
RunTypes ==
  /\ state \in AgentStates
  /\ node \in NodeNames \cup {"END"}
  /\ status \in {"idle", "running", "interrupted", "done", "raised"}
  /\ superstep \in 0..RecursionLimit
  /\ interrupt_enabled \in BOOLEAN
  /\ declined \in BOOLEAN
  /\ outages \in Nat
  /\ threads \in [Ids -> Threads]
  /\ scenarios \in Seq(Scenario)
  /\ visits \in [{"retry", "approval"} -> Nat]
  /\ carried \in [{"retry", "approval"} -> Nat]
  /\ decided \in BOOLEAN

\* A super-step begins and ends with a well-typed workflow.
LEMMA WorkflowTyped == RunTypes /\ status # "idle" => TypeOK
BY DEF RunTypes, TypeOK

-------------------------------------------------------------------------------
(* Types *)

\* What the store keeps of a state is well typed.
LEMMA ListsTyped ==
  ASSUME NEW s \in AgentStates
  PROVE  <<ListsOf(s)>> \in Threads
<1>1. ListsOf(s) \in Lists
  BY FieldTypes DEF ListsOf, Lists
<1> QED BY <1>1 DEF Threads

\* The state an invocation starts from is well typed, on a new thread or an old
\* one, and it says nothing of a reply or a decision.
LEMMA InputTyped ==
  ASSUME NEW scenario \in Scenario, NEW store \in [Ids -> Threads]
  PROVE  LET s == input_state(scenario, store)
         IN /\ s \in AgentStates
            /\ s.final_answer = None /\ s.pending_question = None /\ s.approval = None
<1> DEFINE input == initial_state(scenario.query, scenario.max_attempts)
           old   == store[scenario.id]
<1>1. /\ scenario.query \in SUBSET QueryFacts /\ scenario.max_attempts \in Int
      /\ scenario.id \in Ids
  BY DEF Scenario
<1>2. input \in AgentStates
  BY <1>1, InitialStateType
<1>3. input.final_answer = None /\ input.pending_question = None /\ input.approval = None
  BY DEF initial_state
<1>4. CASE old = <<>>
  BY <1>2, <1>3, <1>4 DEF input_state
<1>5. CASE old # <<>>
  <2>1. PICK lists \in Lists : old = <<lists>>
    BY <1>1, <1>5 DEF Threads
  <2>2. old[1] = lists
    BY <2>1
  <2>3. /\ lists.tool_results \in Seq(ToolResults) /\ lists.errors \in Seq(Errors)
        /\ lists.events \in Seq(LabEvent) /\ lists.latest_named \in BOOLEAN
    BY DEF Lists
  <2>4. /\ input.tool_results \in Seq(ToolResults) /\ input.errors \in Seq(Errors)
        /\ input.events \in Seq(LabEvent)
    BY <1>2, FieldTypes
  <2> HIDE DEF input, old
  <2>5. /\ lists.tool_results \o input.tool_results \in Seq(ToolResults)
        /\ lists.errors \o input.errors \in Seq(Errors)
        /\ lists.events \o input.events \in Seq(LabEvent)
    BY <2>3, <2>4
  <2>6. input_state(scenario, store) =
          [input EXCEPT !.tool_results = lists.tool_results \o @,
                        !.latest_named = lists.latest_named,
                        !.errors       = lists.errors \o @,
                        !.events       = lists.events \o @]
    BY <1>5, <2>2 DEF input_state, input, old
  <2> QED BY <1>2, <1>3, <2>3, <2>5, <2>6 DEF AgentStates
<1> QED BY <1>4, <1>5

\* The command starts well typed.
LEMMA RunTypesInit == RunnerInit => RunTypes
<1> SUFFICES ASSUME RunnerInit PROVE RunTypes
  OBVIOUS
<1>1. state \in AgentStates
  BY InitialStateType DEF RunnerInit
<1>2. superstep \in 0..RecursionLimit
  BY RecursionAssumption DEF RunnerInit
<1>3. interrupt_enabled \in BOOLEAN
  BY ModesAssumption DEF RunnerInit
<1>4. threads \in [Ids -> Threads]
  BY DEF RunnerInit, NoThreads, Threads
<1>5. scenarios \in Seq(Scenario)
  BY DEF RunnerInit
<1>6. /\ visits \in [{"retry", "approval"} -> Nat]
      /\ carried \in [{"retry", "approval"} -> Nat]
  BY DEF RunnerInit, NoVisits
<1> QED BY <1>1, <1>2, <1>3, <1>4, <1>5, <1>6 DEF RunnerInit, RunTypes

\* The store stays well typed when the current thread is saved.
LEMMA SavedTyped == RunTypes => Saved \in [Ids -> Threads]
<1> SUFFICES ASSUME RunTypes PROVE Saved \in [Ids -> Threads]
  OBVIOUS
<1>1. <<ListsOf(state)>> \in Threads /\ threads \in [Ids -> Threads]
  BY ListsTyped DEF RunTypes
<1> QED BY <1>1 DEF Saved

\* The number of visits metrics.py counts is a number.
LEMMA CountTyped ==
  ASSUME NEW s \in AgentStates, NEW n
  PROVE  CountOf(s, n) \in Nat
<1>1. s.events \in Seq(LabEvent)
  BY FieldTypes
<1>2. DOMAIN s.events = 1..Len(s.events) /\ Len(s.events) \in Nat
  BY <1>1
<1>3. IsFiniteSet(1..Len(s.events))
  BY <1>2, FS_Interval
<1>4. {i \in DOMAIN s.events : s.events[i].node = n} \in SUBSET (1..Len(s.events))
  BY <1>2
<1> HIDE DEF CountOf
<1>5. IsFiniteSet({i \in DOMAIN s.events : s.events[i].node = n})
  BY <1>3, <1>4, FS_Subset
<1> QED BY <1>5, FS_CardinalityType DEF CountOf

\* Every step of the command is well typed.
LEMMA RunTypesNext == RunTypes /\ [RunnerNext]_allvars => RunTypes'
<1> SUFFICES ASSUME RunTypes, [RunnerNext]_allvars PROVE RunTypes'
  OBVIOUS
<1>1. CASE StartBatch
  <2>1. threads' \in [Ids -> Threads]
    BY <1>1 DEF StartBatch, RunTypes, NoThreads, Threads
  <2>2. scenarios' \in Seq(Scenario)
    <3>1. PICK file \in Files :
            scenarios' = IF Loadable(file) THEN file.scenarios ELSE <<>>
      BY <1>1 DEF StartBatch
    <3>2. file.scenarios \in Seq(Scenario)
      BY FilesAssumption DEF ScenarioFile
    <3> QED BY <3>1, <3>2
  <2>3. /\ visits' \in [{"retry", "approval"} -> Nat]
        /\ carried' \in [{"retry", "approval"} -> Nat]
    BY <1>1 DEF StartBatch, NoVisits
  <2>4. interrupt_enabled' \in BOOLEAN /\ status' = "idle"
    BY <1>1, ModesAssumption DEF StartBatch
  <2> QED BY <1>1, <2>1, <2>2, <2>3, <2>4 DEF StartBatch, RunTypes
<1>2. CASE InvokeScenario
  <2>1. Current \in Scenario
    <3>1. scenarios \in Seq(Scenario) /\ Position <= Len(scenarios)
      BY <1>2 DEF InvokeScenario, RunTypes
    <3>2. Position \in Nat /\ Position >= 1
      BY <1>2 DEF InvokeScenario, Position
    <3> QED BY <3>1, <3>2 DEF Current
  <2>2. state' \in AgentStates
    BY <1>2, <2>1, InputTyped DEF InvokeScenario, RunTypes
  <2>3. superstep' \in 0..RecursionLimit
    BY <1>2, RecursionAssumption DEF InvokeScenario
  <2>4. carried' \in [{"retry", "approval"} -> Nat]
    <3>1. /\ carried' = [n \in DOMAIN carried |-> carried[n] + CountOf(state', n)]
          /\ carried \in [{"retry", "approval"} -> Nat]
      BY <1>2 DEF InvokeScenario, RunTypes
    <3>2. \A n : CountOf(state', n) \in Nat
      BY <2>2, CountTyped
    <3> QED BY <3>1, <3>2
  <2> QED BY <1>2, <2>2, <2>3, <2>4 DEF InvokeScenario, RunTypes, NodeNames, batch
<1>3. CASE Superstep
  <2>1. TypeOK'
    <3>1. TypeOK
      BY <1>3, WorkflowTyped
         DEF Superstep, Engine, Intake, Classify, Tool, Evaluate, Answer, Clarify,
             RiskyAction, MockApproval, Interrupt, Retry, DeadLetter, Finalize,
             RaiseRecursionError, AtNode
    <3> QED BY <1>3, <3>1, NextType DEF Superstep, Next
  <2>2. visits' \in [{"retry", "approval"} -> Nat]
    BY <1>3 DEF Superstep, RunTypes
  <2>3. decided' \in BOOLEAN
    BY <1>3 DEF Superstep, RunTypes
  <2> QED BY <1>3, <2>1, <2>2, <2>3 DEF Superstep, RunTypes, TypeOK, batch
<1>4. CASE Measure
  BY <1>4, SavedTyped DEF Measure, RunTypes
<1>5. CASE Abort
  BY <1>5, SavedTyped DEF Abort, RunTypes, vars, ghosts
<1>6. CASE WriteReport \/ UNCHANGED allvars
  BY <1>6 DEF WriteReport, RunTypes, vars, ghosts, allvars, batch
<1> QED BY <1>1, <1>2, <1>3, <1>4, <1>5, <1>6 DEF RunnerNext

\* Types hold in every reachable state of the command.
LEMMA RunTypesInvariant == RunnerSpec => []RunTypes
BY RunTypesInit, RunTypesNext, PTL DEF RunnerSpec

-------------------------------------------------------------------------------
(* The invocation *)

\* The inductive invariant: nobody has replied before finalize, somebody has at
\* it, and a decision the invocation carries was made in this very invocation.
RunInv ==
  /\ status = "interrupted" => node = "approval"
  /\ status = "done" => node = "END"
  /\ status # "idle" /\ node \notin {"finalize", "END"} =>
       state.final_answer = None /\ state.pending_question = None
  /\ status # "idle" /\ node \in {"finalize", "END"} => state.final_answer # None
  /\ status # "idle" /\ state.approval # None => decided

\* The command starts without an invocation.
LEMMA RunInvInit == RunnerInit => RunInv
BY DEF RunnerInit, RunInv

\* What the nodes that reply say.
LEMMA SpeakingSteps ==
  ASSUME TypeOK
  PROVE  /\ Answer => state'.final_answer \in {"generated", "templated"}
         /\ Clarify => state'.final_answer = "question"
         /\ DeadLetter => state'.final_answer = "escalated"
<1>0. state \in AgentStates
  BY DEF TypeOK
<1>1. Answer => \E text \in Texts : state' = answer_node(state, text)
  BY DEF Answer, Advance
<1>2. Clarify => \E text \in Texts : state' = ask_clarification_node(state, text)
  BY DEF Clarify, Advance
<1>3. DeadLetter => state' = dead_letter_node(state)
  BY DEF DeadLetter, Advance
<1>4. Texts # {}
  BY DEF Texts
<1> QED BY <1>0, <1>1, <1>2, <1>3, <1>4, ReplyingNodes

\* What a super-step of the engine does to reply and decision.
LEMMA EngineStep ==
  ASSUME TypeOK, status # "interrupted", Engine
  PROVE  /\ status = "running" /\ status' # "idle"
         /\ status' = "interrupted" => node' = "approval"
         /\ status' = "done" => node' = "END"
         /\ node' \notin {"finalize", "END"} =>
              SameReply(state, state') /\ node \notin {"finalize", "END"}
         /\ node' \in {"finalize", "END"} =>
              \/ state'.final_answer # None
              \/ SameReply(state, state') /\ node \in {"finalize", "END"}
         /\ \/ state'.approval = state.approval
            \/ node = "approval" /\ superstep' # superstep
<1>1. CASE Intake \/ Classify \/ Tool \/ Evaluate \/ Retry
  <2>1. SameReply(state, state')
    BY <1>1, SilentSteps
  <2>2. /\ status = "running" /\ status' \in {"running", "done"}
        /\ node \in {"intake", "classify", "tool", "evaluate", "retry"}
        /\ status' = "done" => node' = "END"
        /\ state'.approval = state.approval
    BY <1>1, IntakeStep, ClassifyStep, ToolStep, EvaluateStep, RetryStep
       DEF Ran, SameDecision
  <2>3. node' \notin {"finalize", "END"}
    BY <1>1, IntakeStep, ClassifyStep, ToolStep, EvaluateStep, RetryStep, RouterTypes
  <2> QED BY <2>1, <2>2, <2>3
<1>2. CASE RiskyAction
  <2>1. SameReply(state, state')
    BY <1>2, SilentSteps
  <2> QED BY <1>2, <2>1, RiskyActionStep DEF Ran
<1>3. CASE Answer \/ Clarify \/ DeadLetter \/ Finalize
  <2>1. /\ status = "running" /\ status' \in {"running", "done"}
        /\ node' \in {"finalize", "END"} /\ (status' = "done" => node' = "END")
        /\ state'.approval = state.approval
        /\ Finalize => node = "finalize"
    BY <1>3, AnswerStep, ClarifyStep, DeadLetterStep, FinalizeStep DEF Ran, SameDecision
  <2>2. Answer \/ Clarify \/ DeadLetter => state'.final_answer # None
    BY SpeakingSteps DEF None
  <2>3. Finalize => SameReply(state, state')
    BY SilentSteps
  <2> QED BY <1>3, <2>1, <2>2, <2>3
<1>4. CASE MockApproval
  <2>1. SameReply(state, state')
    BY <1>4, SilentSteps
  <2>2. /\ status = "running" /\ status' \in {"running", "done"}
        /\ status' = "done" => node' = "END"
        /\ node = "approval" /\ superstep' = superstep + 1
        /\ node' \notin {"finalize", "END"}
    BY <1>4, MockApprovalStep, RouterTypes DEF Ran, Decided
  <2>3. superstep' # superstep
    BY <2>2 DEF TypeOK
  <2> QED BY <2>1, <2>2, <2>3
<1>5. CASE Interrupt \/ RaiseRecursionError
  <2>1. /\ UNCHANGED <<state, node>> /\ status = "running"
        /\ status' \in {"interrupted", "raised"}
        /\ status' = "interrupted" => node = "approval"
    BY <1>5 DEF Interrupt, RaiseRecursionError, AtNode
  <2> QED BY <2>1 DEF SameReply
<1> QED BY <1>1, <1>2, <1>3, <1>4, <1>5 DEF Engine

\* A super-step happens in a running invocation only.
LEMMA EngineRuns == Engine => status = "running"
BY DEF Engine, Intake, Classify, Tool, Evaluate, Answer, Clarify, RiskyAction,
       MockApproval, Interrupt, Retry, DeadLetter, Finalize, RaiseRecursionError, AtNode

\* Every step of the command preserves the invariant of the invocation.
LEMMA RunInvNext == RunTypes /\ RunInv /\ [RunnerNext]_allvars => RunInv'
<1> SUFFICES ASSUME RunTypes, RunInv, [RunnerNext]_allvars PROVE RunInv'
  OBVIOUS
<1>1. CASE StartBatch \/ Measure
  <2>1. status' = "idle"
    BY <1>1 DEF StartBatch, Measure
  <2> QED BY <2>1 DEF RunInv
<1>2. CASE InvokeScenario
  <2>1. Current \in Scenario
    <3>1. scenarios \in Seq(Scenario) /\ Position <= Len(scenarios)
      BY <1>2 DEF InvokeScenario, RunTypes
    <3>2. Position \in Nat /\ Position >= 1
      BY <1>2 DEF InvokeScenario, Position
    <3> QED BY <3>1, <3>2 DEF Current
  <2>2. /\ state'.final_answer = None /\ state'.pending_question = None
        /\ state'.approval = None /\ status' = "running" /\ node' = "intake"
    BY <1>2, <2>1, InputTyped DEF InvokeScenario, RunTypes
  <2> QED BY <2>2 DEF RunInv
<1>3. CASE Superstep
  <2>1. status = "running" /\ TypeOK
    BY <1>3, EngineRuns, WorkflowTyped DEF Superstep
  <2>2. /\ status' # "idle"
        /\ status' = "interrupted" => node' = "approval"
        /\ status' = "done" => node' = "END"
        /\ node' \notin {"finalize", "END"} =>
             SameReply(state, state') /\ node \notin {"finalize", "END"}
        /\ node' \in {"finalize", "END"} =>
             \/ state'.final_answer # None
             \/ SameReply(state, state') /\ node \in {"finalize", "END"}
        /\ \/ state'.approval = state.approval
           \/ node = "approval" /\ superstep' # superstep
    BY <1>3, <2>1, EngineStep DEF Superstep
  <2>3. visits["approval"] \in Nat /\ DOMAIN visits = {"retry", "approval"}
    BY DEF RunTypes
  <2>4. visits' = IF node \in DOMAIN visits /\ superstep' # superstep
                  THEN [visits EXCEPT ![node] = @ + 1] ELSE visits
    BY <1>3 DEF Superstep
  <2>5. node = "approval" /\ superstep' # superstep =>
          visits'["approval"] # visits["approval"]
    BY <2>3, <2>4
  <2>6. decided' <=> decided \/ visits'["approval"] # visits["approval"]
    BY <1>3 DEF Superstep
  <2>7. state'.approval # None => decided'
    BY <2>1, <2>2, <2>5, <2>6 DEF RunInv
  <2>8. node' \notin {"finalize", "END"} =>
          state'.final_answer = None /\ state'.pending_question = None
    BY <2>1, <2>2 DEF RunInv, SameReply
  <2>9. node' \in {"finalize", "END"} => state'.final_answer # None
    BY <2>1, <2>2 DEF RunInv, SameReply
  <2> QED BY <2>2, <2>7, <2>8, <2>9 DEF RunInv
<1>4. CASE Abort \/ WriteReport \/ UNCHANGED allvars
  <2>1. UNCHANGED <<state, node, status, decided>>
    BY <1>4 DEF Abort, WriteReport, vars, ghosts, allvars
  <2> QED BY <2>1 DEF RunInv
<1> QED BY <1>1, <1>2, <1>3, <1>4 DEF RunnerNext

-------------------------------------------------------------------------------
(* The metrics *)

\* What metric_from_state makes of a state is a metric.
LEMMA MetricTyped ==
  ASSUME NEW s \in AgentStates, NEW scenario \in Scenario
  PROVE  /\ metric_from_state(s, scenario) \in Metric
         /\ metric_from_state(s, scenario).expected_route = scenario.expected_route
         /\ metric_from_state(s, scenario).success =>
              /\ answered(s)
              /\ scenario.requires_approval => s.approval # None
<1>1. CountOf(s, "retry") \in Nat /\ CountOf(s, "approval") \in Nat
  BY CountTyped
<1>2. s.route \in CLASSIFIABLE_ROUTES \cup {""}
  BY FieldTypes
<1>3. scenario.expected_route \in CLASSIFIABLE_ROUTES
      /\ scenario.requires_approval \in BOOLEAN
  BY DEF Scenario
<1>4. /\ answered(s) \in BOOLEAN
      /\ (s.approval # None) \in BOOLEAN /\ names_dead_letter(s.errors) \in BOOLEAN
  BY DEF answered, names_dead_letter
<1>5. metric_from_state(s, scenario).expected_route = scenario.expected_route
  BY DEF metric_from_state
<1>6. metric_from_state(s, scenario).success <=>
        /\ s.route = scenario.expected_route
        /\ answered(s)
        /\ scenario.requires_approval => s.approval # None
  BY DEF metric_from_state
<1>7. Len(s.events) \in Nat
  <2>1. s.events \in Seq(LabEvent)
    BY FieldTypes
  <2> QED BY <2>1
<1>8. metric_from_state(s, scenario) \in Metric
  BY <1>1, <1>2, <1>3, <1>4, <1>7 DEF metric_from_state, Metric
<1> QED BY <1>5, <1>6, <1>8

-------------------------------------------------------------------------------
(* Totals *)

\* The largest of some of the positions of a sequence.
LEMMA MaxExists ==
  ASSUME NEW n \in Nat, NEW s \in SUBSET (1..n), s # {}
  PROVE  Max(s) \in s /\ \A j \in s : Max(s) >= j
<1> DEFINE Bounds == {b \in 0..n : \A j \in s : j <= b}
           Upto   == {0..b : b \in Bounds}
<1>1. /\ IsWellFoundedOn(StrictSubsetOrdering(0..n), FiniteSubsetsOf(0..n))
      /\ IsFiniteSet(0..n)
  BY FS_StrictSubsetOrderingWellFounded, FS_Interval
<1>2. FiniteSubsetsOf(0..n) = SUBSET (0..n)
  BY <1>1, FS_FiniteSubsetsOfFinite
<1>3. Upto \subseteq SUBSET (0..n)
  OBVIOUS
<1>4. Upto # {}
  <2>1. n \in Bounds
    OBVIOUS
  <2> QED BY <2>1
<1>5. PICK x \in Upto : \A y \in Upto : <<y, x>> \notin StrictSubsetOrdering(0..n)
  <2>1. IsWellFoundedOn(StrictSubsetOrdering(0..n), SUBSET (0..n))
    BY <1>1, <1>2
  <2> HIDE DEF Upto
  <2> QED BY <1>3, <1>4, <2>1, WFMin
<1>6. PICK u \in Bounds : x = 0..u
  BY <1>5
<1>7. u \in s
  <2> SUFFICES ASSUME u \notin s PROVE FALSE
    OBVIOUS
  <2>1. u >= 1 /\ u - 1 \in Bounds
    <3>1. PICK j \in s : TRUE
      OBVIOUS
    <3>2. j >= 1 /\ j <= u
      BY <1>6
    <3>3. \A k \in s : k <= u - 1
      BY <1>6
    <3> QED BY <1>6, <3>2, <3>3
  <2>2. 0..(u - 1) \in Upto
    BY <2>1
  <2>3. 0..(u - 1) \subseteq x /\ 0..(u - 1) # x
    <3>1. u \in x /\ u \notin 0..(u - 1)
      BY <1>6, <2>1
    <3>2. 0..(u - 1) \subseteq x
      BY <1>6
    <3> QED BY <3>1, <3>2
  <2>4. <<0..(u - 1), x>> \in StrictSubsetOrdering(0..n)
    BY <1>3, <2>2, <2>3 DEF StrictSubsetOrdering
  <2> QED BY <1>5, <2>2, <2>4
<1>8. \A j \in s : u >= j
  BY <1>6
<1> QED BY <1>7, <1>8 DEF Max

\* One pair for each unit of the numbers at the positions in s.
Units(c, s) == UNION {{i} \X (1..c[i]) : i \in s}

\* There are finitely many of them.
LEMMA UnitsFinite ==
  ASSUME NEW n \in Nat, NEW c \in [1..n -> Nat], NEW s \in SUBSET (1..n)
  PROVE  IsFiniteSet(Units(c, s))
<1> DEFINE row == [i \in s |-> {i} \X (1..c[i])]
           rows == {{i} \X (1..c[i]) : i \in s}
<1>1. IsFiniteSet(s)
  <2>1. IsFiniteSet(1..n)
    BY FS_Interval
  <2> QED BY <2>1, FS_Subset
<1>2. row \in Surjection(s, rows)
  BY DEF Surjection
<1>3. IsFiniteSet(rows)
  BY <1>1, <1>2, FS_Surjection
<1>4. \A r \in rows : IsFiniteSet(r)
  <2> TAKE r \in rows
  <2>1. PICK i \in s : r = {i} \X (1..c[i])
    OBVIOUS
  <2>2. IsFiniteSet({i})
    BY FS_Singleton
  <2>3. c[i] \in Nat
    OBVIOUS
  <2>4. IsFiniteSet(1..c[i])
    BY <2>3, FS_Interval
  <2> QED BY <2>1, <2>2, <2>4, FS_Product
<1> QED BY <1>3, <1>4, FS_UNION DEF Units

\* One position more adds its number.
LEMMA UnitsAdd ==
  ASSUME NEW n \in Nat, NEW c \in [1..n -> Nat], NEW s \in SUBSET (1..n), NEW m \in s
  PROVE  Cardinality(Units(c, s)) = Cardinality(Units(c, s \ {m})) + c[m]
<1> DEFINE rest == Units(c, s \ {m})
           row  == {m} \X (1..c[m])
<1>1. Units(c, s) = rest \cup row /\ rest \cap row = {}
  BY DEF Units
<1>2. IsFiniteSet(rest)
  BY UnitsFinite
<1>3. IsFiniteSet(row) /\ Cardinality(row) = c[m]
  <2>1. IsFiniteSet({m}) /\ Cardinality({m}) = 1
    BY FS_Singleton
  <2>2. c[m] \in Nat
    OBVIOUS
  <2>3. IsFiniteSet(1..c[m]) /\ Cardinality(1..c[m]) = c[m]
    <3>1. \A k \in Nat : IsFiniteSet(1..k) /\ Cardinality(1..k) = k
      <4> TAKE k \in Nat
      <4>1. /\ IsFiniteSet(1..k)
            /\ Cardinality(1..k) = IF 1 > k THEN 0 ELSE k-1+1
        <5>1. 1 \in Int /\ k \in Int
          OBVIOUS
        <5> QED BY <5>1, FS_Interval, Zenon
      <4> QED BY <4>1
    <3> QED BY <2>2, <3>1
  <2>4. IsFiniteSet(row) /\ Cardinality(row) = Cardinality({m}) * Cardinality(1..c[m])
    BY <2>1, <2>3, FS_Product
  <2>5. Cardinality(row) = 1 * c[m]
    BY <2>1, <2>3, <2>4
  <2> QED BY <2>2, <2>4, <2>5
<1>4. Cardinality(rest) \in Nat /\ Cardinality({}) = 0
  BY <1>2, FS_CardinalityType, FS_EmptySet
<1> HIDE DEF rest, row
<1>5. Cardinality(rest \cup row) = Cardinality(rest) + Cardinality(row) - Cardinality(rest \cap row)
  BY <1>2, <1>3, FS_Union
<1>6. c[m] \in Nat
  OBVIOUS
<1>7. Cardinality(Units(c, s)) = Cardinality(rest) + c[m] - 0
  BY <1>1, <1>3, <1>4, <1>5
<1> QED BY <1>4, <1>6, <1>7 DEF rest

\* f sums up the numbers c at the positions in D, the last one first.
SumsUp(f, c, D) ==
  f = [s \in SUBSET D |-> IF s = {} THEN 0 ELSE f[s \ {Max(s)}] + c[Max(s)]]

\* There is such a function, and it counts units.
LEMMA CountsSumUp ==
  ASSUME NEW n \in Nat, NEW c \in [1..n -> Nat]
  PROVE  SumsUp([s \in SUBSET (1..n) |-> Cardinality(Units(c, s))], c, 1..n)
<1> DEFINE D == 1..n
           g == [s \in SUBSET D |-> Cardinality(Units(c, s))]
<1>1. Cardinality(Units(c, {})) = 0
  BY FS_EmptySet DEF Units
<1>2. \A s \in SUBSET D : s # {} =>
        Cardinality(Units(c, s)) = Cardinality(Units(c, s \ {Max(s)})) + c[Max(s)]
  BY MaxExists, UnitsAdd
<1>3. \A s \in SUBSET D : g[s] = IF s = {} THEN 0 ELSE g[s \ {Max(s)}] + c[Max(s)]
  BY <1>1, <1>2
<1> QED BY <1>3 DEF SumsUp

\* There is only one: a least set of positions on which f differed would not be
\* empty, and f would be right without its last position.
LEMMA SumIsCount ==
  ASSUME NEW n \in Nat, NEW c \in [1..n -> Nat], NEW f, SumsUp(f, c, 1..n)
  PROVE  f[1..n] = Cardinality(Units(c, 1..n))
<1> DEFINE D == 1..n
           g == [s \in SUBSET D |-> Cardinality(Units(c, s))]
           Wrong == {s \in SUBSET D : f[s] # g[s]}
<1>1. \A s \in SUBSET D : f[s] = IF s = {} THEN 0 ELSE f[s \ {Max(s)}] + c[Max(s)]
  BY DEF SumsUp
<1>2. \A s \in SUBSET D : g[s] = IF s = {} THEN 0 ELSE g[s \ {Max(s)}] + c[Max(s)]
  BY CountsSumUp DEF SumsUp
<1> HIDE DEF g
<1>3. Wrong = {}
  <2> SUFFICES ASSUME Wrong # {} PROVE FALSE
    OBVIOUS
  <2>1. IsWellFoundedOn(StrictSubsetOrdering(D), SUBSET D)
    <3>1. IsFiniteSet(D)
      BY FS_Interval
    <3> QED BY <3>1, FS_StrictSubsetOrderingWellFounded, FS_FiniteSubsetsOfFinite
  <2>2. PICK x \in Wrong : \A y \in Wrong : <<y, x>> \notin StrictSubsetOrdering(D)
    BY <2>1, WFMin
  <2>3. x # {}
    BY <1>1, <1>2
  <2>4. Max(x) \in x
    BY <2>3, MaxExists
  <2>5. <<x \ {Max(x)}, x>> \in StrictSubsetOrdering(D)
    BY <2>4 DEF StrictSubsetOrdering
  <2>6. f[x \ {Max(x)}] = g[x \ {Max(x)}]
    BY <2>2, <2>5
  <2> QED BY <1>1, <1>2, <2>3, <2>6
<1> QED BY <1>3 DEF g

\* The numbers of a longer sequence sum up to its last number more.
LEMMA CountAppends ==
  ASSUME NEW n \in Nat, NEW c \in [1..n -> Nat], NEW d \in [1..(n + 1) -> Nat],
         \A i \in 1..n : d[i] = c[i]
  PROVE  Cardinality(Units(d, 1..(n + 1))) = Cardinality(Units(c, 1..n)) + d[n + 1]
<1>1. (1..(n + 1)) \ {n + 1} = 1..n /\ n + 1 \in 1..(n + 1)
  OBVIOUS
<1>2. Units(d, 1..n) = Units(c, 1..n)
  BY DEF Units
<1>3. Cardinality(Units(d, 1..(n + 1)))
        = Cardinality(Units(d, (1..(n + 1)) \ {n + 1})) + d[n + 1]
  BY <1>1, UnitsAdd
<1> QED BY <1>1, <1>2, <1>3

\* total_retries counts the units of its column.
LEMMA RetriesAreCounted ==
  ASSUME NEW items \in Seq(Metric)
  PROVE  LET c == [i \in 1..Len(items) |-> items[i].retry_count]
         IN  /\ c \in [1..Len(items) -> Nat]
             /\ total_retries(items) = Cardinality(Units(c, 1..Len(items)))
<1> DEFINE c == [i \in 1..Len(items) |-> items[i].retry_count]
           D == 1..Len(items)
           Total(f) ==
             f = [s \in SUBSET D |-> IF s = {} THEN 0
                                     ELSE f[s \ {Max(s)}] + items[Max(s)].retry_count]
<1>1. /\ Len(items) \in Nat /\ DOMAIN items = D
      /\ \A i \in D : items[i] \in Metric
  OBVIOUS
<1>2. c \in [D -> Nat]
  BY <1>1 DEF Metric
<1>3. \A s \in SUBSET D : s # {} => c[Max(s)] = items[Max(s)].retry_count
  BY <1>1, MaxExists
<1>4. \A f : Total(f) <=> SumsUp(f, c, D)
  BY <1>3 DEF SumsUp
<1>5. Total([s \in SUBSET D |-> Cardinality(Units(c, s))])
  BY <1>1, <1>2, <1>4, CountsSumUp
<1>6. PICK f : Total(f) /\ total_retries(items) = f[D]
  <2>1. total_retries(items) = (CHOOSE f : Total(f))[D]
    BY <1>1, Zenon DEF total_retries, FoldLeft, MapThenFoldSet
  <2> HIDE DEF Total
  <2> QED BY <1>5, <2>1
<1>7. f[D] = Cardinality(Units(c, D))
  BY <1>1, <1>2, <1>4, <1>6, SumIsCount
<1> QED BY <1>2, <1>6, <1>7

\* total_interrupts counts the units of its column.
LEMMA InterruptsAreCounted ==
  ASSUME NEW items \in Seq(Metric)
  PROVE  LET c == [i \in 1..Len(items) |-> items[i].interrupt_count]
         IN  /\ c \in [1..Len(items) -> Nat]
             /\ total_interrupts(items) = Cardinality(Units(c, 1..Len(items)))
<1> DEFINE c == [i \in 1..Len(items) |-> items[i].interrupt_count]
           D == 1..Len(items)
           Total(f) ==
             f = [s \in SUBSET D |-> IF s = {} THEN 0
                                     ELSE f[s \ {Max(s)}] + items[Max(s)].interrupt_count]
<1>1. /\ Len(items) \in Nat /\ DOMAIN items = D
      /\ \A i \in D : items[i] \in Metric
  OBVIOUS
<1>2. c \in [D -> Nat]
  BY <1>1 DEF Metric
<1>3. \A s \in SUBSET D : s # {} => c[Max(s)] = items[Max(s)].interrupt_count
  BY <1>1, MaxExists
<1>4. \A f : Total(f) <=> SumsUp(f, c, D)
  BY <1>3 DEF SumsUp
<1>5. Total([s \in SUBSET D |-> Cardinality(Units(c, s))])
  BY <1>1, <1>2, <1>4, CountsSumUp
<1>6. PICK f : Total(f) /\ total_interrupts(items) = f[D]
  <2>1. total_interrupts(items) = (CHOOSE f : Total(f))[D]
    BY <1>1, Zenon DEF total_interrupts, FoldLeft, MapThenFoldSet
  <2> HIDE DEF Total
  <2> QED BY <1>5, <2>1
<1>7. f[D] = Cardinality(Units(c, D))
  BY <1>1, <1>2, <1>4, <1>6, SumIsCount
<1> QED BY <1>2, <1>6, <1>7

\* total_retries of a batch is a number.
LEMMA RetriesTyped == ASSUME NEW items \in Seq(Metric) PROVE total_retries(items) \in Nat
<1>1. Len(items) \in Nat
  OBVIOUS
<1> QED BY <1>1, RetriesAreCounted, UnitsFinite, FS_CardinalityType

\* total_retries of a batch and of one scenario more.
LEMMA RetriesAppend ==
  ASSUME NEW items \in Seq(Metric), NEW m \in Metric
  PROVE  /\ total_retries(<<>>) = 0
         /\ total_retries(items) \in Nat
         /\ total_retries(Append(items, m)) = total_retries(items) + m.retry_count
<1> DEFINE c == [i \in 1..Len(items) |-> items[i].retry_count]
           more == Append(items, m)
           d == [i \in 1..Len(more) |-> more[i].retry_count]
           none == [i \in 1..Len(<<>>) |-> <<>>[i].retry_count]
<1>1. /\ more \in Seq(Metric) /\ Len(items) \in Nat /\ Len(more) = Len(items) + 1
      /\ more[Len(items) + 1] = m
      /\ \A i \in 1..Len(items) : more[i] = items[i]
  OBVIOUS
<1>2. /\ c \in [1..Len(items) -> Nat]
      /\ total_retries(items) = Cardinality(Units(c, 1..Len(items)))
  BY RetriesAreCounted
<1>3. /\ d \in [1..Len(more) -> Nat]
      /\ total_retries(more) = Cardinality(Units(d, 1..Len(more)))
  BY <1>1, RetriesAreCounted
<1>4. \A i \in 1..Len(items) : d[i] = c[i]
  BY <1>1
<1>5. d[Len(items) + 1] = m.retry_count
  BY <1>1
<1> HIDE DEF c, d, more
<1>6. total_retries(more) = total_retries(items) + m.retry_count
  BY <1>1, <1>2, <1>3, <1>4, <1>5, CountAppends
<1>7. total_retries(items) \in Nat
  BY RetriesTyped
<1>8. total_retries(<<>>) = 0
  <2>1. <<>> \in Seq(Metric) /\ 1..Len(<<>>) = {}
    OBVIOUS
  <2>2. total_retries(<<>>) = Cardinality(Units(none, 1..Len(<<>>)))
    BY <2>1, RetriesAreCounted
  <2> QED BY <2>1, <2>2, FS_EmptySet DEF Units
<1> QED BY <1>6, <1>7, <1>8 DEF more

\* total_interrupts of a batch is a number.
LEMMA InterruptsTyped == ASSUME NEW items \in Seq(Metric) PROVE total_interrupts(items) \in Nat
<1>1. Len(items) \in Nat
  OBVIOUS
<1> QED BY <1>1, InterruptsAreCounted, UnitsFinite, FS_CardinalityType

\* total_interrupts of a batch and of one scenario more.
LEMMA InterruptsAppend ==
  ASSUME NEW items \in Seq(Metric), NEW m \in Metric
  PROVE  /\ total_interrupts(<<>>) = 0
         /\ total_interrupts(items) \in Nat
         /\ total_interrupts(Append(items, m)) = total_interrupts(items) + m.interrupt_count
<1> DEFINE c == [i \in 1..Len(items) |-> items[i].interrupt_count]
           more == Append(items, m)
           d == [i \in 1..Len(more) |-> more[i].interrupt_count]
           none == [i \in 1..Len(<<>>) |-> <<>>[i].interrupt_count]
<1>1. /\ more \in Seq(Metric) /\ Len(items) \in Nat /\ Len(more) = Len(items) + 1
      /\ more[Len(items) + 1] = m
      /\ \A i \in 1..Len(items) : more[i] = items[i]
  OBVIOUS
<1>2. /\ c \in [1..Len(items) -> Nat]
      /\ total_interrupts(items) = Cardinality(Units(c, 1..Len(items)))
  BY InterruptsAreCounted
<1>3. /\ d \in [1..Len(more) -> Nat]
      /\ total_interrupts(more) = Cardinality(Units(d, 1..Len(more)))
  BY <1>1, InterruptsAreCounted
<1>4. \A i \in 1..Len(items) : d[i] = c[i]
  BY <1>1
<1>5. d[Len(items) + 1] = m.interrupt_count
  BY <1>1
<1> HIDE DEF c, d, more
<1>6. total_interrupts(more) = total_interrupts(items) + m.interrupt_count
  BY <1>1, <1>2, <1>3, <1>4, <1>5, CountAppends
<1>7. total_interrupts(items) \in Nat
  BY InterruptsTyped
<1>8. total_interrupts(<<>>) = 0
  <2>1. <<>> \in Seq(Metric) /\ 1..Len(<<>>) = {}
    OBVIOUS
  <2>2. total_interrupts(<<>>) = Cardinality(Units(none, 1..Len(<<>>)))
    BY <2>1, InterruptsAreCounted
  <2> QED BY <2>1, <2>2, FS_EmptySet DEF Units
<1> QED BY <1>6, <1>7, <1>8 DEF more

-------------------------------------------------------------------------------
(* The metrics of a batch *)

\* The inductive invariant: the metrics are those of the first scenarios, in
\* their order, and each success is backed by the ending of its own invocation.
MetricsInv ==
  /\ metrics \in Seq(Metric)
  /\ endings \in Seq(Endings)
  /\ Len(endings) = Len(metrics)
  /\ Len(metrics) <= Len(scenarios)
  /\ phase = "loop" /\ status # "idle" => Position <= Len(scenarios)
  /\ \A i \in DOMAIN metrics :
       /\ metrics[i].expected_route = scenarios[i].expected_route
       /\ metrics[i].success =>
            /\ endings[i].reply # "interrupted"
            /\ scenarios[i].requires_approval => endings[i].decided

\* A batch starts without metrics.
LEMMA NoMetrics ==
  ASSUME metrics' = <<>>, endings' = <<>>, status' = "idle", scenarios' \in Seq(Scenario)
  PROVE  MetricsInv'
<1>1. Len(metrics') = 0 /\ Len(endings') = 0 /\ Len(scenarios') \in Nat
  OBVIOUS
<1>2. DOMAIN metrics' = {}
  OBVIOUS
<1>3. metrics' \in Seq(Metric) /\ endings' \in Seq(Endings)
  OBVIOUS
<1> QED BY <1>1, <1>2, <1>3 DEF MetricsInv

\* How an invocation that is measured has ended.
LEMMA EndingTyped ==
  ASSUME RunTypes, RunInv, status \in {"done", "interrupted"}
  PROVE  /\ ending \in Endings
         /\ ending.reply = "interrupted" => status = "interrupted"
         /\ ending.reply = "escalated" => state.final_answer = "escalated"
<1>1. state.final_answer \in {None, "generated", "templated", "question", "escalated"}
  BY DEF RunTypes, AgentStates
<1>2. status = "done" => state.final_answer # None
  BY DEF RunInv
<1>3. decided \in BOOLEAN
  BY DEF RunTypes
<1>4. ending.reply = IF status = "done" THEN state.final_answer ELSE status
  BY DEF ending
<1>5. ending.reply \in {"generated", "templated", "question", "escalated", "interrupted"}
  BY <1>1, <1>2, <1>4 DEF None
<1>6. ending.decided = decided
  BY DEF ending
<1>7. ending \in Endings
  BY <1>3, <1>5, <1>6 DEF ending, Endings
<1> QED BY <1>1, <1>4, <1>7 DEF None

\* A measured invocation adds the metric of the current scenario.
LEMMA MeasureAdds ==
  ASSUME RunTypes, RunInv, MetricsInv, Measure
  PROVE  MetricsInv'
<1> DEFINE m == metric_from_state(state, Current)
<1>1. /\ metrics' = Append(metrics, m) /\ endings' = Append(endings, ending)
      /\ status \in {"done", "interrupted"} /\ status' = "idle"
      /\ scenarios' = scenarios /\ phase = "loop"
  BY DEF Measure, Measurable
<1>2. /\ metrics \in Seq(Metric) /\ endings \in Seq(Endings) /\ scenarios \in Seq(Scenario)
      /\ Len(metrics) \in Nat /\ Len(scenarios) \in Nat
      /\ Len(endings) = Len(metrics) /\ Len(metrics) + 1 <= Len(scenarios)
  BY <1>1 DEF MetricsInv, RunTypes, Position
<1>3. Current = scenarios[Len(metrics) + 1] /\ Current \in Scenario
  BY <1>2 DEF Current, Position
<1>4. /\ m \in Metric /\ m.expected_route = Current.expected_route
      /\ m.success => /\ answered(state)
                      /\ Current.requires_approval => state.approval # None
  BY <1>3, MetricTyped DEF RunTypes
<1>5. ending \in Endings /\ (ending.reply = "interrupted" => status = "interrupted")
  BY EndingTyped, <1>1
<1>6. m.success => ending.reply # "interrupted"
  BY <1>4, <1>5 DEF RunInv, answered
<1>7. m.success /\ Current.requires_approval => ending.decided
  BY <1>1, <1>4 DEF RunInv, ending
<1> HIDE DEF m
<1>8. /\ metrics' \in Seq(Metric) /\ endings' \in Seq(Endings)
      /\ Len(metrics') = Len(metrics) + 1 /\ Len(endings') = Len(endings) + 1
      /\ DOMAIN metrics' = DOMAIN metrics \cup {Len(metrics) + 1}
      /\ metrics'[Len(metrics) + 1] = m /\ endings'[Len(metrics) + 1] = ending
      /\ \A i \in DOMAIN metrics :
           metrics'[i] = metrics[i] /\ endings'[i] = endings[i]
  BY <1>1, <1>2, <1>4, <1>5
<1>9. \A i \in DOMAIN metrics' :
        /\ metrics'[i].expected_route = scenarios'[i].expected_route
        /\ metrics'[i].success =>
             /\ endings'[i].reply # "interrupted"
             /\ scenarios'[i].requires_approval => endings'[i].decided
  BY <1>1, <1>3, <1>4, <1>6, <1>7, <1>8 DEF MetricsInv
<1>10. Len(metrics') <= Len(scenarios')
  BY <1>1, <1>2, <1>8
<1> QED BY <1>1, <1>2, <1>8, <1>9, <1>10 DEF MetricsInv

\* Every step of the command preserves the invariant of the metrics.
LEMMA MetricsNext ==
  RunTypes /\ RunTypes' /\ RunInv /\ MetricsInv /\ [RunnerNext]_allvars => MetricsInv'
<1> SUFFICES ASSUME RunTypes, RunTypes', RunInv, MetricsInv, [RunnerNext]_allvars
             PROVE  MetricsInv'
  OBVIOUS
<1>1. CASE StartBatch
  BY <1>1, NoMetrics DEF StartBatch, RunTypes
<1>2. CASE Measure
  BY <1>2, MeasureAdds
<1>3. CASE InvokeScenario
  BY <1>3 DEF InvokeScenario, MetricsInv, Position, batch
<1>4. CASE Superstep
  <2>1. UNCHANGED <<metrics, endings, scenarios, phase>> /\ status # "idle"
    BY <1>4, EngineRuns DEF Superstep, batch
  <2> QED BY <2>1 DEF MetricsInv, Position
<1>5. CASE Abort \/ WriteReport \/ UNCHANGED allvars
  <2>1. /\ UNCHANGED <<metrics, endings, scenarios, status>>
        /\ phase' = "loop" => phase = "loop"
    BY <1>5 DEF Abort, WriteReport, vars, ghosts, allvars, batch
  <2> QED BY <2>1 DEF MetricsInv, Position
<1> QED BY <1>1, <1>2, <1>3, <1>4, <1>5 DEF RunnerNext

\* The invariants of the invocation and of the metrics hold together.
LEMMA RunnerInvariant == RunnerSpec => [](RunTypes /\ RunInv /\ MetricsInv)
<1>1. RunnerInit => MetricsInv
  <2> SUFFICES ASSUME RunnerInit PROVE MetricsInv
    OBVIOUS
  <2>1. metrics = <<>> /\ endings = <<>> /\ scenarios = <<>> /\ status = "idle"
    BY DEF RunnerInit
  <2>2. Len(metrics) = 0 /\ Len(endings) = 0 /\ Len(scenarios) = 0
    BY <2>1
  <2>3. DOMAIN metrics = {}
    BY <2>1
  <2>4. metrics \in Seq(Metric) /\ endings \in Seq(Endings)
    BY <2>1
  <2> QED BY <2>1, <2>2, <2>3, <2>4 DEF MetricsInv
<1> QED BY <1>1, MetricsNext, RunInvInit, RunInvNext, RunTypesInvariant, PTL DEF RunnerSpec

\* A success is a run that ended with a reply and, where its scenario asks for
\* it, with a decision made in that run, on whatever thread (metric_from_state,
\* run_scenarios).
THEOREM SuccessIsEarned == RunnerSpec => []SuccessMeansFinished
<1>1. MetricsInv => SuccessMeansFinished
  BY DEF MetricsInv, SuccessMeansFinished
<1> QED BY <1>1, RunnerInvariant, PTL

\* A report changes only to one of all the scenarios of the batch, in their
\* order; an exception leaves the earlier one (run_scenarios, write_metrics).
THEOREM ReportsAreComplete == RunnerSpec => NoPartialReport
<1> DEFINE A ==
      report' # report =>
        /\ Written'
        /\ Len(report'[1].scenario_metrics) = Len(scenarios)
        /\ \A i \in DOMAIN scenarios :
             report'[1].scenario_metrics[i].expected_route = scenarios[i].expected_route
<1>1. RunTypes /\ MetricsInv /\ [RunnerNext]_allvars => [A]_allvars
  <2> SUFFICES ASSUME RunTypes, MetricsInv, RunnerNext, report' # report PROVE A
    OBVIOUS
  <2>1. WriteReport
    BY DEF RunnerNext, StartBatch, InvokeScenario, Superstep, Measure, Abort, batch
  <2>2. PICK resume : report' = <<summarize_metrics(metrics, resume)>>
    BY <2>1 DEF WriteReport
  <2>3. report'[1].scenario_metrics = metrics
    BY <2>2 DEF summarize_metrics
  <2>4. /\ metrics \in Seq(Metric) /\ scenarios \in Seq(Scenario)
        /\ Len(metrics) = Len(scenarios)
    BY <2>1 DEF WriteReport, Position, MetricsInv, RunTypes
  <2>5. DOMAIN metrics = DOMAIN scenarios
    BY <2>4
  <2>6. Written'
    BY <2>1 DEF WriteReport, Written
  <2> QED BY <2>3, <2>4, <2>5, <2>6 DEF MetricsInv
<1> QED BY <1>1, RunnerInvariant, PTL DEF RunnerSpec, NoPartialReport

-------------------------------------------------------------------------------
(* Types of the batch *)

\* The inductive invariant of the metrics file: a batch in the loop has enough
\* scenarios for validate-metrics.
BatchTypes ==
  /\ phase \in {"start", "loop", "written", "failed"}
  /\ phase = "loop" => Len(scenarios) >= 6
  /\ report = <<>> \/ \E r \in MetricsReport : report = <<r>> /\ validate_metrics(r)
  /\ batches \in 0..MaxBatches
  /\ surprises \in 0..MaxSurprises

\* The command starts without a batch.
LEMMA BatchTypesInit == RunnerInit => BatchTypes
BY RunnerBoundsAssumption DEF RunnerInit, BatchTypes

\* What WriteReport writes is a metrics file that validate-metrics accepts.
LEMMA ReportTyped ==
  ASSUME RunTypes, MetricsInv, BatchTypes, WriteReport
  PROVE  \E r \in MetricsReport : report' = <<r>> /\ validate_metrics(r)
<1>1. PICK resume \in BOOLEAN : report' = <<summarize_metrics(metrics, resume)>>
  <2>1. (kind # "none" /\ verify_resume(Last(scenarios).id)) \in BOOLEAN
    BY DEF verify_resume
  <2> QED BY <2>1 DEF WriteReport
<1>2. /\ metrics \in Seq(Metric) /\ scenarios \in Seq(Scenario)
      /\ Len(metrics) \in Nat /\ Len(scenarios) \in Nat
      /\ Len(metrics) + 1 > Len(scenarios) /\ Len(scenarios) >= 6
  BY DEF WriteReport, Position, MetricsInv, RunTypes, BatchTypes
<1>3. Len(metrics) >= 6
  BY <1>2
<1>4. total_retries(metrics) \in Nat /\ total_interrupts(metrics) \in Nat
  BY <1>2, RetriesTyped, InterruptsTyped
<1> DEFINE r == summarize_metrics(metrics, resume)
<1>5. r \in MetricsReport
  BY <1>1, <1>2, <1>4 DEF summarize_metrics, MetricsReport
<1>6. validate_metrics(r)
  BY <1>3 DEF validate_metrics, summarize_metrics
<1> QED BY <1>1, <1>5, <1>6

\* Every step of the command keeps the metrics file acceptable.
LEMMA BatchTypesNext ==
  RunTypes /\ MetricsInv /\ BatchTypes /\ [RunnerNext]_allvars => BatchTypes'
<1> SUFFICES ASSUME RunTypes, MetricsInv, BatchTypes, [RunnerNext]_allvars
             PROVE  BatchTypes'
  OBVIOUS
<1>1. CASE StartBatch
  <2>1. batches' \in 0..MaxBatches
    BY <1>1, RunnerBoundsAssumption DEF StartBatch, BatchTypes
  <2>2. phase' \in {"loop", "failed"} /\ (phase' = "loop" => Len(scenarios') >= 6)
    BY <1>1 DEF StartBatch, Loadable
  <2>3. report' = report /\ surprises' = surprises
    BY <1>1 DEF StartBatch
  <2> QED BY <2>1, <2>2, <2>3 DEF BatchTypes
<1>2. CASE InvokeScenario
  BY <1>2 DEF InvokeScenario, BatchTypes, batch
<1>3. CASE Superstep
  <2>1. surprises' \in 0..MaxSurprises
    BY <1>3, RunnerBoundsAssumption DEF Superstep, BatchTypes
  <2>2. UNCHANGED <<phase, scenarios, report, batches>>
    BY <1>3 DEF Superstep, batch
  <2> QED BY <2>1, <2>2 DEF BatchTypes
<1>4. CASE Measure
  BY <1>4 DEF Measure, BatchTypes
<1>5. CASE Abort
  BY <1>5 DEF Abort, BatchTypes, vars, ghosts
<1>6. CASE WriteReport
  <2>1. UNCHANGED <<batches, surprises>> /\ phase' = "written"
    BY <1>6 DEF WriteReport, vars, ghosts
  <2>2. \E r \in MetricsReport : report' = <<r>> /\ validate_metrics(r)
    BY <1>6, ReportTyped
  <2> QED BY <2>1, <2>2 DEF BatchTypes
<1>7. CASE UNCHANGED allvars
  BY <1>7 DEF BatchTypes, allvars, batch, ghosts
<1> QED BY <1>1, <1>2, <1>3, <1>4, <1>5, <1>6, <1>7 DEF RunnerNext

\* The types of the batch hold in every reachable state of the command.
LEMMA BatchTypesInvariant == RunnerSpec => []BatchTypes
BY BatchTypesInit, BatchTypesNext, RunnerInvariant, PTL DEF RunnerSpec

\* Whatever the scenario file and the models, the batch is well typed, and every
\* metrics file it writes is one that validate-metrics accepts (cli.py:92).
THEOREM RunnerTypeCorrect == RunnerSpec => []RunnerTypeOK
<1>1. RunTypes /\ MetricsInv /\ BatchTypes => RunnerTypeOK
  <2> SUFFICES ASSUME RunTypes, MetricsInv, BatchTypes PROVE RunnerTypeOK
    OBVIOUS
  <2>1. \A id \in Ids : Len(threads[id]) <= 1
    <3> SUFFICES ASSUME NEW id \in Ids PROVE Len(threads[id]) <= 1
      OBVIOUS
    <3>1. threads[id] = <<>> \/ \E lists \in Lists : threads[id] = <<lists>>
      BY DEF RunTypes, Threads
    <3>2. \A lists \in Lists : Len(<<lists>>) = 1
      OBVIOUS
    <3>3. Len(<<>>) = 0
      OBVIOUS
    <3>4. Len(threads[id]) = 0 \/ Len(threads[id]) = 1
      BY <3>1, <3>2, <3>3, Zenon
    <3>5. \A k : k = 0 \/ k = 1 => k <= 1
      OBVIOUS
    <3> QED BY <3>4, <3>5, Zenon
  <2>2. \A i \in DOMAIN report : report[i] \in MetricsReport /\ validate_metrics(report[i])
    <3>1. report = <<>> \/ \E r \in MetricsReport : report = <<r>> /\ validate_metrics(r)
      BY DEF BatchTypes
    <3>2. CASE report = <<>>
      BY <3>2
    <3>3. CASE \E r \in MetricsReport : report = <<r>> /\ validate_metrics(r)
      <4>1. PICK r \in MetricsReport : report = <<r>> /\ validate_metrics(r)
        BY <3>3
      <4>2. DOMAIN report = {1} /\ report[1] = r
        BY <4>1
      <4> QED BY <4>1, <4>2
    <3> QED BY <3>1, <3>2, <3>3
  <2> QED BY <2>1, <2>2 DEF RunTypes, MetricsInv, BatchTypes, RunnerTypeOK
<1> QED BY <1>1, RunnerInvariant, BatchTypesInvariant, PTL

-------------------------------------------------------------------------------
(* Runs and totals *)

\* The inductive invariant of an invocation on a new thread: its audit trail has
\* an approval exactly when it carries a decision.
OwnRun ==
  /\ node \in BeforeTheLoop => state.approval = None
  /\ Cardinality(Visits("approval")) = IF state.approval = None THEN 0 ELSE 1

\* The inductive invariant of a batch on new threads: those of the scenarios to
\* come are still new, and the run in progress is one of its own.
FreshInv ==
  fresh /\ phase = "loop" =>
    /\ IsInjective([i \in DOMAIN scenarios |-> scenarios[i].id])
    /\ \A i \in DOMAIN scenarios :
         i > Len(metrics) => threads[scenarios[i].id] = <<>>
    /\ status # "idle" => OwnRun

\* Visits of node n that no metric has counted yet.
InProgress(n) == IF status = "idle" THEN 0 ELSE Cardinality(Visits(n))

\* The scenarios with a decision.
Observed == {i \in DOMAIN metrics : metrics[i].approval_observed}

\* The inductive invariant of the totals on any threads: what was measured and
\* what is in progress add up to the steps taken in this batch and those its
\* invocations found.
Tally ==
  /\ total_retries(metrics) + InProgress("retry") = visits["retry"] + carried["retry"]
  /\ total_interrupts(metrics) + InProgress("approval")
       = visits["approval"] + carried["approval"]

TallyInv == phase \in {"loop", "written"} => Tally

\* The inductive invariant of the totals on new threads: nothing was found, and
\* each approval is that of another scenario.
FreshTally ==
  /\ carried["retry"] = 0 /\ carried["approval"] = 0
  /\ total_interrupts(metrics) = Cardinality(Observed)

FreshTallyInv == fresh /\ phase \in {"loop", "written"} => FreshTally

\* The inductive invariant of the escalations, on any threads: who is at the dead
\* letter has retried, who left it is marked, and a measured escalation is listed.
EscalatedInv ==
  /\ status # "idle" /\ (node = "dead_letter" \/ state.final_answer = "escalated") =>
       Visits("retry") # {}
  /\ status # "idle" /\ state.final_answer = "escalated" =>
       names_dead_letter(state.errors)
  /\ \A i \in DOMAIN endings : endings[i].reply = "escalated" =>
       metrics[i].retry_count >= 1 /\ metrics[i].dead_lettered

\* A written report is that of the metrics, and nothing is in progress.
WrittenInv ==
  phase = "written" =>
    /\ status = "idle"
    /\ \E resume \in BOOLEAN : report = <<summarize_metrics(metrics, resume)>>

\* What a super-step adds to the number of visits.
LEMMA VisitsCounted ==
  ASSUME TypeOK, NEW n \in NodeNames, NEW type \in EventTypes,
         state'.events = Append(state.events, make_event(n, type))
  PROVE  \A m \in NodeNames :
           /\ Cardinality(Visits(m)) \in Nat
           /\ Cardinality(Visits(m))' =
                IF m = n THEN Cardinality(Visits(m)) + 1 ELSE Cardinality(Visits(m))
<1> SUFFICES ASSUME NEW m \in NodeNames
             PROVE  /\ Cardinality(Visits(m)) \in Nat
                    /\ Cardinality(Visits(m))' =
                         IF m = n THEN Cardinality(Visits(m)) + 1
                         ELSE Cardinality(Visits(m))
  OBVIOUS
<1>1. state.events \in Seq(LabEvent)
  BY FieldTypes DEF TypeOK
<1>2. Len(state.events) \in Nat /\ DOMAIN state.events = 1..Len(state.events)
  BY <1>1
<1>3. Visits(m) \in SUBSET (1..Len(state.events))
  BY <1>2 DEF Visits
<1>4. IsFiniteSet(Visits(m))
  <2>1. IsFiniteSet(1..Len(state.events))
    BY <1>2, FS_Interval
  <2> QED BY <1>3, <2>1, FS_Subset
<1>5. Len(state.events) + 1 \notin Visits(m)
  BY <1>2, <1>3
<1>6. Cardinality(Visits(m) \cup {Len(state.events) + 1}) = Cardinality(Visits(m)) + 1
  BY <1>4, <1>5, FS_AddElement
<1>7. Cardinality(Visits(m)) \in Nat
  BY <1>4, FS_CardinalityType
<1>8. Visits(m)' = IF m = n THEN Visits(m) \cup {Len(state.events) + 1} ELSE Visits(m)
  BY VisitsGrow
<1> QED BY <1>6, <1>7, <1>8

\* An invocation on a new thread starts with nothing on record.
LEMMA OwnStart ==
  ASSUME NEW query, NEW budget, state' = initial_state(query, budget), node' = "intake"
  PROVE  /\ OwnRun'
         /\ \A n : CountOf(state', n) = 0
<1>1. state'.approval = None /\ state'.events = <<>>
  BY DEF initial_state
<1>2. DOMAIN state'.events = {}
  BY <1>1
<1>3. \A n : Visits(n)' = {} /\ {i \in DOMAIN state'.events : state'.events[i].node = n} = {}
  BY <1>2 DEF Visits
<1>4. \A n : Cardinality(Visits(n))' = 0 /\ CountOf(state', n) = 0
  BY <1>3, FS_EmptySet DEF CountOf
<1> QED BY <1>1, <1>4 DEF OwnRun

\* A super-step keeps record and decision in agreement.
LEMMA OwnNext ==
  ASSUME TypeOK, OwnRun, Engine
  PROVE  OwnRun'
<1>1. CASE MockApproval
  <2>1. /\ node = "approval" /\ node' \in {"tool", "clarify"}
        /\ state'.approval # None
        /\ state'.events = Append(state.events, make_event("approval", state'.approval))
        /\ state'.approval \in EventTypes
    BY <1>1, MockApprovalStep, RouterTypes DEF Ran, Decided, EventTypes, None
  <2>2. Cardinality(Visits("approval"))' = Cardinality(Visits("approval")) + 1
    BY <2>1, VisitsCounted DEF NodeNames
  <2>3. Cardinality(Visits("approval")) = 0
    BY <2>1 DEF OwnRun, BeforeTheLoop
  <2> QED BY <2>1, <2>2, <2>3 DEF OwnRun, BeforeTheLoop
<1>2. CASE Interrupt \/ RaiseRecursionError
  <2>1. UNCHANGED <<state, node>>
    BY <1>2, IdleStep
  <2> QED BY <2>1 DEF OwnRun, Visits
<1>3. CASE Intake \/ Classify \/ Tool \/ Evaluate \/ RiskyAction \/ Answer \/ Clarify
             \/ DeadLetter \/ Finalize \/ Retry
  <2>1. PICK n \in NodeNames \ {"approval"}, type \in EventTypes :
          /\ state'.events = Append(state.events, make_event(n, type))
          /\ state'.approval = state.approval
          /\ node' \in BeforeTheLoop => node \in BeforeTheLoop
    BY <1>3, IntakeStep, ClassifyStep, ToolStep, EvaluateStep, RiskyActionStep,
       AnswerStep, ClarifyStep, DeadLetterStep, FinalizeStep, RetryStep, RouterTypes
       DEF Ran, SameDecision, NodeNames, BeforeTheLoop
  <2>2. Cardinality(Visits("approval"))' = Cardinality(Visits("approval"))
    BY <2>1, VisitsCounted DEF NodeNames
  <2> QED BY <2>1, <2>2 DEF OwnRun
<1> QED BY <1>1, <1>2, <1>3 DEF Engine

-------------------------------------------------------------------------------
(* The totals of a batch *)

\* The command starts without a batch.
LEMMA FreshInit == RunnerInit => FreshInv
BY DEF RunnerInit, FreshInv

\* The scenario that is run next, or is running.
LEMMA CurrentScenario ==
  ASSUME RunTypes, MetricsInv, Position <= Len(scenarios)
  PROVE  /\ Position \in DOMAIN scenarios /\ Position = Len(metrics) + 1
         /\ Len(metrics) \in Nat
         /\ Current \in Scenario /\ Current = scenarios[Position]
<1>1. scenarios \in Seq(Scenario) /\ metrics \in Seq(Metric)
  BY DEF RunTypes, MetricsInv
<1>2. Len(metrics) \in Nat /\ Position = Len(metrics) + 1
  BY <1>1 DEF Position
<1>3. Position \in DOMAIN scenarios
  BY <1>1, <1>2
<1> QED BY <1>1, <1>2, <1>3 DEF Current

\* A scenario of a fresh batch starts from its initial state.
LEMMA FreshInvocation ==
  ASSUME RunTypes, MetricsInv, FreshInv, fresh, InvokeScenario
  PROVE  /\ state' = initial_state(Current.query, Current.max_attempts)
         /\ node' = "intake"
<1>1. /\ phase = "loop" /\ Position <= Len(scenarios)
      /\ state' = input_state(Current, threads) /\ node' = "intake"
  BY DEF InvokeScenario
<1>2. /\ Position \in DOMAIN scenarios /\ Position > Len(metrics)
      /\ Current = scenarios[Position]
  BY <1>1, CurrentScenario
<1>3. threads[Current.id] = <<>>
  BY <1>1, <1>2 DEF FreshInv
<1> QED BY <1>1, <1>3 DEF input_state

\* Every step keeps the scenarios to come on new threads.
LEMMA FreshNext ==
  RunTypes /\ RunInv /\ MetricsInv /\ FreshInv /\ [RunnerNext]_allvars => FreshInv'
<1> SUFFICES ASSUME RunTypes, RunInv, MetricsInv, FreshInv, [RunnerNext]_allvars,
                    fresh', phase' = "loop"
             PROVE  /\ IsInjective([i \in DOMAIN scenarios |-> scenarios[i].id])'
                    /\ (\A i \in DOMAIN scenarios :
                          i > Len(metrics) => threads[scenarios[i].id] = <<>>)'
                    /\ status' # "idle" => OwnRun'
  BY DEF FreshInv
<1>1. CASE StartBatch
  <2>1. PICK file \in Files :
          /\ scenarios' = IF Loadable(file) THEN file.scenarios ELSE <<>>
          /\ phase' = IF Loadable(file) THEN "loop" ELSE "failed"
          /\ fresh' = Fresh(file, threads')
    BY <1>1 DEF StartBatch
  <2>2. scenarios' = file.scenarios /\ Fresh(file, threads') /\ status' = "idle"
    <3>1. Loadable(file)
      BY <2>1
    <3>2. fresh'
      OBVIOUS
    <3>3. Fresh(file, threads')
      BY <2>1, <3>2, Zenon
    <3> QED BY <1>1, <2>1, <3>1, <3>3 DEF StartBatch
  <2> QED BY <2>2 DEF Fresh
<1>2. CASE InvokeScenario
  <2>1. UNCHANGED <<phase, scenarios, metrics, threads>> /\ phase = "loop"
    BY <1>2 DEF InvokeScenario, batch
  <2>2. fresh' = fresh
    BY <1>2 DEF InvokeScenario
  <2>3. fresh
    BY <2>2, Zenon
  <2>4. OwnRun'
    BY <1>2, <2>3, FreshInvocation, OwnStart
  <2> QED BY <2>1, <2>3, <2>4 DEF FreshInv
<1>3. CASE Superstep
  <2>1. UNCHANGED <<phase, scenarios, metrics, threads>> /\ phase = "loop" /\ Engine
    BY <1>3 DEF Superstep, batch
  <2>2. fresh' = fresh
    BY <1>3 DEF Superstep
  <2>3. fresh
    BY <2>2, Zenon
  <2>4. status # "idle" /\ TypeOK /\ OwnRun
    BY <2>1, <2>3, EngineRuns, WorkflowTyped DEF FreshInv
  <2>5. OwnRun'
    BY <2>1, <2>4, OwnNext
  <2> QED BY <2>1, <2>3, <2>5 DEF FreshInv
<1>4. CASE Measure
  <2>1. /\ UNCHANGED <<phase, scenarios>> /\ phase = "loop" /\ status' = "idle"
        /\ metrics' = Append(metrics, metric_from_state(state, Current))
        /\ threads' = Saved /\ status # "idle"
    BY <1>4 DEF Measure, Measurable
  <2>2. fresh' = fresh
    BY <1>4 DEF Measure
  <2>3. fresh
    BY <2>2, Zenon
  <2>4. Position <= Len(scenarios)
    BY <2>1 DEF MetricsInv
  <2>5. /\ Position \in DOMAIN scenarios /\ Position = Len(metrics) + 1
        /\ Len(metrics) \in Nat /\ Current = scenarios[Position]
    BY <2>4, CurrentScenario
  <2>6. Len(metrics') = Len(metrics) + 1
    <3>1. metrics \in Seq(Metric)
      BY DEF MetricsInv
    <3> QED BY <2>1, <3>1
  <2>7. \A i \in DOMAIN scenarios : i > Len(metrics) + 1 => threads'[scenarios[i].id] = <<>>
    <3> SUFFICES ASSUME NEW i \in DOMAIN scenarios, i > Len(metrics) + 1
                 PROVE  threads'[scenarios[i].id] = <<>>
      OBVIOUS
    <3>1. i # Position /\ i \in Nat
      <4>1. scenarios \in Seq(Scenario)
        BY DEF RunTypes
      <4> QED BY <2>5, <4>1
    <3>2. scenarios[i].id # Current.id
      <4>1. IsInjective([k \in DOMAIN scenarios |-> scenarios[k].id])
        BY <2>1, <2>3 DEF FreshInv
      <4> QED BY <2>5, <3>1, <4>1 DEF IsInjective
    <3>3. threads[scenarios[i].id] = <<>>
      <4>1. i > Len(metrics)
        BY <2>5, <3>1
      <4> QED BY <2>1, <2>3, <4>1 DEF FreshInv
    <3>4. threads'[scenarios[i].id] = threads[scenarios[i].id]
      <4>1. threads \in [Ids -> Threads] /\ scenarios \in Seq(Scenario)
        BY DEF RunTypes
      <4>2. scenarios[i].id \in Ids
        <5>1. scenarios[i] \in Scenario
          BY <4>1
        <5> QED BY <5>1 DEF Scenario
      <4> QED BY <2>1, <3>2, <4>1, <4>2 DEF Saved
    <3> QED BY <3>3, <3>4
  <2> QED BY <2>1, <2>3, <2>6, <2>7 DEF FreshInv
<1>5. CASE Abort \/ WriteReport
  BY <1>5 DEF Abort, WriteReport
<1>6. CASE UNCHANGED allvars
  <2>1. UNCHANGED <<state, node, status, phase, scenarios, metrics, threads>>
    BY <1>6 DEF allvars, vars, batch
  <2>2. fresh' = fresh
    BY <1>6 DEF allvars, ghosts
  <2>3. fresh
    BY <2>2, Zenon
  <2> QED BY <2>1, <2>3 DEF FreshInv, OwnRun, Visits
<1> QED BY <1>1, <1>2, <1>3, <1>4, <1>5, <1>6 DEF RunnerNext

\* visits counts the steps of the two nodes as the audit trail does.
LEMMA VisitsTallied ==
  ASSUME RunTypes, TypeOK, Superstep
  PROVE  \A n \in {"retry", "approval"} :
           /\ Cardinality(Visits(n)) \in Nat /\ Cardinality(Visits(n))' \in Nat
           /\ visits[n] \in Nat /\ visits'[n] \in Nat
           /\ visits'[n] - visits[n] = Cardinality(Visits(n))' - Cardinality(Visits(n))
<1> SUFFICES ASSUME NEW n \in {"retry", "approval"}
             PROVE  /\ Cardinality(Visits(n)) \in Nat /\ Cardinality(Visits(n))' \in Nat
                    /\ visits[n] \in Nat /\ visits'[n] \in Nat
                    /\ visits'[n] - visits[n]
                         = Cardinality(Visits(n))' - Cardinality(Visits(n))
  OBVIOUS
<1>0. /\ n \in NodeNames /\ Engine
      /\ visits[n] \in Nat /\ DOMAIN visits = {"retry", "approval"}
      /\ visits' = IF node \in DOMAIN visits /\ superstep' # superstep
                   THEN [visits EXCEPT ![node] = @ + 1] ELSE visits
  BY DEF Superstep, RunTypes, NodeNames
<1>1. Cardinality(Visits(n)) \in Nat
  <2>1. state.events \in Seq(LabEvent)
    BY FieldTypes DEF TypeOK
  <2>2. Visits(n) \in SUBSET (1..Len(state.events)) /\ Len(state.events) \in Nat
    BY <2>1 DEF Visits
  <2>3. IsFiniteSet(1..Len(state.events))
    BY <2>2, FS_Interval
  <2> QED BY <2>2, <2>3, FS_Subset, FS_CardinalityType
<1>2. CASE Interrupt \/ RaiseRecursionError
  <2>1. UNCHANGED <<state, superstep>>
    BY <1>2, IdleStep
  <2>2. Visits(n)' = Visits(n) /\ visits' = visits
    BY <1>0, <2>1 DEF Visits
  <2> QED BY <1>0, <1>1, <2>2
<1>3. CASE ~(Interrupt \/ RaiseRecursionError)
  <2>1. PICK m \in NodeNames, type \in EventTypes :
          /\ node = m /\ superstep' = superstep + 1
          /\ state'.events = Append(state.events, make_event(m, type))
    BY <1>0, <1>3, IntakeStep, ClassifyStep, ToolStep, EvaluateStep, AnswerStep,
       ClarifyStep, RiskyActionStep, MockApprovalStep, RetryStep, DeadLetterStep,
       FinalizeStep DEF Engine, Ran, NodeNames
  <2>2. superstep' # superstep
    BY <2>1 DEF TypeOK
  <2>3. Cardinality(Visits(n))' = IF n = m THEN Cardinality(Visits(n)) + 1
                                  ELSE Cardinality(Visits(n))
    BY <1>0, <2>1, VisitsCounted
  <2>4. visits'[n] = IF n = m THEN visits[n] + 1 ELSE visits[n]
    BY <1>0, <2>1, <2>2
  <2> QED BY <1>0, <1>1, <2>3, <2>4
<1> QED BY <1>2, <1>3

\* Measuring a run moves it from what is in progress to what was measured.
LEMMA MeasureKeepsTally ==
  ASSUME RunTypes, MetricsInv, Measure, Tally
  PROVE  /\ Tally'
         /\ OwnRun /\ FreshTally => FreshTally'
<1> DEFINE m == metric_from_state(state, Current)
<1>1. /\ phase = "loop" /\ status \in {"done", "interrupted"} /\ status' = "idle"
      /\ metrics' = Append(metrics, m)
      /\ visits' = visits /\ carried' = carried
  BY DEF Measure, Measurable
<1>2. m \in Metric
  <2>1. Current \in Scenario
    BY <1>1, CurrentScenario DEF MetricsInv
  <2> QED BY <2>1, MetricTyped DEF RunTypes
<1>3. /\ m.retry_count = Cardinality(Visits("retry"))
      /\ m.interrupt_count = Cardinality(Visits("approval"))
      /\ m.approval_observed <=> state.approval # None
  BY DEF metric_from_state, CountOf, Visits
<1> HIDE DEF m
<1>4. metrics \in Seq(Metric) /\ Len(metrics) \in Nat
  BY DEF MetricsInv
<1>5. /\ total_retries(metrics) + Cardinality(Visits("retry"))
           = visits["retry"] + carried["retry"]
      /\ total_interrupts(metrics) + Cardinality(Visits("approval"))
           = visits["approval"] + carried["approval"]
  BY <1>1 DEF Tally, InProgress
<1>6. InProgress("retry")' = 0 /\ InProgress("approval")' = 0
  BY <1>1 DEF InProgress
<1>7. /\ total_retries(metrics') = total_retries(metrics) + m.retry_count
      /\ total_retries(metrics) \in Nat /\ m.retry_count \in Nat
  BY <1>1, <1>2, <1>4, RetriesAppend DEF Metric
<1>8. /\ total_interrupts(metrics') = total_interrupts(metrics) + m.interrupt_count
      /\ total_interrupts(metrics) \in Nat /\ m.interrupt_count \in Nat
  BY <1>1, <1>2, <1>4, InterruptsAppend DEF Metric
<1>9. Tally'
  BY <1>1, <1>3, <1>5, <1>6, <1>7, <1>8 DEF Tally
<1>10. ASSUME OwnRun, FreshTally PROVE FreshTally'
  <2>1. m.interrupt_count = IF m.approval_observed THEN 1 ELSE 0
    BY <1>3, <1>10 DEF OwnRun
  <2>2. /\ DOMAIN metrics' = DOMAIN metrics \cup {Len(metrics) + 1}
        /\ Len(metrics) + 1 \notin DOMAIN metrics
        /\ \A i \in DOMAIN metrics : metrics'[i] = metrics[i]
        /\ metrics'[Len(metrics) + 1] = m
    BY <1>1, <1>2, <1>4
  <2>3. Observed' = IF m.approval_observed THEN Observed \cup {Len(metrics) + 1}
                    ELSE Observed
    BY <2>2 DEF Observed
  <2>4. IsFiniteSet(Observed) /\ Len(metrics) + 1 \notin Observed
    <3>1. IsFiniteSet(1..Len(metrics)) /\ DOMAIN metrics = 1..Len(metrics)
      BY <1>4, FS_Interval
    <3> QED BY <2>2, <3>1, FS_Subset DEF Observed
  <2>5. Cardinality(Observed') = IF m.approval_observed THEN Cardinality(Observed) + 1
                                 ELSE Cardinality(Observed)
    BY <2>3, <2>4, FS_AddElement
  <2>6. total_interrupts(metrics') = Cardinality(Observed')
    BY <1>8, <1>10, <2>1, <2>5 DEF FreshTally
  <2> QED BY <1>1, <1>10, <2>6 DEF FreshTally
<1> QED BY <1>9, <1>10

\* Nothing adds up to nothing.
LEMMA EmptyTotals == total_retries(<<>>) = 0 /\ total_interrupts(<<>>) = 0
<1>1. <<>> \in Seq(Metric) /\ 1..Len(<<>>) = {}
  OBVIOUS
<1>2. \A c : Cardinality(Units(c, {})) = 0
  BY FS_EmptySet DEF Units
<1> QED BY <1>1, <1>2, RetriesAreCounted, InterruptsAreCounted

\* What a started batch has counted.
LEMMA NothingCounted == StartBatch => Tally' /\ FreshTally'
<1> SUFFICES ASSUME StartBatch PROVE Tally' /\ FreshTally'
  OBVIOUS
<1>1. /\ metrics' = <<>> /\ visits' = NoVisits /\ carried' = NoVisits
      /\ status' = "idle"
  BY DEF StartBatch
<1>2. Cardinality(Observed') = 0
  <2>1. Observed' = {}
    BY <1>1 DEF Observed
  <2> QED BY <2>1, FS_EmptySet
<1>3. InProgress("retry")' = 0 /\ InProgress("approval")' = 0
  BY <1>1 DEF InProgress
<1>4. /\ visits'["retry"] = 0 /\ visits'["approval"] = 0
      /\ carried'["retry"] = 0 /\ carried'["approval"] = 0
  BY <1>1 DEF NoVisits
<1>5. total_retries(metrics') = 0 /\ total_interrupts(metrics') = 0
  BY <1>1, EmptyTotals
<1> QED BY <1>2, <1>3, <1>4, <1>5 DEF Tally, FreshTally

\* Every step keeps the totals, measured and in progress, on any threads.
LEMMA TallyNext ==
  RunTypes /\ RunTypes' /\ MetricsInv /\ TallyInv /\ [RunnerNext]_allvars => TallyInv'
<1> SUFFICES ASSUME RunTypes, RunTypes', MetricsInv, TallyInv, [RunnerNext]_allvars,
                    phase' \in {"loop", "written"}
             PROVE  Tally'
  BY DEF TallyInv
<1>0. total_retries(metrics) \in Nat /\ total_interrupts(metrics) \in Nat
  BY RetriesTyped, InterruptsTyped DEF MetricsInv
<1>1. CASE StartBatch
  BY <1>1, NothingCounted
<1>2. CASE InvokeScenario
  <2>1. /\ UNCHANGED <<metrics, visits, phase>> /\ phase = "loop"
        /\ status = "idle" /\ status' # "idle"
        /\ carried' = [n \in DOMAIN carried |-> carried[n] + CountOf(state', n)]
    BY <1>2 DEF InvokeScenario, batch
  <2>2. Tally
    BY <2>1 DEF TallyInv
  <2>3. ASSUME NEW n \in {"retry", "approval"}, NEW total \in Nat,
               total + InProgress(n) = visits[n] + carried[n]
        PROVE  total + InProgress(n)' = visits[n] + carried'[n]
    <3>1. InProgress(n) = 0 /\ InProgress(n)' = CountOf(state', n)
      BY <2>1 DEF InProgress, Visits, CountOf
    <3>2. /\ carried[n] \in Nat /\ visits[n] \in Nat
          /\ carried'[n] = carried[n] + CountOf(state', n)
      BY <2>1 DEF RunTypes
    <3>3. CountOf(state', n) \in Nat
      BY CountTyped DEF RunTypes
    <3> QED BY <2>3, <3>1, <3>2, <3>3
  <2>4. /\ total_retries(metrics) + InProgress("retry")' = visits["retry"] + carried'["retry"]
        /\ total_interrupts(metrics) + InProgress("approval")'
             = visits["approval"] + carried'["approval"]
    BY <1>0, <2>2, <2>3 DEF Tally
  <2> QED BY <2>1, <2>4 DEF Tally
<1>3. CASE Superstep
  <2>1. UNCHANGED <<metrics, carried, phase>> /\ phase = "loop" /\ Engine
    BY <1>3 DEF Superstep, batch
  <2>2. Tally
    BY <2>1 DEF TallyInv
  <2>3. status = "running" /\ TypeOK
    BY <2>1, EngineRuns, WorkflowTyped
  <2>4. status' # "idle"
    BY <2>1, <2>3, EngineStep
  <2>5. ASSUME NEW n \in {"retry", "approval"}, NEW total \in Nat,
               total + InProgress(n) = visits[n] + carried[n]
        PROVE  total + InProgress(n)' = visits'[n] + carried[n]
    <3>1. /\ InProgress(n) = Cardinality(Visits(n))
          /\ InProgress(n)' = Cardinality(Visits(n))'
      BY <2>3, <2>4 DEF InProgress
    <3>2. /\ Cardinality(Visits(n)) \in Nat
          /\ Cardinality(Visits(n))' \in Nat
          /\ visits[n] \in Nat /\ visits'[n] \in Nat
          /\ visits'[n] - visits[n] = Cardinality(Visits(n))' - Cardinality(Visits(n))
      BY <1>3, <2>3, VisitsTallied
    <3>3. carried[n] \in Nat
      BY DEF RunTypes
    <3> QED BY <2>5, <3>1, <3>2, <3>3
  <2>6. /\ total_retries(metrics) + InProgress("retry")' = visits'["retry"] + carried["retry"]
        /\ total_interrupts(metrics) + InProgress("approval")'
             = visits'["approval"] + carried["approval"]
    BY <1>0, <2>2, <2>5 DEF Tally
  <2> QED BY <2>1, <2>6 DEF Tally
<1>4. CASE Measure
  <2>1. Tally
    BY <1>4 DEF Measure, TallyInv
  <2> QED BY <1>4, <2>1, MeasureKeepsTally
<1>5. CASE Abort
  BY <1>5 DEF Abort
<1>6. CASE WriteReport \/ UNCHANGED allvars
  <2>1. /\ UNCHANGED <<state, status, metrics, visits, carried>>
        /\ phase \in {"loop", "written"}
    BY <1>6 DEF WriteReport, allvars, vars, batch, ghosts
  <2>2. Tally
    BY <2>1 DEF TallyInv
  <2>3. \A n : InProgress(n)' = InProgress(n)
    BY <2>1 DEF InProgress, Visits
  <2> QED BY <2>1, <2>2, <2>3 DEF Tally
<1> QED BY <1>1, <1>2, <1>3, <1>4, <1>5, <1>6 DEF RunnerNext

\* Every step keeps what new threads add to the totals.
LEMMA FreshTallyNext ==
  RunTypes /\ MetricsInv /\ FreshInv /\ TallyInv /\ FreshTallyInv
    /\ [RunnerNext]_allvars => FreshTallyInv'
<1> SUFFICES ASSUME RunTypes, MetricsInv, FreshInv, TallyInv, FreshTallyInv,
                    [RunnerNext]_allvars, fresh', phase' \in {"loop", "written"}
             PROVE  FreshTally'
  BY DEF FreshTallyInv
<1>1. CASE StartBatch
  BY <1>1, NothingCounted
<1>2. CASE ~StartBatch
  <2>1. fresh' = fresh /\ (phase \in {"loop", "written"} \/ Abort)
    BY <1>2 DEF RunnerNext, InvokeScenario, Superstep, Measure, Abort, WriteReport,
                allvars, batch, ghosts
  <2>2. phase \in {"loop", "written"}
    <3>1. Abort => phase' = "failed"
      BY DEF Abort
    <3> QED BY <2>1, <3>1
  <2>3. fresh
    BY <2>1, Zenon
  <2>4. FreshTally
    BY <2>2, <2>3 DEF FreshTallyInv
  <2>5. CASE InvokeScenario
    <3>1. /\ metrics' = metrics
          /\ carried' = [n \in DOMAIN carried |-> carried[n] + CountOf(state', n)]
      BY <2>5 DEF InvokeScenario, batch
    <3>2. \A n : CountOf(state', n) = 0
      BY <2>3, <2>5, FreshInvocation, OwnStart
    <3>3. carried'["retry"] = 0 /\ carried'["approval"] = 0
      BY <2>4, <3>1, <3>2 DEF FreshTally, RunTypes
    <3> QED BY <2>4, <3>1, <3>3 DEF FreshTally, Observed
  <2>6. CASE Measure
    <3>1. phase = "loop" /\ status # "idle"
      BY <2>6 DEF Measure, Measurable
    <3>2. Tally /\ OwnRun
      BY <2>3, <3>1 DEF TallyInv, FreshInv
    <3> QED BY <2>4, <2>6, <3>2, MeasureKeepsTally
  <2>7. CASE Superstep \/ Abort \/ WriteReport \/ UNCHANGED allvars
    <3>1. UNCHANGED <<metrics, carried>>
      BY <2>7 DEF Superstep, Abort, WriteReport, allvars, batch, ghosts
    <3> QED BY <2>4, <3>1 DEF FreshTally, Observed
  <2> QED BY <1>2, <2>5, <2>6, <2>7 DEF RunnerNext
<1> QED BY <1>1, <1>2

\* Every step keeps the report of a written batch that of its metrics.
LEMMA WrittenNext == WrittenInv /\ [RunnerNext]_allvars => WrittenInv'
<1> SUFFICES ASSUME WrittenInv, [RunnerNext]_allvars, phase' = "written"
             PROVE  /\ status' = "idle"
                    /\ \E resume \in BOOLEAN :
                         report' = <<summarize_metrics(metrics', resume)>>
  BY DEF WrittenInv
<1>1. CASE WriteReport
  <2>1. (kind # "none" /\ verify_resume(Last(scenarios).id)) \in BOOLEAN
    BY DEF verify_resume
  <2> QED BY <1>1, <2>1 DEF WriteReport, vars
<1>2. CASE StartBatch \/ InvokeScenario \/ Superstep \/ Measure \/ Abort
  <2>1. phase' # "written"
    BY <1>2 DEF StartBatch, InvokeScenario, Superstep, Measure, Abort, batch
  <2> QED BY <2>1
<1>3. CASE UNCHANGED allvars
  BY <1>3 DEF allvars, vars, batch, WrittenInv
<1> QED BY <1>1, <1>2, <1>3 DEF RunnerNext

\* The totals hold in every reachable state of the command.
LEMMA TallyInvariant == RunnerSpec => [](WrittenInv /\ TallyInv /\ FreshTallyInv)
<1>1. RunnerInit => WrittenInv /\ TallyInv /\ FreshTallyInv
  BY DEF RunnerInit, WrittenInv, TallyInv, FreshTallyInv
<1> QED BY <1>1, FreshInit, FreshNext, WrittenNext, TallyNext, FreshTallyNext,
           RunnerInvariant, PTL DEF RunnerSpec

\* What a written report sums up.
LEMMA ReportSums ==
  ASSUME MetricsInv, WrittenInv, TallyInv, Written
  PROVE  /\ report[1].total_retries = visits["retry"] + carried["retry"]
         /\ report[1].total_interrupts = visits["approval"] + carried["approval"]
         /\ report[1].total_interrupts = total_interrupts(metrics)
         /\ report[1].scenario_metrics = metrics
<1>1. PICK resume \in BOOLEAN : report = <<summarize_metrics(metrics, resume)>>
  BY DEF WrittenInv, Written
<1>2. /\ report[1].total_retries = total_retries(metrics)
      /\ report[1].total_interrupts = total_interrupts(metrics)
      /\ report[1].scenario_metrics = metrics
  BY <1>1 DEF summarize_metrics
<1>3. Tally /\ status = "idle"
  BY DEF TallyInv, WrittenInv, Written
<1>4. /\ total_retries(metrics) + 0 = visits["retry"] + carried["retry"]
      /\ total_interrupts(metrics) + 0 = visits["approval"] + carried["approval"]
  BY <1>3 DEF Tally, InProgress
<1>5. total_retries(metrics) \in Nat /\ total_interrupts(metrics) \in Nat
  BY RetriesTyped, InterruptsTyped DEF MetricsInv
<1> QED BY <1>2, <1>4, <1>5

\* Whatever threads the scenarios run on, a report sums up the retries and
\* approvals of its batch and those its threads already held, for every file,
\* every model and every checkpointer (summarize_metrics, metrics.py:45-46).
THEOREM TotalsAreThoseOfTheThreads == RunnerSpec => []TotalsCountTheThreads
<1>1. MetricsInv /\ WrittenInv /\ TallyInv => TotalsCountTheThreads
  BY ReportSums DEF TotalsCountTheThreads
<1> QED BY <1>1, RunnerInvariant, TallyInvariant, PTL

\* On new threads a report tells the retries and decisions of its batch, one
\* approval for each scenario that shows a decision (summarize_metrics,
\* docs/METRICS.md:10-11).  That the threads are new is needed: the run
\* retry_totals starts a second batch on one database.
THEOREM TotalsAddUp == RunnerSpec => []TotalsTellTheBatch
<1>1. RunTypes /\ MetricsInv /\ WrittenInv /\ TallyInv /\ FreshTallyInv =>
        TotalsTellTheBatch
  <2> SUFFICES ASSUME RunTypes, MetricsInv, WrittenInv, TallyInv, FreshTallyInv,
                      Written, fresh
               PROVE  /\ report[1].total_retries = visits["retry"]
                      /\ report[1].total_interrupts = visits["approval"]
                      /\ report[1].total_interrupts = Cardinality(approvals(report[1]))
    BY DEF TotalsTellTheBatch
  <2>1. FreshTally
    BY DEF FreshTallyInv, Written
  <2>2. /\ report[1].total_retries = visits["retry"] + 0
        /\ report[1].total_interrupts = visits["approval"] + 0
        /\ report[1].total_interrupts = total_interrupts(metrics)
        /\ report[1].scenario_metrics = metrics
    BY <2>1, ReportSums DEF FreshTally
  <2>3. approvals(report[1]) = Observed
    BY <2>2 DEF approvals, Observed
  <2>4. visits["retry"] \in Nat /\ visits["approval"] \in Nat
    BY DEF RunTypes
  <2> QED BY <2>1, <2>2, <2>3, <2>4 DEF FreshTally
<1> QED BY <1>1, RunnerInvariant, TallyInvariant, PTL

-------------------------------------------------------------------------------
(* Escalations *)

\* A longer list of errors names a dead letter if the shorter one or the last entry
\* does.
LEMMA NamedAfter ==
  ASSUME NEW errors \in Seq(Errors), NEW entry \in Errors
  PROVE  names_dead_letter(Append(errors, entry)) <=>
           names_dead_letter(errors) \/ entry.named
BY EntriesAfter DEF names_dead_letter

\* Who is at the dead letter has retried, and who was there is marked.
LEMMA EscalatedStep ==
  ASSUME TypeOK, RunInv, status # "idle", EscalatedInv, Engine
  PROVE  /\ node' = "dead_letter" \/ state'.final_answer = "escalated" =>
              Visits("retry")' # {}
         /\ state'.final_answer = "escalated" => names_dead_letter(state'.errors)
<1>0. /\ state.errors \in Seq(Errors) /\ status = "running"
      /\ state.events \in Seq(LabEvent)
  BY EngineRuns, FieldTypes DEF TypeOK
<1>1. CASE Intake \/ Classify \/ Tool \/ Evaluate \/ RiskyAction \/ MockApproval
  <2>1. node' # "dead_letter" /\ node \notin {"finalize", "END"}
    <3>1. CASE Intake \/ Classify \/ Tool \/ Evaluate \/ RiskyAction
      BY <3>1, IntakeStep, ClassifyStep, ToolStep, EvaluateStep, RiskyActionStep,
         RouterTypes DEF Ran
    <3>2. CASE MockApproval
      BY <3>2, MockApprovalStep, RouterTypes DEF Ran, Decided
    <3> QED BY <1>1, <3>1, <3>2
  <2>2. state'.final_answer = None
    BY <1>0, <1>1, <2>1, SilentSteps DEF RunInv, SameReply
  <2> QED BY <2>1, <2>2 DEF None
<1>2. CASE Answer \/ Clarify
  <2>1. node' = "finalize"
    BY <1>2, AnswerStep, ClarifyStep
  <2> QED BY <1>2, <2>1, SpeakingSteps
<1>3. CASE Retry
  <2>1. node = "retry" /\ state'.final_answer = None
    BY <1>0, <1>3, RetryStep, SilentSteps DEF Ran, RunInv, SameReply
  <2>2. PICK type \in EventTypes :
          state'.events = Append(state.events, make_event("retry", type))
    BY <1>3, RetryStep DEF Ran
  <2>3. Visits("retry")' # {}
    BY <2>2, VisitsGrow DEF NodeNames
  <2> QED BY <2>1, <2>3 DEF None
<1>4. CASE DeadLetter
  <2>1. node = "dead_letter" /\ node' = "finalize"
    BY <1>4, DeadLetterStep DEF Ran
  <2>2. PICK type \in EventTypes :
          state'.events = Append(state.events, make_event("dead_letter", type))
    BY <1>4, DeadLetterStep DEF Ran
  <2>3. Visits("retry") # {}
    BY <1>0, <2>1 DEF EscalatedInv
  <2>4. Visits("retry")' # {}
    BY <2>2, <2>3, VisitsGrow DEF NodeNames
  <2>5. names_dead_letter(state'.errors)
    <3>1. state'.errors = Append(state.errors, make_error("dead_letter", TRUE))
      BY <1>4, OtherStepsRecord
    <3>2. make_error("dead_letter", TRUE) \in Errors /\ make_error("dead_letter", TRUE).named
      BY DEF make_error, Errors, ErrorSources
    <3> QED BY <1>0, <3>1, <3>2, NamedAfter
  <2> QED BY <2>4, <2>5
<1>5. CASE Finalize
  <2>1. /\ state'.errors = state.errors /\ state'.final_answer = state.final_answer
        /\ node' = "END"
    BY <1>5, OtherStepsRecord, SilentSteps, FinalizeStep DEF SameReply
  <2>2. PICK type \in EventTypes :
          state'.events = Append(state.events, make_event("finalize", type))
    BY <1>5, FinalizeStep DEF Ran
  <2>3. Visits("retry")' = Visits("retry")
    BY <2>2, VisitsGrow DEF NodeNames
  <2> QED BY <1>0, <2>1, <2>3 DEF EscalatedInv
<1>6. CASE Interrupt \/ RaiseRecursionError
  <2>1. UNCHANGED <<state, node>>
    BY <1>6, IdleStep
  <2> QED BY <1>0, <2>1 DEF EscalatedInv, Visits
<1> QED BY <1>1, <1>2, <1>3, <1>4, <1>5, <1>6 DEF Engine

\* A measured escalation is listed: its audit trail has a retry, and its errors
\* say so.
LEMMA EscalatedMeasured ==
  ASSUME RunTypes, RunInv, MetricsInv, EscalatedInv, Measure
  PROVE  EscalatedInv'
<1> DEFINE m == metric_from_state(state, Current)
<1>1. /\ metrics' = Append(metrics, m) /\ endings' = Append(endings, ending)
      /\ status \in {"done", "interrupted"} /\ status' = "idle"
  BY DEF Measure, Measurable
<1>2. /\ metrics \in Seq(Metric) /\ endings \in Seq(Endings)
      /\ Len(endings) = Len(metrics) /\ Len(metrics) \in Nat
  BY DEF MetricsInv
<1>3. ending \in Endings /\ (ending.reply = "escalated" => state.final_answer = "escalated")
  BY <1>1, EndingTyped
<1>4. ASSUME ending.reply = "escalated" PROVE m.retry_count >= 1 /\ m.dead_lettered
  <2>1. Visits("retry") # {} /\ names_dead_letter(state.errors)
    BY <1>1, <1>3, <1>4 DEF EscalatedInv
  <2>2. m.retry_count = Cardinality(Visits("retry"))
    BY DEF metric_from_state, CountOf, Visits
  <2>3. Cardinality(Visits("retry")) \in Nat /\ Cardinality(Visits("retry")) # 0
    <3>1. state.events \in Seq(LabEvent)
      BY FieldTypes DEF RunTypes
    <3>2. Visits("retry") \in SUBSET (1..Len(state.events)) /\ Len(state.events) \in Nat
      BY <3>1 DEF Visits
    <3>3. IsFiniteSet(1..Len(state.events))
      BY <3>2, FS_Interval
    <3>4. IsFiniteSet(Visits("retry"))
      BY <3>2, <3>3, FS_Subset
    <3> QED BY <2>1, <3>4, FS_CardinalityType, FS_EmptySet
  <2>4. m.dead_lettered
    BY <2>1 DEF metric_from_state
  <2> QED BY <2>2, <2>3, <2>4
<1>5. m \in Metric
  <2>1. Current \in Scenario
    BY CurrentScenario, <1>1 DEF MetricsInv, Measure
  <2> QED BY <2>1, MetricTyped DEF RunTypes
<1> HIDE DEF m
<1>6. /\ DOMAIN endings' = DOMAIN endings \cup {Len(metrics) + 1}
      /\ \A i \in DOMAIN endings : metrics'[i] = metrics[i] /\ endings'[i] = endings[i]
      /\ metrics'[Len(metrics) + 1] = m /\ endings'[Len(metrics) + 1] = ending
  BY <1>1, <1>2, <1>3, <1>5
<1> QED BY <1>1, <1>4, <1>6 DEF EscalatedInv

\* Every step of the command keeps the escalations listed.
LEMMA EscalatedNext ==
  RunTypes /\ RunInv /\ MetricsInv /\ EscalatedInv /\ [RunnerNext]_allvars =>
    EscalatedInv'
<1> SUFFICES ASSUME RunTypes, RunInv, MetricsInv, EscalatedInv, [RunnerNext]_allvars
             PROVE  EscalatedInv'
  OBVIOUS
<1>1. CASE StartBatch
  <2>1. DOMAIN endings' = {} /\ status' = "idle"
    BY <1>1 DEF StartBatch
  <2> QED BY <2>1 DEF EscalatedInv
<1>2. CASE InvokeScenario
  <2>1. Current \in Scenario /\ UNCHANGED <<metrics, endings>>
    BY <1>2, CurrentScenario DEF InvokeScenario, batch
  <2>2. state'.final_answer = None /\ node' = "intake"
    BY <1>2, <2>1, InputTyped DEF InvokeScenario, RunTypes
  <2> QED BY <2>1, <2>2 DEF EscalatedInv, None
<1>3. CASE Superstep
  <2>1. UNCHANGED <<metrics, endings>> /\ Engine
    BY <1>3 DEF Superstep, batch
  <2>2. TypeOK /\ status # "idle"
    BY <2>1, EngineRuns, WorkflowTyped
  <2>3. /\ node' = "dead_letter" \/ state'.final_answer = "escalated" =>
             Visits("retry")' # {}
        /\ state'.final_answer = "escalated" => names_dead_letter(state'.errors)
    BY <2>1, <2>2, EscalatedStep
  <2> QED BY <2>1, <2>3 DEF EscalatedInv
<1>4. CASE Measure
  BY <1>4, EscalatedMeasured
<1>5. CASE Abort \/ WriteReport \/ UNCHANGED allvars
  <2>1. UNCHANGED <<state, node, status, metrics, endings>>
    BY <1>5 DEF Abort, WriteReport, vars, allvars, batch, ghosts
  <2> QED BY <2>1 DEF EscalatedInv, Visits
<1> QED BY <1>1, <1>2, <1>3, <1>4, <1>5 DEF RunnerNext

\* No report leaves an escalation out, on whatever threads and with whatever
\* texts in its errors (_observations, dead_letter_node, retry_or_fallback_node).
THEOREM EscalationsAreListed == RunnerSpec => []EscalationsAreReported
<1>1. RunnerInit => EscalatedInv
  <2> SUFFICES ASSUME RunnerInit PROVE EscalatedInv
    OBVIOUS
  <2>1. DOMAIN endings = {} /\ status = "idle"
    BY DEF RunnerInit
  <2> QED BY <2>1 DEF EscalatedInv
<1>2. MetricsInv /\ WrittenInv /\ TallyInv /\ EscalatedInv => EscalationsAreReported
  <2> SUFFICES ASSUME MetricsInv, WrittenInv, TallyInv, EscalatedInv, Written,
                      NEW i \in DOMAIN endings, endings[i].reply = "escalated"
               PROVE  i \in dead_letters(report[1])
    BY DEF EscalationsAreReported
  <2>1. report[1].scenario_metrics = metrics
    BY ReportSums
  <2>2. i \in DOMAIN metrics
    BY DEF MetricsInv
  <2> QED BY <2>1, <2>2 DEF dead_letters, EscalatedInv
<1> QED BY <1>1, <1>2, EscalatedNext, RunnerInvariant, TallyInvariant, PTL
        DEF RunnerSpec

===============================================================================
