-------------------------------- MODULE Runner --------------------------------
(***************************************************************************)
(* The batch command run-scenarios (cli.py): it loads a scenario file      *)
(* (scenarios.py), runs every scenario through the graph on a thread named *)
(* after it, measures what invoke returned (metrics.py), and writes a      *)
(* report (report.py) when all are done.  An exception of any scenario     *)
(* leaves the command at once.                                             *)
(*                                                                         *)
(* The Workflow is that of the scenario being run.  Of a thread in the     *)
(* store only the lists are kept: every plain field is overwritten by the  *)
(* next input.                                                             *)
(***************************************************************************)
EXTENDS Workflow

CONSTANTS
  Files,          \* The scenario files.
  Ids,            \* The scenario ids that occur in them.
  Kinds,          \* The checkpointers a configuration may ask for.
  MaxBatches,     \* Bound: runs of the command.
  MaxSurprises    \* Bound: model replies that are not what a scenario expects.

Scenario ==
  [id                : Ids,
   query             : SUBSET QueryFacts,
   expected_route    : CLASSIFIABLE_ROUTES,
   requires_approval : BOOLEAN,
   max_attempts      : Int]

\* Every line parses, or one of them does not.
ScenarioFile == [scenarios : Seq(Scenario), malformed : BOOLEAN]

ASSUME FilesAssumption == Files \subseteq ScenarioFile
ASSUME RunnerKindsAssumption ==
  Kinds \subseteq {"none", "memory", "sqlite", "postgres"}
ASSUME RunnerBoundsAssumption == MaxBatches \in Nat /\ MaxSurprises \in Nat

VARIABLES
  kind,         \* The checkpointer of the configuration.
  phase,        \* Where the command is.
  scenarios,    \* The loaded scenarios.
  metrics,      \* The metrics of those that were run.
  threads,      \* The store: per thread id nothing, or the lists of its state.
  report,       \* The metrics file: nothing, or the last report written.
  batches,      \* Runs of the command so far.
  surprises,    \* Replies that were not what the scenario expects.
  fresh,        \* History: this batch runs every scenario on a new thread.
  visits,       \* History: retry and approval steps of this batch.
  carried,      \* History: such steps of earlier runs on the threads of this batch,
                \* counted for each scenario that was invoked on them.
  decided,      \* History: the current invocation passed the approval node.
  endings       \* History: how the invocations of this batch ended.

batch   == <<kind, phase, scenarios, metrics, threads, report, batches>>
ghosts  == <<surprises, fresh, visits, carried, decided, endings>>
allvars == <<vars, batch, ghosts>>

ListsOf(s) ==
  [tool_results |-> s.tool_results, latest_named |-> s.latest_named,
   errors |-> s.errors, events |-> s.events]

Position == Len(metrics) + 1
Current  == scenarios[Position]

-------------------------------------------------------------------------------
(* metrics.py *)

CountOf(s, n) == Cardinality({i \in DOMAIN s.events : s.events[i].node = n})

answered(s) == s.final_answer # None \/ s.pending_question # None

\* any("dead_letter" in e for e in errors), whoever wrote the entry.
names_dead_letter(errors) == \E e \in ToSet(errors) : e.named

\* Mutant: reply and decision are looked up in the audit trail, which still holds
\* the earlier runs of the thread.
metric_from_state_audited(s, scenario) ==
  [success           |-> /\ s.route = scenario.expected_route
                         /\ CountOf(s, "finalize") > 0
                         /\ scenario.requires_approval => CountOf(s, "approval") > 0,
   expected_route    |-> scenario.expected_route,
   actual_route      |-> s.route,
   nodes_visited     |-> Len(s.events),
   retry_count       |-> CountOf(s, "retry"),
   interrupt_count   |-> CountOf(s, "approval"),
   approval_observed |-> s.approval # None,
   dead_lettered     |-> names_dead_letter(s.errors)]

\* Mutant: failed evaluations are counted in place of the retries.
metric_from_state_miscounted(s, scenario) ==
  [success           |-> s.route = scenario.expected_route /\ answered(s),
   expected_route    |-> scenario.expected_route,
   actual_route      |-> s.route,
   nodes_visited     |-> Len(s.events),
   retry_count       |-> CountOf(s, "evaluate"),
   interrupt_count   |-> CountOf(s, "approval"),
   approval_observed |-> s.approval # None,
   dead_lettered     |-> names_dead_letter(s.errors)]

\* latency_ms and scenario_id are left out; of the errors the metric copies, its
\* one reader, the report, looks for the text "dead_letter".
metric_from_state(s, scenario) ==
  [success           |-> /\ s.route = scenario.expected_route
                         /\ answered(s)
                         /\ scenario.requires_approval => s.approval # None,
   expected_route    |-> scenario.expected_route,
   actual_route      |-> s.route,
   nodes_visited     |-> Len(s.events),
   retry_count       |-> CountOf(s, "retry"),
   interrupt_count   |-> CountOf(s, "approval"),
   approval_observed |-> s.approval # None,
   dead_lettered     |-> names_dead_letter(s.errors)]

total_retries(items) == FoldLeft(LAMBDA n, m : n + m.retry_count, 0, items)

total_interrupts(items) ==
  FoldLeft(LAMBDA n, m : n + m.interrupt_count, 0, items)

\* success_rate and the average follow from the items.
summarize_metrics(items, resume) ==
  [total_scenarios  |-> Len(items),
   total_retries    |-> total_retries(items),
   total_interrupts |-> total_interrupts(items),
   resume_success   |-> resume,
   scenario_metrics |-> items]

\* Mutant: a single retry is not taken for an exhausted budget.
dead_letters_repeated(r) ==
  {i \in DOMAIN r.scenario_metrics :
     r.scenario_metrics[i].retry_count > 1 /\ r.scenario_metrics[i].dead_lettered}

\* The scenarios _observations lists as dead letters, as approved or declined, and
\* as failures.
dead_letters(r) ==
  {i \in DOMAIN r.scenario_metrics :
     r.scenario_metrics[i].retry_count >= 1 /\ r.scenario_metrics[i].dead_lettered}

approvals(r) ==
  {i \in DOMAIN r.scenario_metrics : r.scenario_metrics[i].approval_observed}

failures(r) ==
  {i \in DOMAIN r.scenario_metrics : ~r.scenario_metrics[i].success}

-------------------------------------------------------------------------------
(* cli.py and scenarios.py *)

\* What the command validate-metrics asks of a metrics file.
validate_metrics(r) == r.total_scenarios >= 6

\* Mutant: any number of scenarios is accepted.
Loadable_any(file) == ~file.malformed

Loadable(file) == ~file.malformed /\ Len(file.scenarios) >= 6

\* Every scenario of the file has a thread of its own that the store lacks.
Fresh(file, store) ==
  /\ IsInjective([i \in DOMAIN file.scenarios |-> file.scenarios[i].id])
  /\ \A i \in DOMAIN file.scenarios : store[file.scenarios[i].id] = <<>>

NoThreads == [id \in Ids |-> <<>>]
NoVisits  == [retry |-> 0, approval |-> 0]

RunnerInit ==
  /\ state = initial_state({}, 0)
  /\ node = "END"
  /\ status = "idle"
  /\ superstep = 0
  /\ interrupt_enabled \in InterruptModes
  /\ declined = FALSE
  /\ outages = 0
  /\ kind \in Kinds
  /\ phase = "start"
  /\ scenarios = <<>>
  /\ metrics = <<>>
  /\ threads = NoThreads
  /\ report = <<>>
  /\ batches = 0
  /\ surprises = 0
  /\ fresh = TRUE
  /\ visits = NoVisits
  /\ carried = NoVisits
  /\ decided = FALSE
  /\ endings = <<>>

\* A new process; only a database still has the threads.  An interrupt without
\* any checkpointer is not modelled.
StartBatch ==
  /\ phase \in {"start", "written", "failed"}
  /\ batches < MaxBatches
  /\ batches' = batches + 1
  /\ metrics' = <<>>
  /\ endings' = <<>>
  /\ visits' = NoVisits
  /\ carried' = NoVisits
  /\ decided' = FALSE
  /\ threads' = IF kind \in {"sqlite", "postgres"} THEN threads ELSE NoThreads
  /\ status' = "idle"
  /\ \E file \in Files :
       /\ scenarios' = IF Loadable(file) THEN file.scenarios ELSE <<>>
       /\ phase' = IF Loadable(file) THEN "loop" ELSE "failed"
       /\ fresh' = Fresh(file, threads')
  /\ interrupt_enabled' \in InterruptModes
  /\ kind = "none" => ~interrupt_enabled'
  /\ UNCHANGED <<state, node, superstep, declined, outages>>
  /\ UNCHANGED <<kind, report, surprises>>

\* The state an invocation starts from: initial_state, its lists added to those
\* of the thread if the store has it.
input_state(scenario, store) ==
  LET input == initial_state(scenario.query, scenario.max_attempts)
      old   == store[scenario.id]
  IN IF old = <<>> THEN input
     ELSE [input EXCEPT
             !.tool_results = old[1].tool_results \o @,
             !.latest_named = old[1].latest_named,
             !.errors       = old[1].errors \o @,
             !.events       = old[1].events \o @]

InvokeScenario ==
  /\ phase = "loop"
  /\ status = "idle"
  /\ Position <= Len(scenarios)
  /\ state' = input_state(Current, threads)
  /\ node' = "intake"
  /\ status' = "running"
  /\ superstep' = 0
  /\ carried' = [n \in DOMAIN carried |-> carried[n] + CountOf(state', n)]
  /\ decided' = FALSE
  /\ UNCHANGED <<interrupt_enabled, declined, outages, batch>>
  /\ UNCHANGED <<surprises, fresh, visits, endings>>

\* A model call raised, chose another route, wrote nothing, or its judge was not
\* satisfied.
Surprise ==
  \/ outages' > outages
  \/ node = "classify" /\ state'.route # Current.expected_route
  \/ /\ node = "evaluate"
     /\ judge_consulted(state)
     /\ state'.evaluation_result = "needs_retry"
  \/ node = "answer" /\ state'.final_answer = "templated"

Superstep ==
  /\ phase = "loop"
  /\ Engine
  /\ surprises' = IF Surprise THEN surprises + 1 ELSE surprises
  /\ surprises' <= MaxSurprises
  /\ visits' = IF node \in DOMAIN visits /\ superstep' # superstep
               THEN [visits EXCEPT ![node] = @ + 1] ELSE visits
  /\ decided' = (decided \/ visits'["approval"] # visits["approval"])
  /\ UNCHANGED <<batch, fresh, carried, endings>>

Saved == IF kind = "none" THEN threads
         ELSE [threads EXCEPT ![Current.id] = <<ListsOf(state)>>]

\* How the invocation that comes back has ended.
ending ==
  [reply   |-> IF status = "done" THEN state.final_answer ELSE status,
   decided |-> decided]

\* Mutant: a suspended scenario is waited for.
Measurable_finished == status = "done"

Measurable == status \in {"done", "interrupted"}

Measure ==
  /\ phase = "loop"
  /\ Measurable
  /\ metrics' = Append(metrics, metric_from_state(state, Current))
  /\ threads' = Saved
  /\ endings' = Append(endings, ending)
  /\ status' = "idle"
  /\ UNCHANGED <<state, node, superstep, interrupt_enabled, declined, outages>>
  /\ UNCHANGED <<kind, phase, scenarios, report, batches>>
  /\ UNCHANGED <<surprises, fresh, visits, carried, decided>>

\* Mutant: what was measured so far is reported on the way out.
Abort_reporting ==
  /\ phase = "loop"
  /\ status = "raised"
  /\ threads' = Saved
  /\ phase' = "failed"
  /\ report' = <<summarize_metrics(metrics, FALSE)>>
  /\ UNCHANGED <<vars, kind, scenarios, metrics, batches, ghosts>>

\* The exception of graph.invoke is not caught: nothing is written.
Abort ==
  /\ phase = "loop"
  /\ status = "raised"
  /\ threads' = Saved
  /\ phase' = "failed"
  /\ UNCHANGED <<vars, kind, scenarios, metrics, report, batches, ghosts>>

\* _verify_resume reads the last thread back; a run leaves more than one
\* checkpoint as soon as it leaves an event.
verify_resume(id) == threads[id] # <<>> /\ threads[id][1].events # <<>>

WriteReport ==
  /\ phase = "loop"
  /\ status = "idle"
  /\ Position > Len(scenarios)
  /\ LET resume == kind # "none" /\ verify_resume(Last(scenarios).id)
     IN report' = <<summarize_metrics(metrics, resume)>>
  /\ phase' = "written"
  /\ UNCHANGED <<vars, kind, scenarios, metrics, threads, batches, ghosts>>

RunnerNext ==
  \/ StartBatch
  \/ InvokeScenario
  \/ Superstep
  \/ Measure
  \/ Abort
  \/ WriteReport

RunnerSpec == RunnerInit /\ [][RunnerNext]_allvars

\* A command that was started is a loop without waiting.
FairRunnerSpec ==
  /\ RunnerSpec
  /\ WF_allvars(InvokeScenario \/ Superstep \/ Measure \/ Abort \/ WriteReport)

===============================================================================
