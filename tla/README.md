# A verification model of the LangGraph support-ticket agent

The program (package `langgraph_agent_lab`) routes customer-support tickets
through a LangGraph state machine: a language model classifies the ticket, a mock
tool is called, a judge model decides whether the result will do, risky actions
wait for a human, failures are retried within a budget and escalated after it.
This directory holds TLA+ modules of the program, the TLC runs that check them on
small instances and TLAPS proofs that hold for every instance.

Paths such as `nodes.py:490` are relative to `src/src/langgraph_agent_lab/`.

## The system

| Component | State it keeps | Operations | Interacts through |
|---|---|---|---|
| Agent state, `state.py` | the `AgentState` dict of a thread: plain fields overwritten, list fields appended | `initial_state`, `make_event` | every node and router |
| Nodes, `nodes.py` | none | eleven node functions, each from a state to a partial update | model calls, the environment, `interrupt()` |
| Routers, `routing.py` | none | four functions from a state to a node name | conditional edges |
| Graph, `graph.py` | the compiled graph | `build_graph` | LangGraph's super-step loop |
| LLM client, `llm.py` | a cache of clients | `call_with_retry`, `get_llm` | three node functions and the judge |
| Checkpointers, `persistence.py` | threads and their checkpoints | `build_checkpointer` | LangGraph writes one checkpoint per super-step |
| Runner, `cli.py` | the list of metrics of a batch | `run_scenarios`, `_verify_resume` | `graph.invoke`, one thread per scenario |
| Metrics, `metrics.py` | none | `metric_from_state`, `summarize_metrics` | the final state of a run |
| Scenarios, `scenarios.py`; report, `report.py` | none | parse a file; render text | the runner |
| Demonstration, `scripts/demo_persistence.py` | none | reopen a database, replay | the checkpointer |

What is hard in it:

- **Outcomes nobody controls.** Every model call may answer anything its schema
  allows, answer nothing, or raise; the judge may reject every result for ever.
- **The human.** An approval suspends the graph; the answer arrives later, in any
  form, perhaps in another process with another environment.
- **Two loops with two bounds.** `max_attempts` bounds the retry loop, LangGraph's
  recursion limit bounds the invocation, and nothing in the code relates them.
- **State that outlives a step.** Decisions, verdicts and results written early
  are read many super-steps later.
- **Threads that outlive an invocation.** A crash between a side effect and its
  checkpoint, a second run on the same thread id, a replay from the middle.
- **A batch that may stop anywhere.** One exception ends it, a suspended scenario
  is measured like a finished one, and two scenarios may share a thread.

What makes the components right: the tool is called for a risky ticket only
behind a granted approval, a decline is honoured and a decision is never revised;
calls stay within the budget and an escalation means that it is spent; an answer
rests on an accepted result; every failure leaves a trace; a run ends once, with
one reply; an invocation returns. A model call ends, after at most four tries; a
process that continues a thread finds a state some reader could have been shown;
no plain field of its state is left over from an earlier input; and what the metrics
file says of a batch is what happened in it, as far as its threads were new. The lists of a
thread do outlive an input: the metrics count them (`retry_totals`), and `answer_node`
grounds its reply on the tool results of all inputs (`nodes.py:344-350`), which is not
modelled. `PROJECT.json` lists the hazards line by line.

## Modules

```
AgentState ─ Routing ─┐
     └────── Nodes ───┴ Workflow ─┬─ WorkflowProperties ─ WorkflowRefinement ─ MCWorkflow
                                  │        │                 └ INSTANCE TicketHandling
                                  ├─ Persistence ─ PersistenceProperties ─ MCPersistence
                                  │        (WorkflowProperties; INSTANCE WorkflowRefinement)
                                  └─ Runner ─ RunnerProperties ─ MCRunner
LlmClient ─ LlmClientProperties ─ MCLlmClient
                 └ INSTANCE ModelCall
```

Proofs, each extending the one before it:

```
WorkflowProofs ─ JourneyProofs ─ ReplyProofs ─┬─ ThreadProofs ─ StoreProofs ─ RefinementProofs
                                              └─ RunnerProofs
LlmClientProofs
```

| Module | Models | Correspondence |
|---|---|---|
| `AgentState` | `state.py` | `AgentStates` is the set of states, one record field per field some node, router or metric reads; `initial_state` and `make_event` keep their names |
| `Routing` | `routing.py` | one operator per router |
| `Nodes` | `nodes.py` | one operator per node function, from a state to the state after the reducers; what a model or a human contributes is a parameter |
| `Workflow` | `graph.py` and the invocations of it | one action per node, with its edge; `MockApproval`, `Interrupt` and `Resume` for the three ways through `approval_node`; `RaiseRecursionError` for the engine's limit |
| `WorkflowProperties` | | the properties the runs check |
| `TicketHandling` | | the abstract specification: what is promised about a ticket, whatever graph does it |
| `WorkflowRefinement` | | the mapping from the graph to `TicketHandling` |
| `LlmClient` | `llm.py` | `CacheHit`, `CacheMiss` and `BuildFails` are the three ways through `get_llm`; `TryAnswers`, `TryRaises` and `Sleep` the statements of the loop of `call_with_retry`; `ChangeEnvironment` the rest of the process |
| `ModelCall` | | the abstract specification: what a node relies on when it calls a model |
| `Persistence` | `persistence.py`, `scripts/demo_persistence.py` | composes `Workflow` with the checkpoints of its thread: `Superstep` and `Save` are LangGraph's loop and its background writes, `Crash` and `Recover` the two processes of the demonstration, `Replay` its time travel, `InvokeAgain` a second input on the same thread id |
| `Runner` | `cli.py`, `scenarios.py`, `metrics.py`, the selections of `report.py` | composes `Workflow`, as the scenario being run, with the loop of `run_scenarios`: `StartBatch`, `InvokeScenario`, `Superstep`, `Measure`, `Abort`, `WriteReport`; the functions of the metrics keep their names |
| `LlmClientProperties`, `PersistenceProperties`, `RunnerProperties` | | the properties of the three |
| `MC...` | | values of the constants |
| `...Proofs` | | the proofs |

Abstractions. A ticket is the set of facts some code looks for in its text
(`QueryFacts`). Four are those of the keyword fallback: a word of each of its three
lists, and at most four words; all sixteen sets of them occur in real texts ("refund
status crash" has all four). The others say how far in front the text mentions
"dead_letter": the report searches every error for these letters, and a retry quotes
60 characters of the ticket or of the last tool result, which in turn quotes the
ticket. An error is therefore its writer and whether its text has them, and
`latest_named` says so of the last tool result. A tool result or an event is the one
symbol its readers can tell apart. A model call is its outcome: `"raised"` stands for
any exception that leaves `call_with_retry`, which includes a missing key and a reply
that does not parse, `"raised_naming"` for one whose text, copied to the errors, has
those letters too; `"empty"` for an empty text. Only what `report.py` makes of the
errors depends on the letters, so the runs of the workflow and of the thread take
tickets and exceptions without them, `batch` and `dead_letter_text` both kinds. Left out, because nothing branches on them:
`messages`, `thread_id`, `scenario_id`, `classify_reason`, latencies, the metadata
of events and the wording of every reply.

The history variables `declined` and `outages` remember what the human meant and
how many model calls raised; no action reads them. "no" and "False" are declines
whatever the program makes of them.

Recursion limit. `RecursionLimit` is the number of node super-steps one
invocation may run. The program never sets LangGraph's `recursion_limit`, whose
default is 25 in the releases around the `langgraph>=0.3.0` that `pyproject.toml`
asks for; releases differ by one in how they count the input step, and recent
ones have a larger default. The runs use 25, the theorem holds for every limit.
A resumed invocation counts from one again, the approval being its first step.
`batch` uses 10, so that a scenario with one unexpected retry raises.

The client. A client is what distinguishes it: provider, model, temperature. The
environment is the set of keys and `LLM_MODEL`, and may change at any moment, also
during a call. An exception is marked or not: `_is_rate_limit` looks for its
markers in the whole text of the exception, so a marked one may be any failure
whose message happens to contain "quota", a reply that does not parse included.

The store. Nothing in the repository sets LangGraph's `durability`, so the process
may be `WriteBehind` super-steps ahead of its store, and an invocation returns
after its last write. A crash takes what was on its way, with a `MemorySaver` the
store too. LangGraph itself is external code: `Save`, `TakeUp`, `Returned` and the
two checkpoints of an input model what `demo_persistence.py` and `_verify_resume`
use of it. Replay is modelled as the demonstration does it, with the mock
reviewer; what LangGraph makes of stored answers to an interrupt when their
checkpoint is replayed is not.

The batch. Of a thread only its lists are kept between invocations, because
`initial_state` overwrites every plain field. `MaxSurprises` bounds the model
replies of a batch that are not the ones its scenarios expect. Five variables
remember what happened, and only properties read them: `visits` counts the retries
and approvals of the batch, `carried` those its invocations found on their threads,
`decided` whether the current invocation passed the approval, `endings` how each one
ended, and `fresh` whether all threads of the batch are new. A batch without a
checkpointer runs with mocked approvals.

An operator whose comment begins with "Mutant" is a wrong version of the next
definition, as a plausible slip would make it. Nothing refers to these; each run
with the mutant in place of the original shows that a property notices (the pairs
are listed in `PROJECT.json`).

## Properties and runs

`CHECK_DEADLOCK FALSE` is set in every configuration because the machines do
stop: an invocation that reached `END` or raised has no next step, a ticket may
wait for its human for ever, and nobody has to start another call or batch.

| Run | Question | Instance | States |
|---|---|---|---|
| `safety` (`MCWorkflow`) | Are gate, loop and audit trail right whatever models, humans and environments do, and when does the engine's limit stop a ticket? | all 16 tickets, budgets -1..4, 6 and 7, all 9 replies, interrupt mode chosen anew at each invocation, limit 25 | 138,452 |
| `refinement` (`MCWorkflow`) | Does the graph implement `TicketHandling`, liveness included, and does every invocation return? | 6 tickets, budgets -1..4, all replies, both modes | 23,076 |
| `llm` (`MCLlmClient`) | Is a model call what the nodes take it for? | 3 calls, 3 kinds of arguments, 4 environments, 2 of 3 packages installed, a cache of 2 | 46,136 |
| `recovery` (`MCPersistence`) | What does a crash cost? | 2 crashes, budgets 1 and 2, a human in every process, a store 2 super-steps behind | 162,208 |
| `thread` (`MCPersistence`) | What becomes of a thread that is used again? | two of: a crash, a second input, a replay; memory and database; budget 1 | 2,325,091 |
| `batch` (`MCRunner`) | Can the metrics file be trusted? | 2 runs of the command on 4 files of 7 scenarios (one with a bad line, one that repeats ids, one cut to 5), with no store, memory or database, both modes, both kinds of exception, 1 surprise | 427,624 |

Workflow:

- `RiskyGate`, `EffectsMatchRoute`, `ReviewerSeesHighRisk`, `DecisionIsFinal`: the
  approval gate, through every retry. `DeclinedNeverExecutes` is checked in
  `recovery`, where the process may die before or after the decision is stored.
- `CallsWithinBudget`, `EscalationIsLastResort`, `ErrorRouteNeedsBudgetOfThree`:
  the retry loop counts attempts before the first call on the error route and
  after it on the others, and its bound and the simulated failure sit in
  different files. `ErrorRouteNeedsBudgetOfThree` states the consequence: a budget
  of two still ends in the dead letter. `ModelCallsWithinBudget`: each pass buys
  another verdict, so the model calls of a ticket grow with its budget too.
- `AnswersRestOnSuccess`, `FailuresAreRecorded`, `OutageKeepsTheOrder`:
  degradation. A judge that cannot be reached never lets a failed call through,
  every exception leaves exactly one entry in `errors`, and without a classifier a
  risky word still leads to the approval.
- `FinishedRunsReplyOnce`, `InvocationReturns`: termination.
- `RaiseNeedsLargeBudget`: a journey takes at most `3 * max_attempts + 6` nodes.

Client:

- `ClientFitsItsRequest`: however old a cached client is, it is the one some
  environment of this process asks for with just these arguments. It accepts a client
  older than the present environment, because the cache does (`llm.py:58`).
- `OnlyRateLimitsAreRetried`, `BackoffGrows`, `FinalIterationEndsTheCall`: the
  retries, their pauses and the statement after the loop.
- `ImplementsModelCall`: a call is at most four tries and then an answer or one
  exception. This is what lets `Nodes` take a model call for its outcome.

Thread:

- `OnlyCrashesForgetEffects`: an action that was carried out but is in no
  checkpoint, and may be carried out again, is the fault of a crash, and of the
  number of super-steps the store may be behind.
- `StoreShowsLegalTicket`: the tickets a reader of the store sees make a journey
  `TicketHandling` allows, across crashes.
- `InvocationComesToRest`: what an invocation returned is what the store holds.
- `SituationIsOfThisRun`, `ApprovalIsOfThisRun`: the plain fields describe the
  latest input only, while the lists still hold the earlier ones.
- `EffectsWithinBudgets`: what crashes, inputs and replays may repeat between them.
  The allowance is that of one budget, large enough for every input of the thread.
- `ReplayPartsOnlyAtAModel`: where a replay may take another path than the run it
  replays. `fork` remembers what is replayed; a replay that a crash cut off before
  its first checkpoint is forgotten, since the thread is then where it was.

Batch:

- `SuccessMeansFinished`: no suspended scenario counts as a success, and one that
  requires approval passed it in its own invocation, although the metric reads the
  state of a thread that may hold decisions of earlier ones.
- `TotalsCountTheThreads`: on any threads the totals are the steps of this batch and
  those its invocations found. `TotalsTellTheBatch`: on new threads they are those of
  this batch, with one approval for each scenario that shows a decision. On used ones
  they are not (`retry_totals`).
- `EscalationsAreReported`: the report misses no dead letter. The converse is false,
  since it goes by a text that a ticket may contain (`dead_letter_text`).
- `NoPartialReport`, `BatchEnds`: an exception leaves the report of an earlier
  batch, and the command ends although nobody answers.

Why the bounds are enough. Budgets -1..4 lie on both sides of every comparison
the loop makes: `attempt < max_attempts` with 0 and below, the single attempt,
`attempt < 2` of the mock tool with 1, 2 and 3, and one pass more. A longer loop
repeats the same three nodes; the theorems cover it. `SomeQueries` has a ticket
for each branch of the fallback and one that two branches claim; since the model
may choose any route for any ticket, more tickets add no routes. The largest
budget that fits a limit of 25 is 6, hence 6 and 7. Three calls fill a cache of
two and evict from it, and a hit finds a client older than two changes of the
environment. Two crashes are one in the run and one in its recovery; a store two
super-steps behind loses the tool call with the checkpoint before it. In `thread`
`MaxIncidents` leaves room for any two of crash, second input and replay, in any
order. A budget of 1 has a pass through every node of the loop; larger ones meet
crashes in `recovery`. Two batches are needed for a thread or a report that is
older than the batch; one surprise per run of the model is enough for a retry, a
wrong route, an outage or an exception at any scenario.

Fairness. `Workflow` adds weak fairness of `Engine`, everything `graph.invoke`
does by itself: once called it is a loop over super-steps that nothing else has to
schedule, and a model call returns or raises. `Resume` is not in it: nobody
promises that a human answers. `LlmClient` has it for `CallWithRetry`: a request to
a provider answers or raises, and `time.sleep` returns; nothing makes a node place
a call. `Persistence` has it for `Superstep` and `Save`, not for `Recover`,
`ResumeThread`, `Replay` or `InvokeAgain`, which are up to somebody. `Runner` has
it for everything but `StartBatch`: the command is a loop without waiting.

### Where the code and its documentation disagree

Each is a run whose one property quotes the documentation and is violated.

| Run | Statement | What the code does |
|---|---|---|
| `escalation_notice` | "the user gets an honest answer" (`nodes.py:564`) | a judge that is never satisfied makes the approved action run up to `max_attempts` times, and the reply says it could not be completed |
| `text_decline` | "A declined risky action must never execute." (`tests/test_graph_behavior.py:120`) | the bare answer "no" is a non-empty text, and `bool("no")` approves |
| `unset_mode` | the same | a process without `LANGGRAPH_INTERRUPT` that resumes the thread discards the decline and the mock reviewer approves |
| `failure_notice` | "every scenario still terminated at `finalize`" (`report.py:127`) | a suspended scenario has no reply, so it is one of the failures the sentence is about |
| `retry_totals` | "count of retry node visits across scenarios" (`docs/METRICS.md:10`) | threads are named after scenario ids, so a second run of the command over one database measures each scenario with the events of both runs |
| `dead_letter_text` | "exhausted the retry budget and terminated through `dead_letter → finalize`" (`report.py:114-115`) | the report searches the errors for "dead_letter", and a retry quotes the ticket: one that mentions dead_letter, is retried and answered, is listed as a dead letter |

`text_decline` and `unset_mode` need a human who declines. `recovery` and the
theorem `DeclineIsRespected` show that the two conditions they drop, each process
asking and the reply in the requested form, are enough.

Other sentences are wider than the code, and the properties state what remains of
them. The fallback has the "Same priority order as the prompt" (`nodes.py:129`) but for
a failure named in few words, which it retries where the prompt would ask the user:
`OutageKeepsTheOrder`. "All paths must terminate at finalize" (`README.md:175` of the
repository) as long as the engine's limit allows for the budget: `RaiseNeedsLargeBudget`
says from which budget on an invocation may be given up instead. With a limit of 25 it is
`max_attempts = 7`: a risky ticket whose first six results are rejected needs 26
super-steps, 27 when the seventh is rejected too. Retries "come only from
error-route" scenarios (`report.py:93`) and "up to three calls per scenario"
(`llm.py:24`) forget that the judge sends any tool result back:
`CallsWithinBudget`, `ModelCallsWithinBudget`. "genuine bugs ... surface at once"
(`llm.py:43`) holds for those without a marker in their text:
`OnlyRateLimitsAreRetried`. A "replay deterministic" (`report.py:190`) holds up to
the next model call: `ReplayPartsOnlyAtAModel`. Interrupts "equal the number of"
risky scenarios (`report.py:104`) on new threads only: `TotalsTellTheBatch`.

## Proofs

Every invariant and action property a run checks is proved, and the safety part of
each refinement. The theorems hold for every value of the constants that meets the
named assumptions of the modules; a theorem that needs more says so.

Of `Spec`, for every set of tickets, budgets, modes and replies and every recursion
limit (tickets are sets of facts, budgets integers, modes Booleans, replies members
of `HumanReplies`, the limit is positive):

| Theorem | States |
|---|---|
| `TypeCorrect` | `[]TypeOK` |
| `BudgetRespected` | `[]CallsWithinBudget` |
| `EscalationSpendsTheBudget` | `[]EscalationIsLastResort` |
| `JourneyLengthBound` | `[]RaiseNeedsLargeBudget` |
| `ApprovalGatesTheTool` | `[]RiskyGate` |
| `ToolHonoursTheRoute` | `[]EffectsMatchRoute` |
| `ReviewerIsWarned` | `[]ReviewerSeesHighRisk` |
| `DecisionStands` | `DecisionIsFinal`, an action property |
| `DeclineIsRespected` | `[]DeclinedNeverExecutes`, assuming `InterruptModes = {TRUE}` and `Replies \subseteq StructuredReplies` |
| `AnswersAreEarned` | `[]AnswersRestOnSuccess` |
| `ErrorRouteTakesThree` | `[]ErrorRouteNeedsBudgetOfThree` |
| `OneReplyPerRun` | `[]FinishedRunsReplyOnce` |
| `FailuresLeaveTheirMark` | `[]FailuresAreRecorded` |
| `ModelCallsAreBounded` | `[]ModelCallsWithinBudget` |
| `OutagesKeepTheOrder` | `[]OutageKeepsTheOrder` |
| `GraphImplementsTicketHandling` | `Ticket!Spec`: the graph implements the safety part of `TicketHandling` |

Of `PersistenceSpec`, for every checkpointer, every `WriteBehind` and any number of
crashes, inputs and replays:

| Theorem | States | Assuming |
|---|---|---|
| `ThreadTypeCorrect` | `[]PersistenceTypeOK` | |
| `NothingIsLeftOver` | `[]SituationIsOfThisRun` | |
| `ApprovalIsFresh` | `[]ApprovalIsOfThisRun` | |
| `CrashesForgetFewEffects` | `[]OnlyCrashesForgetEffects` | |
| `EffectsAreBudgeted` | `[]EffectsWithinBudgets` | |
| `ReplayIsDeterministic` | `[]ReplayPartsOnlyAtAModel` | nobody is asked, at most one replay |
| `CrashesKeepThePromises` | `RiskyGate`, `EffectsMatchRoute` and `CallsWithinBudget`, kept through crashes and replays | one input |
| `StoreImplementsTicketHandling` | `StoreShowsLegalTicket`: the store implements the safety part of `TicketHandling` | one input, no replay, a database |
| `DeclineSurvivesCrashes` | `[]DeclinedNeverExecutes` | one input, no replay, and the conditions of `DeclineIsRespected` |

The assumptions are needed. With a second input the lists of the thread count the
first one's calls as well; a `MemorySaver` that dies, or a replay, shows a reader an
earlier ticket again; a human may answer a replay differently; and the second replay
of a run that the recursion limit had cut short goes on where that run stopped, so
that there is nothing left to compare it with. The demonstration replays once, and
`recovery` and `thread` check the properties within these limits.

Of the client, for every set of arguments, environments and packages and every
cache size:

| Theorem | States |
|---|---|
| `ClientTypeCorrect` | `[]TypeOK`, the bound of the cache included |
| `CachedClientsFit` | `[]ClientFitsItsRequest` |
| `LoopEndIsUnreachable` | `[]FinalIterationEndsTheCall` |
| `RetriesAreForRateLimits` | `[]OnlyRateLimitsAreRetried` |
| `PausesGrow` | `[]BackoffGrows` |
| `ClientImplementsCall` | `Call!Spec`: the client implements the safety part of `ModelCall` |

Of the batch command, for every set of files, ids and checkpointers and all bounds:

| Theorem | States |
|---|---|
| `RunnerTypeCorrect` | `[]RunnerTypeOK` |
| `SuccessIsEarned` | `[]SuccessMeansFinished` |
| `ReportsAreComplete` | `NoPartialReport`, an action property |
| `TotalsAreThoseOfTheThreads` | `[]TotalsCountTheThreads` |
| `TotalsAddUp` | `[]TotalsTellTheBatch` |
| `EscalationsAreListed` | `[]EscalationsAreReported` |

`WorkflowProofs` says once what each node function writes and that it keeps a state
well typed; after that no proof unfolds a node. It lifts these facts to the actions,
proves type correctness and says what a super-step adds to the audit trail. The
others find inductive invariants, each checked by TLC before it was proved.

The workflow (`JourneyProofs`, `ReplyProofs`, `RefinementProofs`):

- `LoopInv`. `CallsWithinBudget` is not inductive: nothing in it says how many
  calls were made when the tool is about to run. The number of calls is a function
  of the route, the attempt counter and the place in the loop, and `LoopInv` states
  that function; `StepInv` adds a bound on the super-steps for each node, linear in
  the attempt counter.
- `GateInv`. `RiskyGate` is not inductive: it speaks of calls that were made, and
  needs to know where in the graph a ticket without an approval can be. `GateInv`
  states, for each region of the graph, the route, the decision and whether anything
  was called; `DeclineInv` ties the history of the human's wish to the decision on
  record.
- `AnswerInv`, `ReplyInv`, `ClassifyInv`, `OriginInv`. `AnswersRestOnSuccess` speaks
  of tickets that were answered; `AnswerInv` says it of those on the way to the
  answer and ties the verdict to the last result. `ReplyInv` says at which nodes no
  reply was written yet. The model calls are counted by splitting the results of the
  tool into those with the failure marker and those that were judged.
- `RInv` joins the parts of the above that the mapping to `TicketHandling` needs;
  each action is then one abstract step or a stutter.

The thread (`ThreadProofs`, `StoreProofs`, `RefinementProofs`). A process may be
taken up from any checkpoint, so what is to hold of the process has to hold of every
checkpoint in the store or on its way, the sequence `Log`. The lemmas that say how
each step changes `Log` come first; then:

- `SituatedInv`: process and checkpoints are `Situated`, that is, each plain field
  was written since the latest visit of intake in the ticket's own audit trail. This
  also says what `attempt` is: the number of retries since then.
- `ForgetInv`. How much a crash forgets depends on what is on its way when it comes.
  `WindowInv` bounds the effects in any end of `Log` by its length: between two tool
  calls lie two other super-steps, and `Phase` counts how far the next call is.
- `BudgetInv`. Effects are bounded only together with those still to come: `Covered`
  adds the calls left to the process, and to one that would be taken up at each
  checkpoint not yet overtaken. A crash trades what is on its way for one more
  `Forgettable`.
- `ReplayInv`. Each checkpoint was written by a super-step from the one `Before` it,
  which at the beginning of the replay is the one replayed. A router reads only what
  its node has just written, apart from `attempt` and `max_attempts`; so two runs
  whose checkpoints are `Alike` in these two stay alike and part at a model only.
  The least position at which they would not be alike leads to a contradiction.
- `JourneyInv`, `LinkInv`: every checkpoint is `OnTheWay`, which is `LoopInv`,
  `GateInv` and `TriageInv` said of a checkpoint, and each `Follows` on the one
  before as `TicketHandling` allows. A crash shortens the log and the store shows its
  last entry, so that each step of what it shows is one of these links.
- `DeclinedInv`: when a human has declined, no checkpoint holds a granted approval,
  so no crash brings one back.

The client (`LlmClientProofs`):

- `CallInv` and `CacheInv`. The first relates the place in the loop to the number of
  tries made, every one of them but the last marked; the second says that each entry
  of the cache was built for its key in an environment that was seen.
- `PauseInv` is `BackoffGrows` itself, inductive with `CallInv`; the powers of two
  are those of the three pauses.

The batch (`RunnerProofs`):

- `RunInv` and `MetricsInv`. The first says that nobody replied before finalize and
  that a decision the invocation carries was made in this very invocation; the second
  relates metrics, endings and scenarios position by position.
- `TallyInv`. On any threads, what was measured and what is in progress add up to
  `visits` and `carried`. On new threads (`FreshInv`) an invocation has an approval in
  its audit trail exactly when it carries a decision (`OwnRun`), and `FreshTallyInv`
  says that nothing was carried on and that each approval is that of another scenario.
- `EscalatedInv`. Who is at the dead letter has retried and who left it is marked, so
  that the two conditions of the report hold of every escalation, on any threads.
  `WrittenInv`: a written report is that of the metrics.
- A total is a sum over a list, and the prover cannot use an induction theorem. Each
  number is therefore turned into a set of pairs, its `Units`; the sum is the number
  of pairs, and a new metric adds a disjoint row. The function that counts pairs
  meets the recursive equation of the sum (`SumsUp`), and no other does: a least set
  of positions on which two solutions differed, in the well-founded order of finite
  sets, would not be empty, and they agree on it without its last position.

Only model-checked is liveness under fairness, which is outside what the prover can
do: `InvocationReturns`, `InvocationComesToRest`, `BatchEnds` and the liveness parts
of `ImplementsTicketHandling` and `ImplementsModelCall`.

## Plan

Done, in this order: the workflow, its environment (client, store, batch), the
proofs of the workflow, those of the client and of the batch, and those of the thread
with its store. What is left:

1. The store for several inputs: what a reader may be shown of a thread that was used
   before, as a refinement of `TicketHandling` one input after the other.
2. Several threads in one store, once a command resumes more than one.

## Not modelled

- `render_mermaid`, `draw_graph`, argument parsing, `.env` loading, printing, and
  the rendering of JSON and Markdown: I/O without state. Of `report.py` only the
  selections its sentences speak of are modelled.
- The construction of provider clients and database connections beyond whether it
  succeeds; an unknown or misconfigured checkpointer, which ends the command before
  its first scenario as a bad file does.
- Means, success rates and latencies, which follow from the items of the report.
- The metrics file and the report are one variable: the command writes them one
  after the other and reads neither back.
- What `answer_node` tells the model (`nodes.py:344-350`): it passes on every tool result
  of the thread, on a used one those of earlier inputs too.
- Replay of a thread with interrupts, and interrupts without a checkpointer: both
  depend on LangGraph alone.
