--------------------------- MODULE RunnerProperties ---------------------------
(***************************************************************************)
(* What the metrics file may be trusted to say about a batch.              *)
(***************************************************************************)
EXTENDS Runner

Metric ==
  [success : BOOLEAN, expected_route : CLASSIFIABLE_ROUTES,
   actual_route : CLASSIFIABLE_ROUTES \cup {""}, nodes_visited : Nat,
   retry_count : Nat, interrupt_count : Nat, approval_observed : BOOLEAN,
   dead_lettered : BOOLEAN]

MetricsReport ==
  [total_scenarios : Nat, total_retries : Nat, total_interrupts : Nat,
   resume_success : BOOLEAN, scenario_metrics : Seq(Metric)]

Endings ==
  [reply   : {"generated", "templated", "question", "escalated", "interrupted"},
   decided : BOOLEAN]

\* Type correctness; every metrics file the command writes is one that
\* validate-metrics accepts (cli.py:92).
RunnerTypeOK ==
  /\ state \in AgentStates
  /\ status \in {"idle", "running", "interrupted", "done", "raised"}
  /\ phase \in {"start", "loop", "written", "failed"}
  /\ scenarios \in Seq(Scenario)
  /\ metrics \in Seq(Metric)
  /\ Len(metrics) <= Len(scenarios)
  /\ \A id \in Ids : Len(threads[id]) <= 1
  /\ \A i \in DOMAIN report :
       report[i] \in MetricsReport /\ validate_metrics(report[i])
  /\ batches \in 0..MaxBatches
  /\ surprises \in 0..MaxSurprises
  /\ {visits, carried} \subseteq [{"retry", "approval"} -> Nat]
  /\ decided \in BOOLEAN
  /\ endings \in Seq(Endings)

Written == phase = "written"

\* A metric says success only of a run that came to an end with a reply, and for a
\* scenario that requires approval only if this very run passed the approval, on
\* whatever thread and whatever other scenarios were decided (metrics.py:47-50: the
\* fields that are read may be older than the run).
SuccessMeansFinished ==
  \A i \in DOMAIN metrics : metrics[i].success =>
    /\ endings[i].reply # "interrupted"
    /\ scenarios[i].requires_approval => endings[i].decided

\* On any threads, used before or shared by two scenarios, the totals are the
\* retries and approvals of this batch and those its threads already held, once
\* for each scenario invoked on them (metrics.py:45-46, cli.py:64).
TotalsCountTheThreads ==
  Written =>
    /\ report[1].total_retries = visits["retry"] + carried["retry"]
    /\ report[1].total_interrupts = visits["approval"] + carried["approval"]

\* On new threads the totals are those of this batch, one approval for each
\* scenario that shows a decision (docs/METRICS.md:10-11, report.py:101-108).
TotalsTellTheBatch ==
  Written /\ fresh =>
    /\ report[1].total_retries = visits["retry"]
    /\ report[1].total_interrupts = visits["approval"]
    /\ report[1].total_interrupts = Cardinality(approvals(report[1]))

\* No escalation is missing from the report: every scenario that ended at the dead
\* letter is listed, although it is recognised by a text and by a number that has
\* to be positive (report.py:110-111: a ticket without retries is not listed).
EscalationsAreReported ==
  Written =>
    {i \in DOMAIN endings : endings[i].reply = "escalated"}
      \subseteq dead_letters(report[1])

\* A report is written of a whole batch or not at all: when it is there every
\* scenario was run, and an exception leaves the report of an earlier batch.
NoPartialReport ==
  [][report' # report =>
       /\ Written'
       /\ Len(report'[1].scenario_metrics) = Len(scenarios)
       /\ \A i \in DOMAIN scenarios :
            report'[1].scenario_metrics[i].expected_route = scenarios[i].expected_route]_allvars

\* A started batch ends, with a report or an exception, although nobody answers
\* a suspended scenario.
BatchEnds == phase = "loop" ~> phase \in {"written", "failed"}

-------------------------------------------------------------------------------
(* Statements of the documentation *)

\* "every scenario still terminated at `finalize`" (report.py:127), said of a
\* report with failures.
FailuresTerminated ==
  Written /\ failures(report[1]) # {} =>
    \A i \in DOMAIN endings : endings[i].reply # "interrupted"

\* "total_retries: count of retry node visits across scenarios"
\* (docs/METRICS.md:10).
TotalRetriesCountVisits == Written => report[1].total_retries = visits["retry"]

\* "exhausted the retry budget and terminated through dead_letter" (report.py:114-
\* 115), said of the scenarios the report takes for dead letters.
DeadLettersWereEscalated ==
  Written =>
    \A i \in dead_letters(report[1]) : endings[i].reply = "escalated"

===============================================================================
