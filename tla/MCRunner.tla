------------------------------- MODULE MCRunner -------------------------------
(***************************************************************************)
(* Constants for model checking the batch command.                         *)
(***************************************************************************)
EXTENDS RunnerProperties

scenario(id, query, route, approval, budget) ==
  [id |-> id, query |-> query, expected_route |-> route,
   requires_approval |-> approval, max_attempts |-> budget]

\* The shape of data/sample/scenarios.jsonl: every route, two risky tickets, and an
\* error with a single attempt.
SampleScenarios ==
  <<scenario("S1", {}, "simple", FALSE, 3),
    scenario("S2", {"lookup"}, "tool", FALSE, 3),
    scenario("S3", {"brief"}, "missing_info", FALSE, 3),
    scenario("S4", {"risky"}, "risky", TRUE, 3),
    scenario("S5", {"failure"}, "error", FALSE, 3),
    scenario("S6", {"risky"}, "risky", TRUE, 3),
    scenario("S7", {"failure"}, "error", FALSE, 1)>>

Sample == [scenarios |-> SampleScenarios, malformed |-> FALSE]

\* Two scenarios too few, and a line that does not parse.
Short  == [Sample EXCEPT !.scenarios = SubSeq(@, 1, 5)]
Broken == [Sample EXCEPT !.malformed = TRUE]

\* One more ticket has the id of the first risky one, asks for an approval, and
\* mentions "dead_letter"; the last has the id of the other error.
Repeated == [Sample EXCEPT
  !.scenarios[5] = scenario("S4", {"failure", "named_in_60"}, "error", TRUE, 3),
  !.scenarios[7].id = "S6"]

\* A failure of the dead_letter queue, told in the first words of the ticket.
Naming == [Sample EXCEPT
  !.scenarios[5].query = {"failure", "named_in_60", "named_in_34", "named_in_26"}]

AllIds == {"S1", "S2", "S3", "S4", "S5", "S6", "S7"}

SampleFile    == {Sample}
AnyFile       == {Sample, Short, Broken, Repeated}
NamingFile    == {Naming}

NoQueries == {}
NoBudgets == {}
NoReplies == {}

MockOnly  == {FALSE}
HumanOnly == {TRUE}
EitherMode == BOOLEAN

AnyKind     == {"none", "memory", "sqlite"}
MemoryOnly   == {"memory"}
DatabaseOnly == {"sqlite"}

NoException   == {}
AnyException  == {"raised", "raised_naming"}

===============================================================================
