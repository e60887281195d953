---------------------------- MODULE MCPersistence ----------------------------
(***************************************************************************)
(* Constants for model checking one thread with its checkpoints.           *)
(***************************************************************************)
EXTENDS PersistenceProperties

\* The model may choose any route for it; its own fallback is the tool route.
OneTicket == {{"lookup"}}

\* The text of an exception matters to the report only.
SomeException == {"raised"}

TwoBudgets == 1..2
OneBudget  == {1}

MockOnly   == {FALSE}
HumanOnly  == {TRUE}

NoReplies == {}

Database == {"sqlite", "postgres"}
AnyKind  == {"memory", "sqlite"}

===============================================================================
