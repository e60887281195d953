----------------------------- MODULE Persistence -----------------------------
(***************************************************************************)
(* One thread of the graph compiled with a checkpointer (persistence.py):  *)
(* the Workflow of one process, the checkpoints of its thread, and what    *)
(* happens to both when the process dies, when another process continues,  *)
(* when the thread id is invoked again, and when a checkpoint in the       *)
(* middle is replayed (scripts/demo_persistence.py).                       *)
(*                                                                         *)
(* LangGraph writes a checkpoint after every super-step.  Nothing in the   *)
(* repository asks it to wait for the write, so the process may run        *)
(* WriteBehind super-steps ahead of the store; an invocation returns only  *)
(* after its last write.                                                   *)
(***************************************************************************)
EXTENDS Workflow

CONSTANTS
  Kinds,            \* The checkpointers the thread may be given.
  WriteBehind,      \* Super-steps the process may be ahead of the store.
  MaxCrashes,       \* Bound: deaths of the process.
  MaxInvocations,   \* Bound: inputs given to the thread.
  MaxReplays,       \* Bound: replays from a checkpoint.
  MaxIncidents      \* Bound: crashes, inputs and replays together.

ASSUME KindsAssumption       == Kinds \subseteq {"memory", "sqlite", "postgres"}
ASSUME WriteBehindAssumption == WriteBehind \in Nat
ASSUME BoundsAssumption ==
  {MaxCrashes, MaxInvocations, MaxReplays, MaxIncidents} \subseteq Nat

VARIABLES
  kind,         \* The checkpointer build_checkpointer was asked for.
  history,      \* The checkpoints of the thread in the store, oldest first.
  unsaved,      \* Checkpoints on their way to the store.
  effects,      \* The world: approved actions the tool has carried out.
  crashes,      \* Deaths of the process so far.
  invocations,  \* Inputs given to the thread so far.
  fork,         \* History: the checkpoint the replay of the latest input began
                \* at, and the length of the stored history then.
  replays       \* Replays so far.

counts  == <<crashes, invocations, replays>>
allvars == <<vars, kind, history, unsaved, counts, effects, fork>>

\* A snapshot names the node to run next; the input itself is one super-step.
Checkpoint == [values : AgentStates, next : NodeNames \cup {"__start__", "END"}]

snapshot(s, n) == [values |-> s, next |-> n]

InputCheckpoints(s) == <<snapshot(s, "__start__"), snapshot(s, "intake")>>

\* The database of SQLite and Postgres outlives the process, a MemorySaver
\* does not.
OutlivesProcess == kind # "memory"

Latest == Last(history)

\* Everything checkpointed so far, in the store or on its way.
Log == history \o unsaved

NoFork == [at |-> 0, length |-> 0]

PersistenceInit ==
  /\ Init
  /\ kind \in Kinds
  /\ history = <<>>
  /\ unsaved = InputCheckpoints(state)
  /\ effects = 0
  /\ crashes = 0
  /\ invocations = 1
  /\ fork = NoFork
  /\ replays = 0

\* The bound on incidents leaves room for one more.
MayHappen == crashes + invocations + replays < MaxIncidents

-------------------------------------------------------------------------------
(* The process and its store *)

\* Mutant: the process never waits for the store.
MayRun_unchecked == TRUE

MayRun == Len(unsaved) <= WriteBehind

CarriesOutAction == node = "tool" /\ tool_result(state) = "executed"

\* Mutant: the last checkpoint is missing.
Written_but_last(s, n) ==
  IF n = "END" THEN unsaved ELSE Append(unsaved, snapshot(s, n))

Written(s, n) == Append(unsaved, snapshot(s, n))

\* A super-step of the graph, or its refusal: the engine's limit, interrupt().
Superstep ==
  /\ MayRun
  /\ Engine
  /\ IF superstep' = superstep
     THEN UNCHANGED <<unsaved, effects>>
     ELSE /\ unsaved' = Written(state', node')
          /\ effects' = IF CarriesOutAction THEN effects + 1 ELSE effects
  /\ UNCHANGED <<kind, history, counts, fork>>

Save ==
  /\ unsaved # <<>>
  /\ history' = Append(history, Head(unsaved))
  /\ unsaved' = Tail(unsaved)
  /\ UNCHANGED <<vars, kind, counts, effects, fork>>

\* The invocation has come back to its caller.
Returned == status \in {"interrupted", "done", "raised"} /\ unsaved = <<>>

\* Command(resume=...): approval_node is the first super-step.
ResumeThread ==
  /\ Returned
  /\ Resume
  /\ unsaved' = <<snapshot(state', node')>>
  /\ UNCHANGED <<kind, history, counts, effects, fork>>

-------------------------------------------------------------------------------
(* Crash and recovery *)

\* What the process had not handed to the store is gone, and with a MemorySaver
\* the store as well.
Crash ==
  /\ crashes < MaxCrashes /\ MayHappen
  /\ status # "crashed"
  /\ status' = "crashed"
  /\ unsaved' = <<>>
  /\ history' = IF OutlivesProcess THEN history ELSE <<>>
  /\ crashes' = crashes + 1
  /\ UNCHANGED <<state, node, superstep, interrupt_enabled, declined, outages>>
  /\ UNCHANGED <<kind, invocations, replays, effects, fork>>

\* Mutant: the thread begins anew with the state it had.
NodeToRun_restart(c) == IF c.next = "END" THEN "END" ELSE "intake"

NodeToRun(c) == IF c.next = "__start__" THEN "intake" ELSE c.next

\* invoke(None, config): a process takes up the thread at checkpoint c.  A
\* finished thread has nothing left to run.
TakeUp(c) ==
  /\ state' = c.values
  /\ node' = NodeToRun(c)
  /\ status' = IF c.next = "END" THEN "done" ELSE "running"
  /\ superstep' = 0
  /\ interrupt_enabled' \in InterruptModes
  /\ unsaved' = IF c.next = "__start__" THEN <<snapshot(c.values, "intake")>> ELSE <<>>
  /\ UNCHANGED <<kind, history, declined, outages, effects>>

\* A replay that left no checkpoint behind is forgotten: the thread is where it
\* was before.
Recover ==
  /\ status = "crashed"
  /\ history # <<>>
  /\ TakeUp(Latest)
  /\ fork' = IF Len(history) = fork.length THEN NoFork ELSE fork
  /\ UNCHANGED counts

\* history2[len(history2) // 2], counted from the newest.
Middle == Len(history) - Len(history) \div 2

\* The demonstration replays its one run, which nobody resumed, from the middle.
Replay ==
  /\ Returned
  /\ replays < MaxReplays /\ MayHappen
  /\ history[Middle].next # "END"
  /\ TakeUp(history[Middle])
  /\ fork' = [at |-> Middle, length |-> Len(history)]
  /\ replays' = replays + 1
  /\ UNCHANGED <<crashes, invocations>>

-------------------------------------------------------------------------------
(* The same thread id again *)

\* Mutant: the input says nothing about the decision.
merge_keeps_approval(s, input) ==
  [input EXCEPT
     !.approval     = s.approval,
     !.tool_results = s.tool_results \o @,
     !.latest_named = s.latest_named,
     !.errors       = s.errors \o @,
     !.events       = s.events \o @]

\* Mutant: the input does not reset the question of an earlier run.
merge_keeps_question(s, input) ==
  [input EXCEPT
     !.pending_question = s.pending_question,
     !.tool_results     = s.tool_results \o @,
     !.latest_named     = s.latest_named,
     !.errors           = s.errors \o @,
     !.events           = s.events \o @]

\* The reducers of AgentState: plain fields are overwritten by the input, the
\* lists of the input, which are empty, are added to those of the thread, whose
\* last tool result stays the last.
merge(s, input) ==
  [input EXCEPT
     !.tool_results = s.tool_results \o @,
     !.latest_named = s.latest_named,
     !.errors       = s.errors \o @,
     !.events       = s.events \o @]

\* invoke(initial_state(...), config), in this process or in another.
InvokeAgain ==
  /\ Returned \/ status = "crashed"
  /\ invocations < MaxInvocations /\ MayHappen
  /\ \E query \in Queries, budget \in Budgets :
       LET input == initial_state(query, budget)
       IN state' = IF history = <<>> THEN input ELSE merge(Latest.values, input)
  /\ node' = "intake"
  /\ status' = "running"
  /\ superstep' = 0
  /\ interrupt_enabled' \in InterruptModes
  /\ declined' = FALSE
  /\ unsaved' = InputCheckpoints(state')
  /\ invocations' = invocations + 1
  /\ fork' = NoFork
  /\ UNCHANGED <<outages, kind, history, effects, crashes, replays>>

-------------------------------------------------------------------------------

PersistenceNext ==
  \/ Superstep
  \/ Save
  \/ ResumeThread
  \/ Crash
  \/ Recover
  \/ Replay
  \/ InvokeAgain

PersistenceSpec == PersistenceInit /\ [][PersistenceNext]_allvars

\* An invocation is a loop, and its writes are awaited before it returns; that a
\* thread is recovered, resumed or invoked again is up to somebody.
FairPersistenceSpec ==
  /\ PersistenceSpec
  /\ WF_allvars(Superstep)
  /\ WF_allvars(Save)

===============================================================================
