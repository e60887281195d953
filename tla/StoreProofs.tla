------------------------------ MODULE StoreProofs ------------------------------
(***************************************************************************)
(* What the store is worth after a crash, for every distance between       *)
(* process and store and any number of incidents: how many effects a crash *)
(* can forget, how often the action can be carried out at all, and where a *)
(* replay may leave the path of the run it replays.                        *)
(***************************************************************************)
EXTENDS ThreadProofs

-------------------------------------------------------------------------------
(* One step of the thread *)

\* The edges of the graph.
Successors(n) ==
  CASE n = "intake"       -> {"classify"}
    [] n = "classify"     -> {"answer", "tool", "clarify", "risky_action", "retry"}
    [] n = "risky_action" -> {"approval"}
    [] n = "approval"     -> {"tool", "clarify"}
    [] n = "tool"         -> {"evaluate"}
    [] n = "evaluate"     -> {"retry", "answer"}
    [] n = "retry"        -> {"tool", "dead_letter"}
    [] n \in ReplyNodes   -> {"finalize"}
    [] OTHER              -> {"END"}

\* The edges, one by one.
LEMMA Edges ==
  /\ Successors("intake") = {"classify"}
  /\ Successors("classify") = {"answer", "tool", "clarify", "risky_action", "retry"}
  /\ Successors("risky_action") = {"approval"}
  /\ Successors("approval") = {"tool", "clarify"}
  /\ Successors("tool") = {"evaluate"}
  /\ Successors("evaluate") = {"retry", "answer"}
  /\ Successors("retry") = {"tool", "dead_letter"}
  /\ \A n \in ReplyNodes : Successors(n) = {"finalize"}
  /\ Successors("finalize") = {"END"}
BY DEF Successors, ReplyNodes

\* A super-step that runs follows an edge; retry leads to the tool only while an
\* attempt is left.
LEMMA EngineMoves ==
  ASSUME TypeOK, Engine, superstep' # superstep
  PROVE  /\ node' \in Successors(node)
         /\ node = "retry" /\ node' = "tool" => state'.attempt < state'.max_attempts
<1>1. CASE Intake \/ Tool \/ RiskyAction \/ Finalize
  <2>1. <<node, node'>> \in {<<"intake", "classify">>, <<"tool", "evaluate">>,
                            <<"risky_action", "approval">>, <<"finalize", "END">>}
    BY <1>1 DEF Intake, Tool, RiskyAction, Finalize, AtNode, Advance
  <2> QED BY <2>1, Edges
<1>2. CASE Classify
  <2>1. node = "classify" /\ \E s : node' = route_after_classify(s)
    BY <1>2 DEF Classify, AtNode, Advance
  <2> QED BY <2>1, RouterTypes, Edges
<1>3. CASE MockApproval
  <2>1. node = "approval" /\ \E s : node' = route_after_approval(s)
    BY <1>3 DEF MockApproval, AtNode, Advance
  <2> QED BY <2>1, RouterTypes, Edges
<1>4. CASE Evaluate
  <2>1. node = "evaluate" /\ \E s : node' = route_after_evaluate(s)
    BY <1>4 DEF Evaluate, AtNode, Advance
  <2> QED BY <2>1, RouterTypes, Edges
<1>5. CASE Answer \/ Clarify \/ DeadLetter
  <2>1. node \in ReplyNodes /\ node' = "finalize"
    BY <1>5 DEF Answer, Clarify, DeadLetter, AtNode, Advance, ReplyNodes
  <2> QED BY <2>1, Edges DEF ReplyNodes
<1>6. CASE Retry
  <2>1. node = "retry" /\ node' = route_after_retry(state')
    BY <1>6 DEF Retry, AtNode, Advance
  <2> QED BY <2>1, Edges DEF route_after_retry
<1>7. CASE Interrupt \/ RaiseRecursionError
  BY <1>7 DEF Interrupt, RaiseRecursionError
<1> QED BY <1>1, <1>2, <1>3, <1>4, <1>5, <1>6, <1>7 DEF Engine

\* The thread moves on: a super-step that runs, or a decision of a human.
Proceeds == (Superstep /\ superstep' # superstep) \/ ResumeThread

\* What a thread that moves on changes.
LEMMA ProceedsEffect ==
  ASSUME ThreadOK, Proceeds
  PROVE  /\ node \in NodeNames /\ Wrote(node) /\ node' \in Successors(node)
         /\ node = "retry" /\ node' = "tool" => state'.attempt < state'.max_attempts
         /\ Log' = Append(Log, snapshot(state', node')) /\ history' = history
         /\ effects' = IF CarriesOutAction THEN effects + 1 ELSE effects
         /\ status # "crashed" /\ status' # "crashed"
         /\ UNCHANGED <<counts, kind, fork>>
<1>1. CASE Superstep /\ superstep' # superstep
  <2>1. TypeOK /\ TypeOK' /\ Engine
    BY <1>1, SuperstepTypes DEF ThreadOK, Superstep
  <2>2. Wrote(node) /\ node \in NodeNames
    BY <1>1, <2>1, EngineWrites
  <2>3. /\ node' \in Successors(node)
        /\ node = "retry" /\ node' = "tool" => state'.attempt < state'.max_attempts
    BY <1>1, <2>1, EngineMoves
  <2>4. Log' = Append(Log, snapshot(state', node'))
    BY <1>1, SuperstepLogs
  <2>5. status # "crashed" /\ status' # "crashed"
    BY <2>1 DEF TypeOK
  <2> QED BY <1>1, <2>2, <2>3, <2>4, <2>5 DEF Superstep
<1>2. CASE ResumeThread
  <2>1. TypeOK /\ Resume /\ (status = "interrupted" => node = "approval")
    BY <1>2, WorkflowTyped DEF ThreadOK, ThreadShape, ResumeThread, Returned
  <2>2. Wrote("approval") /\ node = "approval" /\ status = "interrupted"
        /\ status' = "running"
    BY <2>1, ResumeWrites
  <2>3. node' \in Successors(node)
    <3>1. \E s : node' = route_after_approval(s)
      BY <2>1 DEF Resume
    <3> QED BY <2>2, <3>1, RouterTypes, Edges
  <2>4. Log' = Append(Log, snapshot(state', node'))
    BY <1>2, ResumeLogs
  <2> QED BY <1>2, <2>2, <2>3, <2>4 DEF ResumeThread, CarriesOutAction, NodeNames
<1> QED BY <1>1, <1>2 DEF Proceeds

\* A refused super-step, a write to the store and a stutter leave the thread alone.
LEMMA Waits ==
  ASSUME ThreadOK,
         (Superstep /\ superstep' = superstep) \/ Save \/ UNCHANGED allvars
  PROVE  /\ UNCHANGED <<state, node, kind, counts, effects, fork>> /\ Log' = Log
         /\ status' = "crashed" <=> status = "crashed"
         /\ Len(history) <= Len(history')
<1>0. history \in Seq(Checkpoint)
  BY DEF ThreadOK, PersistenceTypeOK
<1>1. CASE Superstep /\ superstep' = superstep
  <2>1. TypeOK /\ TypeOK' /\ Engine
    BY <1>1, SuperstepTypes DEF ThreadOK, Superstep
  <2>2. UNCHANGED <<state, node>>
    BY <1>1, <2>1, EngineWrites
  <2> QED BY <1>0, <1>1, <2>1, <2>2, SuperstepLogs DEF Superstep, TypeOK
<1>2. CASE Save
  <2>1. Len(history) <= Len(history')
    BY <1>0, <1>2 DEF Save, ThreadOK, PersistenceTypeOK
  <2> QED BY <1>2, <2>1, SaveLogs DEF Save, vars
<1>3. CASE UNCHANGED allvars
  BY <1>0, <1>3 DEF allvars, vars, Log, counts
<1> QED BY <1>1, <1>2, <1>3

-------------------------------------------------------------------------------
(* Effects on record *)

\* The checkpoint of a tool call that carried out the action.
RecordsEffect(c) == c.next = "evaluate" /\ Last(c.values.tool_results) = "executed"

\* The records of effects in a log are finitely many positions of it.
LEMMA EffectsFinite ==
  ASSUME NEW log \in Seq(Checkpoint)
  PROVE  /\ EffectsIn(log) \subseteq 1..Len(log)
         /\ IsFiniteSet(EffectsIn(log)) /\ Cardinality(EffectsIn(log)) \in Nat
<1>1. EffectsIn(log) \subseteq 1..Len(log)
  BY DEF EffectsIn
<1>2. IsFiniteSet(1..Len(log))
  BY FS_Interval
<1> QED BY <1>1, <1>2, FS_Subset, FS_CardinalityType

\* A checkpoint added to a log adds its position if it records an effect.
LEMMA EffectsAppended ==
  ASSUME NEW log \in Seq(Checkpoint), NEW c \in Checkpoint
  PROVE  EffectsIn(Append(log, c)) =
           IF RecordsEffect(c) THEN EffectsIn(log) \cup {Len(log) + 1} ELSE EffectsIn(log)
<1>1. /\ DOMAIN log = 1..Len(log) /\ Len(log) \in Nat
      /\ DOMAIN Append(log, c) = 1..(Len(log) + 1)
      /\ Append(log, c)[Len(log) + 1] = c
      /\ \A i \in 1..Len(log) : Append(log, c)[i] = log[i]
  OBVIOUS
<1>2. EffectsIn(Append(log, c)) = {i \in 1..(Len(log) + 1) : RecordsEffect(Append(log, c)[i])}
  BY <1>1 DEF EffectsIn, RecordsEffect
<1>3. EffectsIn(log) = {i \in 1..Len(log) : RecordsEffect(log[i])}
  BY <1>1 DEF EffectsIn, RecordsEffect
<1>4. \A i : i \in 1..(Len(log) + 1) <=> i \in 1..Len(log) \/ i = Len(log) + 1
  BY <1>1
<1> HIDE DEF RecordsEffect
<1> QED BY <1>1, <1>2, <1>3, <1>4

\* The thread moves on: the log records the effect of the step, if it has one.
LEMMA ProceedsRecords ==
  ASSUME ThreadOK, Proceeds
  PROVE  EffectsIn(Log') = IF CarriesOutAction THEN EffectsIn(Log) \cup {Len(Log) + 1}
                           ELSE EffectsIn(Log)
<1>1. /\ node \in NodeNames /\ Wrote(node) /\ node' \in Successors(node)
      /\ Log' = Append(Log, snapshot(state', node'))
  BY ProceedsEffect
<1>2. Log \in Seq(Checkpoint) /\ state \in AgentStates /\ state' \in AgentStates
  BY <1>1, LogShape DEF ThreadOK, PersistenceTypeOK, Wrote
<1>3. node' = "evaluate" <=> node = "tool"
  BY <1>1, Edges DEF NodeNames, ReplyNodes
<1>4. node' \in NodeNames \cup {"__start__", "END"}
  BY <1>1, Edges DEF NodeNames, ReplyNodes
<1>5. node = "tool" => Last(state'.tool_results) = tool_result(state)
  <2> SUFFICES ASSUME node = "tool" PROVE Last(state'.tool_results) = tool_result(state)
    OBVIOUS
  <2>1. state'.tool_results = Append(state.tool_results, tool_result(state))
    BY <1>1 DEF Wrote
  <2>2. state.tool_results \in Seq(ToolResults) /\ tool_result(state) \in ToolResults
    BY <1>2, FieldTypes DEF tool_result, ToolResults
  <2> QED BY <2>1, <2>2 DEF Last
<1>6. RecordsEffect(snapshot(state', node')) <=> CarriesOutAction
  <2>1. RecordsEffect(snapshot(state', node')) <=>
          node' = "evaluate" /\ Last(state'.tool_results) = "executed"
    BY DEF RecordsEffect, snapshot
  <2> QED BY <1>3, <1>5, <2>1 DEF CarriesOutAction
<1>7. snapshot(state', node') \in Checkpoint
  BY <1>2, <1>4, SnapshotType
<1> QED BY <1>1, <1>2, <1>6, <1>7, EffectsAppended

\* A thread that is taken up, or given another input, records no effect.
LEMMA Restarts ==
  ASSUME ThreadOK, Recover \/ Replay \/ InvokeAgain
  PROVE  /\ Log = history /\ history' = history /\ EffectsIn(Log') = EffectsIn(Log)
         /\ UNCHANGED <<kind, effects, crashes>> /\ status' # "crashed"
         /\ Len(Log) <= Len(Log') /\ \A i \in 1..Len(Log) : Log'[i] = Log[i]
<1>0. Log \in Seq(Checkpoint) /\ Len(Log) \in Nat
  BY LogShape DEF ThreadOK
<1>1. ASSUME NEW c \in Checkpoint, TakeUp(c), unsaved = <<>>
      PROVE  /\ Log = history /\ history' = history /\ EffectsIn(Log') = EffectsIn(Log)
             /\ UNCHANGED <<kind, effects>> /\ status' # "crashed"
             /\ Len(Log) <= Len(Log') /\ \A i \in 1..Len(Log) : Log'[i] = Log[i]
  <2>1. CASE c.next = "__start__"
    <3>1. Log = history /\ Log' = Append(Log, snapshot(c.values, "intake"))
      BY <1>1, <2>1, TakeUpLogs
    <3>2. snapshot(c.values, "intake") \in Checkpoint
      BY CheckpointFields, SnapshotType DEF NodeNames
    <3>3. ~RecordsEffect(snapshot(c.values, "intake"))
      BY DEF RecordsEffect, snapshot
    <3>4. Len(Log') = Len(Log) + 1 /\ \A i \in 1..Len(Log) : Log'[i] = Log[i]
      BY <1>0, <3>1, <3>2
    <3> QED BY <1>0, <1>1, <3>1, <3>2, <3>3, <3>4, EffectsAppended DEF TakeUp
  <2>2. CASE c.next # "__start__"
    BY <1>0, <1>1, <2>2, TakeUpLogs DEF TakeUp
  <2> QED BY <2>1, <2>2
<1>2. CASE Recover
  BY <1>1, <1>2, TakenFrom DEF Recover, ThreadOK, ThreadShape, counts
<1>3. CASE Replay
  BY <1>1, <1>3, TakenFrom DEF Replay, Returned, ThreadOK, ThreadShape
<1>4. CASE InvokeAgain
  <2>1. /\ Log = history /\ Len(Log') = Len(Log) + 2
        /\ \A i \in 1..Len(Log) : Log'[i] = Log[i]
        /\ Log' = Log \o InputCheckpoints(state')
    BY <1>4, InvokeLogs
  <2>2. InputCheckpoints(state') = <<snapshot(state', "__start__"), snapshot(state', "intake")>>
    BY DEF InputCheckpoints
  <2>3. state' \in AgentStates
    BY <1>4, InvokedState DEF ThreadOK
  <2>4. snapshot(state', "__start__") \in Checkpoint /\ snapshot(state', "intake") \in Checkpoint
    BY <2>3, SnapshotType DEF NodeNames
  <2>5. Log' = Append(Append(Log, snapshot(state', "__start__")), snapshot(state', "intake"))
    BY <1>0, <2>1, <2>2, <2>4
  <2>6. /\ ~RecordsEffect(snapshot(state', "__start__"))
        /\ ~RecordsEffect(snapshot(state', "intake"))
    BY DEF RecordsEffect, snapshot
  <2>7. Append(Log, snapshot(state', "__start__")) \in Seq(Checkpoint)
    BY <1>0, <2>4
  <2>8. EffectsIn(Log') = EffectsIn(Log)
    BY <1>0, <2>4, <2>5, <2>6, <2>7, EffectsAppended
  <2> QED BY <1>0, <1>4, <2>1, <2>8 DEF InvokeAgain
<1> QED BY <1>2, <1>3, <1>4

\* No step rewrites a checkpoint.
LEMMA LogKept ==
  ASSUME ThreadOK, [PersistenceNext]_allvars
  PROVE  \A i \in DOMAIN Log \cap DOMAIN Log' : Log'[i] = Log[i]
<1>1. /\ Log \in Seq(Checkpoint) /\ DOMAIN Log = 1..Len(Log) /\ Len(Log) \in Nat
      /\ \A i \in 1..Len(history) : Log[i] = history[i]
  BY LogShape DEF ThreadOK
<1>2. CASE (Superstep /\ superstep' = superstep) \/ Save \/ UNCHANGED allvars
  BY <1>2, Waits
<1>3. CASE Proceeds
  <2>1. Log' = Append(Log, snapshot(state', node'))
    BY <1>3, ProceedsEffect
  <2> QED BY <1>1, <2>1
<1>4. CASE Crash
  <2>1. Log' \in {history, <<>>} /\ history \in Seq(Checkpoint)
    BY <1>4, CrashLogs DEF ThreadOK, PersistenceTypeOK
  <2> QED BY <1>1, <2>1
<1>5. CASE Recover \/ Replay \/ InvokeAgain
  BY <1>1, <1>5, Restarts
<1> QED BY <1>2, <1>3, <1>4, <1>5 DEF PersistenceNext, Proceeds

-------------------------------------------------------------------------------
(* What a crash can forget *)

\* Effects one crash can forget.
Forgettable == WriteBehind \div 3 + 1

\* How far the next tool call is away, out of three super-steps per call.
Phase(n) ==
  CASE n = "retry" -> 1
    [] n \in ReplyNodes \cup {"evaluate", "finalize", "END"} -> 2
    [] OTHER -> 0

\* The effects recorded after position i of the log.
Late(i) == {j \in EffectsIn(Log) : j > i}

\* Between two calls of the tool lie two other super-steps, so that the end of the
\* log that the store does not hold records few effects.
WindowInv ==
  \A i \in Len(history)..Len(Log) :
    3 * Cardinality(Late(i)) <= Len(Log) - i + Phase(node)

\* The inductive invariant: few effects on their way, few forgotten.
ForgetInv == WindowInv /\ OnlyCrashesForgetEffects

\* The constants of the bound.
LEMMA ForgettableType ==
  /\ Forgettable \in Nat
  /\ \A n \in Nat : 3 * n <= Ahead + 2 => n <= Forgettable
BY WriteBehindAssumption DEF Forgettable, Ahead, AtLeastOne

\* A super-step brings the next call nearer by one at most, a call moves it away.
LEMMA PhaseAfter ==
  ASSUME NEW n \in NodeNames, NEW m \in Successors(n)
  PROVE  Phase(m) + 1 >= Phase(n) + (IF n = "tool" THEN 3 ELSE 0)
BY Edges DEF Phase, NodeNames, ReplyNodes

\* A phase is at most two super-steps.
LEMMA PhaseType == \A n : Phase(n) \in 0..2
BY DEF Phase

\* Nothing is recorded after the end of a log.
LEMMA NothingLater ==
  ASSUME NEW log \in Seq(Checkpoint), NEW i \in Int, i >= Len(log)
  PROVE  Cardinality({j \in EffectsIn(log) : j > i}) = 0
<1>1. {j \in EffectsIn(log) : j > i} = {}
  BY EffectsFinite
<1> QED BY <1>1, FS_EmptySet

\* A thread starts with nothing recorded and nothing carried out.
LEMMA ForgetInit == PersistenceInit => ForgetInv
<1> SUFFICES ASSUME PersistenceInit PROVE ForgetInv
  OBVIOUS
<1>1. PersistenceTypeOK /\ state \in AgentStates
  BY ThreadTypesInit DEF PersistenceTypeOK
<1>2. history = <<>> /\ unsaved \in Seq(Checkpoint) /\ unsaved = InputCheckpoints(state)
  BY <1>1 DEF PersistenceInit, PersistenceTypeOK
<1>3. Log = unsaved
  BY <1>2, ConcatEmptySeq DEF Log
<1>4. /\ Len(Log) = 2 /\ DOMAIN Log = 1..2 /\ Log[1].next = "__start__"
      /\ Log[2].next = "intake" /\ Len(history) = 0
  <2>1. Len(unsaved) = 2 /\ Len(history) = 0
    BY <1>1, <1>2, SnapshotType
  <2>2. unsaved[1] = snapshot(state, "__start__") /\ unsaved[2] = snapshot(state, "intake")
    BY <1>1, <1>2, SnapshotType
  <2>3. DOMAIN unsaved = 1..2
    BY <1>2, <2>1
  <2> QED BY <1>3, <2>1, <2>2, <2>3 DEF snapshot
<1>5. EffectsIn(Log) = {}
  BY <1>4 DEF EffectsIn
<1>6. \A i : Late(i) = {}
  BY <1>5 DEF Late
<1>7. WindowInv
  <2>1. \A i : Cardinality(Late(i)) = 0
    BY <1>6, FS_EmptySet
  <2> QED BY <1>4, <2>1, PhaseType DEF WindowInv
<1>8. OnlyCrashesForgetEffects
  <2>1. Cardinality(EffectsIn(Log)) = 0 /\ effects = 0 /\ crashes = 0
    BY <1>5, FS_EmptySet DEF PersistenceInit
  <2> QED BY <2>1, ForgettableType DEF OnlyCrashesForgetEffects, Forgettable
<1> QED BY <1>7, <1>8 DEF ForgetInv

\* A thread that moves on keeps the window small and the books balanced.
LEMMA ProceedsForgets == ThreadOK /\ ForgetInv /\ Proceeds => ForgetInv'
<1> SUFFICES ASSUME ThreadOK, ForgetInv, Proceeds PROVE ForgetInv'
  OBVIOUS
<1>1. /\ node \in NodeNames /\ node' \in Successors(node) /\ history' = history
      /\ Log' = Append(Log, snapshot(state', node'))
      /\ effects' = IF CarriesOutAction THEN effects + 1 ELSE effects
      /\ UNCHANGED <<crashes, kind>>
  BY ProceedsEffect DEF counts
<1>2. /\ Log \in Seq(Checkpoint) /\ Len(Log) \in Nat /\ Len(history) \in Nat
      /\ Len(history) <= Len(Log) /\ effects \in Nat
  BY LogShape DEF ThreadOK, PersistenceTypeOK
<1>3. Len(Log') = Len(Log) + 1 /\ Log' \in Seq(Checkpoint)
  <2>1. ThreadOK'
    BY ThreadNext DEF Proceeds, PersistenceNext
  <2>2. history' \in Seq(Checkpoint) /\ unsaved' \in Seq(Checkpoint)
    BY <2>1 DEF ThreadOK, PersistenceTypeOK
  <2>3. Log' \in Seq(Checkpoint)
    BY <2>2, ConcatProperties DEF Log
  <2> QED BY <1>1, <1>2, <2>3
<1>4. EffectsIn(Log') = IF CarriesOutAction THEN EffectsIn(Log) \cup {Len(Log) + 1}
                        ELSE EffectsIn(Log)
  BY ProceedsRecords
<1>5. /\ EffectsIn(Log) \subseteq 1..Len(Log) /\ IsFiniteSet(EffectsIn(Log))
      /\ Cardinality(EffectsIn(Log)) \in Nat
  BY <1>2, EffectsFinite
<1>6. ASSUME NEW i \in Len(history)..Len(Log)
      PROVE  /\ IsFiniteSet(Late(i)) /\ Cardinality(Late(i)) \in Nat
             /\ Cardinality(Late(i)') =
                  Cardinality(Late(i)) + (IF CarriesOutAction THEN 1 ELSE 0)
  <2>1. IsFiniteSet(Late(i)) /\ Cardinality(Late(i)) \in Nat
    <3>1. Late(i) \subseteq EffectsIn(Log)
      BY DEF Late
    <3> QED BY <1>5, <3>1, FS_Subset, FS_CardinalityType
  <2>2. CASE CarriesOutAction
    <3>1. Late(i)' = Late(i) \cup {Len(Log) + 1} /\ Len(Log) + 1 \notin Late(i)
      BY <1>2, <1>4, <1>5, <2>2 DEF Late
    <3> QED BY <2>1, <2>2, <3>1, FS_AddElement
  <2>3. CASE ~CarriesOutAction
    <3>1. Late(i)' = Late(i)
      BY <1>4, <2>3 DEF Late
    <3> QED BY <2>1, <2>3, <3>1
  <2> QED BY <2>1, <2>2, <2>3
<1>7. /\ Phase(node) \in 0..2 /\ Phase(node') \in 0..2
      /\ Phase(node') + 1 >= Phase(node) + (IF CarriesOutAction THEN 3 ELSE 0)
  BY <1>1, PhaseAfter, PhaseType DEF CarriesOutAction
<1>8. WindowInv'
  <2> SUFFICES ASSUME NEW i \in Len(history)..(Len(Log) + 1)
               PROVE  3 * Cardinality(Late(i)') <= Len(Log) + 1 - i + Phase(node')
    BY <1>1, <1>3 DEF WindowInv
  <2>1. CASE i = Len(Log) + 1
    <3>1. Cardinality(Late(i)') = 0
      BY <1>2, <1>3, <2>1, NothingLater DEF Late
    <3> QED BY <1>2, <1>7, <2>1, <3>1
  <2>2. CASE i # Len(Log) + 1
    <3>1. i \in Len(history)..Len(Log)
      BY <1>2, <2>2
    <3>2. 3 * Cardinality(Late(i)) <= Len(Log) - i + Phase(node)
      BY <3>1 DEF ForgetInv, WindowInv
    <3> QED BY <1>2, <1>6, <1>7, <3>1, <3>2
  <2> QED BY <2>1, <2>2
<1>9. OnlyCrashesForgetEffects'
  <2>1. effects' - Cardinality(EffectsIn(Log')) = effects - Cardinality(EffectsIn(Log))
    <3>1. CASE CarriesOutAction
      <4>1. Len(Log) + 1 \notin EffectsIn(Log)
        BY <1>2, <1>5
      <4>2. Cardinality(EffectsIn(Log')) = Cardinality(EffectsIn(Log)) + 1
        BY <1>4, <1>5, <3>1, <4>1, FS_AddElement
      <4> QED BY <1>1, <1>2, <1>5, <3>1, <4>2
    <3>2. CASE ~CarriesOutAction
      BY <1>1, <1>4, <3>2
    <3> QED BY <3>1, <3>2
  <2> QED BY <1>1, <2>1 DEF ForgetInv, OnlyCrashesForgetEffects, OutlivesProcess
<1> QED BY <1>8, <1>9 DEF ForgetInv

\* A crash forgets what was on its way, which is little.
LEMMA CrashForgets == ThreadOK /\ ForgetInv /\ Crash => ForgetInv'
<1> SUFFICES ASSUME ThreadOK, ForgetInv, Crash PROVE ForgetInv'
  OBVIOUS
<1>1. /\ Log \in Seq(Checkpoint) /\ Len(Log) \in Nat /\ Len(history) \in Nat
      /\ history \in Seq(Checkpoint) /\ Len(Log) = Len(history) + Len(unsaved)
      /\ Len(unsaved) <= Ahead /\ Len(unsaved) \in Nat /\ effects \in Nat /\ crashes \in Nat
      /\ \A i \in 1..Len(history) : Log[i] = history[i]
  BY LogShape, BoundTypes DEF ThreadOK, PersistenceTypeOK, Ahead
<1>2. /\ history' \in Seq(Checkpoint) /\ Log' = history'
      /\ effects' = effects /\ crashes' = crashes + 1 /\ kind' = kind
      /\ node' = node
  BY <1>1, CrashLogs DEF Crash
<1>3. WindowInv'
  <2> SUFFICES ASSUME NEW i \in Len(history')..Len(Log')
               PROVE  3 * Cardinality(Late(i)') <= Len(Log') - i + Phase(node')
    BY DEF WindowInv
  <2>1. i = Len(Log') /\ Len(Log') \in Nat
    BY <1>2
  <2>2. Cardinality(Late(i)') = 0
    BY <1>2, <2>1, NothingLater DEF Late
  <2> QED BY <2>1, <2>2, PhaseType
<1>4. OnlyCrashesForgetEffects'
  <2> SUFFICES ASSUME OutlivesProcess
               PROVE  effects - Cardinality(EffectsIn(history))
                        \in 0..((crashes + 1) * Forgettable)
    BY <1>2, CrashLogs DEF OnlyCrashesForgetEffects, OutlivesProcess, Forgettable
  <2> DEFINE kept == EffectsIn(history)
             lost == Late(Len(history))
  <2>1. EffectsIn(Log) = kept \cup lost /\ kept \cap lost = {}
    <3>1. EffectsIn(Log) \subseteq 1..Len(Log) /\ kept \subseteq 1..Len(history)
      BY <1>1, EffectsFinite
    <3>2. \A i \in 1..Len(history) : i \in EffectsIn(Log) <=> i \in kept
      BY <1>1 DEF EffectsIn
    <3> QED BY <1>1, <3>1, <3>2 DEF Late
  <2>2. IsFiniteSet(kept) /\ Cardinality(kept) \in Nat
    BY <1>1, EffectsFinite
  <2>3. IsFiniteSet(lost) /\ Cardinality(lost) \in Nat
    <3>1. lost \subseteq EffectsIn(Log) /\ IsFiniteSet(EffectsIn(Log))
      BY <1>1, EffectsFinite DEF Late
    <3> QED BY <3>1, FS_Subset, FS_CardinalityType
  <2>4. Cardinality(EffectsIn(Log)) = Cardinality(kept) + Cardinality(lost)
    <3>1. Cardinality(kept \cap lost) = 0
      BY <2>1, FS_EmptySet
    <3> HIDE DEF kept, lost
    <3>2. Cardinality(kept \cup lost) =
            Cardinality(kept) + Cardinality(lost) - Cardinality(kept \cap lost)
      BY <2>2, <2>3, FS_Union
    <3> QED BY <2>1, <2>2, <2>3, <3>1, <3>2
  <2>5. Cardinality(lost) <= Forgettable
    <3>1. 3 * Cardinality(lost) <= Len(unsaved) + Phase(node)
      BY <1>1 DEF ForgetInv, WindowInv
    <3>2. 3 * Cardinality(lost) <= Ahead + 2
      BY <1>1, <2>3, <3>1, PhaseType, AheadType
    <3> QED BY <2>3, <3>2, ForgettableType
  <2>6. effects - Cardinality(EffectsIn(Log)) \in 0..(crashes * Forgettable)
    BY DEF ForgetInv, OnlyCrashesForgetEffects, Forgettable
  <2>7. (crashes + 1) * Forgettable = crashes * Forgettable + Forgettable
    BY <1>1, ForgettableType
  <2>8. crashes * Forgettable \in Nat
    BY <1>1, ForgettableType
  <2> HIDE DEF kept, lost
  <2> QED BY <1>1, <2>2, <2>3, <2>4, <2>5, <2>6, <2>7, <2>8, ForgettableType DEF kept
<1> QED BY <1>3, <1>4 DEF ForgetInv

\* Every step keeps the window small and the books balanced.
LEMMA ForgetNext == ThreadOK /\ ForgetInv /\ [PersistenceNext]_allvars => ForgetInv'
<1> SUFFICES ASSUME ThreadOK, ForgetInv, [PersistenceNext]_allvars PROVE ForgetInv'
  OBVIOUS
<1>1. /\ Log \in Seq(Checkpoint) /\ Len(Log) \in Nat /\ Len(history) \in Nat
      /\ Len(history) <= Len(Log)
  BY LogShape DEF ThreadOK
<1>2. CASE (Superstep /\ superstep' = superstep) \/ Save \/ UNCHANGED allvars
  <2>1. /\ UNCHANGED <<node, kind, effects, crashes>> /\ Log' = Log
        /\ Len(history) <= Len(history')
    BY <1>2, Waits DEF counts
  <2>2. Len(history') \in Nat
    <3>1. ThreadOK'
      BY ThreadNext
    <3> QED BY <3>1 DEF ThreadOK, PersistenceTypeOK
  <2>3. \A i \in Len(history')..Len(Log') : i \in Len(history)..Len(Log)
    BY <1>1, <2>1, <2>2
  <2>4. WindowInv'
    BY <2>1, <2>3 DEF ForgetInv, WindowInv, Late
  <2>5. OnlyCrashesForgetEffects'
    BY <2>1 DEF ForgetInv, OnlyCrashesForgetEffects, OutlivesProcess
  <2> QED BY <2>4, <2>5 DEF ForgetInv
<1>3. CASE Proceeds
  BY <1>3, ProceedsForgets
<1>4. CASE Crash
  BY <1>4, CrashForgets
<1>5. CASE Recover \/ Replay \/ InvokeAgain
  <2>1. /\ Log = history /\ history' = history /\ EffectsIn(Log') = EffectsIn(Log)
        /\ UNCHANGED <<kind, effects, crashes>> /\ Len(Log) <= Len(Log')
    BY <1>5, Restarts
  <2>2. Len(Log') \in Nat
    <3>1. ThreadOK'
      BY ThreadNext
    <3>2. history' \in Seq(Checkpoint) /\ unsaved' \in Seq(Checkpoint)
      BY <3>1 DEF ThreadOK, PersistenceTypeOK
    <3> QED BY <3>2, ConcatProperties DEF Log
  <2>3. WindowInv'
    <3> SUFFICES ASSUME NEW i \in Len(history')..Len(Log')
                 PROVE  3 * Cardinality(Late(i)') <= Len(Log') - i + Phase(node')
      BY DEF WindowInv
    <3>1. Cardinality(Late(i)') = 0
      BY <1>1, <2>1, <2>2, NothingLater DEF Late
    <3> QED BY <1>1, <2>1, <2>2, <3>1, PhaseType
  <2>4. OnlyCrashesForgetEffects'
    BY <2>1 DEF ForgetInv, OnlyCrashesForgetEffects, OutlivesProcess
  <2> QED BY <2>3, <2>4 DEF ForgetInv
<1> QED BY <1>2, <1>3, <1>4, <1>5 DEF PersistenceNext, Proceeds

\* Small windows and balanced books in every reachable state.
LEMMA ForgetInvariant == PersistenceSpec => []ForgetInv
BY ForgetInit, ForgetNext, ThreadInvariant, PTL DEF PersistenceSpec

\* With a store that outlives the process, an effect that no checkpoint records is
\* the fault of a crash, and no crash forgets more of them than fit into the
\* super-steps the process may be ahead (tool_node runs before its checkpoint).
THEOREM CrashesForgetFewEffects == PersistenceSpec => []OnlyCrashesForgetEffects
<1>1. ForgetInv => OnlyCrashesForgetEffects
  BY DEF ForgetInv
<1> QED BY <1>1, ForgetInvariant, PTL

-------------------------------------------------------------------------------
(* How often the action can be carried out *)

\* Tool calls a ticket s at node n may still make.
CallsLeft(s, n) ==
  LET limit == AtLeastOne(s.max_attempts)
  IN CASE n \in BeforeTheLoop         -> limit
       [] n = "tool"                  -> limit - s.attempt
       [] n \in {"evaluate", "retry"} -> limit - s.attempt - 1
       [] OTHER                       -> 0

\* A ticket in the retry loop has an attempt left.
AttemptLeft(s, n) ==
  /\ n \in BeforeTheLoop => s.attempt = 0
  /\ n \in {"tool", "evaluate", "retry"} => s.attempt < AtLeastOne(s.max_attempts)

\* Process and checkpoints have an attempt left in the loop.
AttemptInv ==
  /\ status # "crashed" => AttemptLeft(state, node)
  /\ \A i \in DOMAIN Log : AttemptLeft(Log[i].values, NodeToRun(Log[i]))

\* Effects the property allows when every budget is at most b.
Allowance(b) == (invocations + replays) * AtLeastOne(b) + crashes * Forgettable

\* Calls left to a process that is taken up at position i of the log.
LeftAt(i) == CallsLeft(Log[i].values, NodeToRun(Log[i]))

\* The effects so far and those to come stay within the allowance, for the process
\* and, up to the effects on their way, for one taken up at the end of the store.
Covered(b) ==
  /\ AtLeastOne(state.max_attempts) <= AtLeastOne(b)
  /\ \A i \in DOMAIN Log : AtLeastOne(Log[i].values.max_attempts) <= AtLeastOne(b)
  /\ effects <= Allowance(b)
  /\ status # "crashed" => effects + CallsLeft(state, node) <= Allowance(b)
  /\ \A i \in DOMAIN Log :
       i >= Len(history) =>
         3 * (effects + LeftAt(i) - Allowance(b)) <= Len(Log) - i + Phase(node)

\* The inductive invariant.
BudgetInv == AttemptInv /\ \E b \in Budgets : Covered(b)

\* The limit of a ticket is a positive number.
LEMMA LimitType == \A n \in Int : AtLeastOne(n) \in Nat /\ AtLeastOne(n) >= 1 /\ AtLeastOne(n) >= n
BY DEF AtLeastOne

\* What is left to a ticket is between nothing and its limit.
LEMMA CallsLeftType ==
  ASSUME NEW s \in AgentStates, NEW n, AttemptLeft(s, n)
  PROVE  CallsLeft(s, n) \in Nat /\ CallsLeft(s, n) <= AtLeastOne(s.max_attempts)
<1>1. /\ s.attempt \in Nat /\ AtLeastOne(s.max_attempts) \in Nat
      /\ AtLeastOne(s.max_attempts) >= 1
  BY FieldTypes, LimitType
<1>2. \/ CallsLeft(s, n) \in {AtLeastOne(s.max_attempts), 0}
      \/ /\ n \in {"tool", "evaluate", "retry"}
         /\ CallsLeft(s, n) \in {AtLeastOne(s.max_attempts) - s.attempt,
                                AtLeastOne(s.max_attempts) - s.attempt - 1}
  BY DEF CallsLeft
<1>3. n \in {"tool", "evaluate", "retry"} => s.attempt < AtLeastOne(s.max_attempts)
  BY DEF AttemptLeft
<1> QED BY <1>1, <1>2, <1>3

\* A call uses up one of the calls left, and no step adds any.
LEMMA CallsLeftAfter ==
  ASSUME state \in AgentStates, NEW n \in NodeNames, Wrote(n), node' \in Successors(n),
         n = "retry" /\ node' = "tool" => state'.attempt < state'.max_attempts,
         AttemptLeft(state, n)
  PROVE  /\ AttemptLeft(state', node')
         /\ CallsLeft(state', node') + (IF n = "tool" THEN 1 ELSE 0) <= CallsLeft(state, n)
         /\ state'.max_attempts = state.max_attempts
<1> DEFINE limit == AtLeastOne(state.max_attempts)
<1>1. /\ state'.max_attempts = state.max_attempts
      /\ state'.attempt = IF n = "retry" THEN state.attempt + 1 ELSE state.attempt
      /\ AtLeastOne(state'.max_attempts) = limit
  BY DEF Wrote
<1>2. /\ state.attempt \in Nat /\ state.max_attempts \in Int
      /\ limit \in Nat /\ limit >= 1 /\ limit >= state.max_attempts
  BY FieldTypes, LimitType
<1>3. /\ CallsLeft(state', node') =
           CASE node' \in BeforeTheLoop         -> limit
             [] node' = "tool"                  -> limit - state'.attempt
             [] node' \in {"evaluate", "retry"} -> limit - state'.attempt - 1
             [] OTHER                           -> 0
      /\ AttemptLeft(state', node') <=>
           /\ node' \in BeforeTheLoop => state'.attempt = 0
           /\ node' \in {"tool", "evaluate", "retry"} => state'.attempt < limit
  BY <1>1 DEF CallsLeft, AttemptLeft
<1>4. CASE n \in {"intake", "risky_action"}
  BY <1>1, <1>2, <1>3, <1>4, Edges DEF CallsLeft, AttemptLeft, BeforeTheLoop
<1>5. CASE n \in {"classify", "approval"}
  <2>1. /\ state'.attempt = 0 /\ state.attempt = 0 /\ CallsLeft(state, n) = limit
        /\ node' \in {"answer", "tool", "clarify", "risky_action", "retry"}
    BY <1>1, <1>2, <1>5, Edges DEF CallsLeft, AttemptLeft, BeforeTheLoop
  <2> QED BY <1>1, <1>2, <1>3, <1>5, <2>1 DEF BeforeTheLoop
<1>6. CASE n \in {"tool", "evaluate"}
  <2>1. /\ state'.attempt = state.attempt /\ state.attempt < limit
        /\ n = "tool" => node' = "evaluate"
        /\ n = "evaluate" => node' \in {"retry", "answer"}
    BY <1>1, <1>6, Edges DEF AttemptLeft
  <2>2. CallsLeft(state, n) =
          IF n = "tool" THEN limit - state.attempt ELSE limit - state.attempt - 1
    BY <1>6 DEF CallsLeft, BeforeTheLoop
  <2> QED BY <1>1, <1>2, <1>3, <1>6, <2>1, <2>2 DEF BeforeTheLoop
<1>7. CASE n = "retry"
  <2>1. /\ state'.attempt = state.attempt + 1 /\ state.attempt < limit
        /\ node' \in {"tool", "dead_letter"}
        /\ CallsLeft(state, n) = limit - state.attempt - 1
    BY <1>1, <1>7, Edges DEF AttemptLeft, CallsLeft, BeforeTheLoop
  <2>2. node' = "tool" => state'.attempt < limit
    BY <1>1, <1>2, <1>7, <2>1
  <2> QED BY <1>1, <1>2, <1>3, <1>7, <2>1, <2>2 DEF BeforeTheLoop
<1>8. CASE n \in ReplyNodes \cup {"finalize"}
  <2>1. node' \in {"finalize", "END"} /\ CallsLeft(state, n) = 0
    BY <1>8, Edges DEF CallsLeft, BeforeTheLoop, ReplyNodes
  <2> QED BY <1>1, <1>3, <1>8, <2>1 DEF BeforeTheLoop, ReplyNodes
<1> QED BY <1>4, <1>5, <1>6, <1>7, <1>8 DEF NodeNames, ReplyNodes

\* One more input or replay, and one more crash, allow for more.
LEMMA AllowanceGrows ==
  ASSUME NEW x \in Nat, NEW y \in Nat, NEW b \in Nat
  PROVE  /\ x * b + y * Forgettable \in Nat
         /\ (x + 1) * b + y * Forgettable = x * b + y * Forgettable + b
         /\ x * b + (y + 1) * Forgettable = x * b + y * Forgettable + Forgettable
<1>1. \A m, n \in Nat : m * n \in Nat
  OBVIOUS
<1>2. x * b \in Nat /\ y * Forgettable \in Nat
  BY <1>1, ForgettableType
<1>3. (y + 1) * Forgettable = y * Forgettable + Forgettable /\ (x + 1) * b = x * b + b
  BY ForgettableType
<1> QED BY <1>2, <1>3, ForgettableType

\* A bound that grows by as much as what it bounds.
LEMMA Shift ==
  ASSUME NEW e \in Int, NEW f \in Int, NEW c \in Int, NEW a \in Int,
         NEW l \in Int, NEW p \in Int, NEW q \in Int,
         3 * (e + c - a) <= l + p, q + 1 >= p + 3 * (f - e)
  PROVE  3 * (f + c - a) <= l + 1 + q
OBVIOUS

\* A larger budget allows for more.
LEMMA BudgetGrows ==
  ASSUME NEW x \in Nat, NEW b \in Nat, NEW c \in Nat, b <= c
  PROVE  x * b <= x * c
<1>1. \A m, n \in Nat : m * n \in Nat
  OBVIOUS
<1>2. c - b \in Nat
  OBVIOUS
<1>3. x * c = x * b + x * (c - b) /\ x * (c - b) \in Nat /\ x * b \in Nat
  BY <1>1, <1>2
<1> QED BY <1>3

\* The ranges of the numbers of the bound, before and after a step.
LEMMA AllowanceType ==
  ASSUME ThreadOK, NEW b \in Budgets
  PROVE  /\ invocations + replays \in Nat /\ crashes \in Nat /\ effects \in Nat
         /\ AtLeastOne(b) \in Nat /\ AtLeastOne(b) >= 1 /\ Allowance(b) \in Nat
<1>1. /\ invocations \in Nat /\ replays \in Nat /\ crashes \in Nat /\ effects \in Nat
  BY BoundTypes DEF ThreadOK, PersistenceTypeOK
<1>2. AtLeastOne(b) \in Nat /\ AtLeastOne(b) >= 1
  BY LimitType, BudgetsAssumption
<1>3. invocations + replays \in Nat
  BY <1>1
<1>4. (invocations + replays) * AtLeastOne(b) + crashes * Forgettable \in Nat
  BY <1>1, <1>2, <1>3, AllowanceGrows
<1> QED BY <1>1, <1>2, <1>3, <1>4 DEF Allowance

\* Every step leaves an attempt to what is in the loop.
LEMMA AttemptNext == ThreadOK /\ AttemptInv /\ [PersistenceNext]_allvars => AttemptInv'
<1> SUFFICES ASSUME ThreadOK, AttemptInv, [PersistenceNext]_allvars PROVE AttemptInv'
  OBVIOUS
<1>1. ASSUME status' # "crashed" PROVE AttemptLeft(state', node')
  <2>1. CASE Proceeds
    <3>1. state \in AgentStates /\ status # "crashed"
      BY <2>1, ProceedsEffect DEF ThreadOK, PersistenceTypeOK
    <3>2. /\ node \in NodeNames /\ Wrote(node) /\ node' \in Successors(node)
          /\ node = "retry" /\ node' = "tool" => state'.attempt < state'.max_attempts
      BY <2>1, ProceedsEffect
    <3>3. AttemptLeft(state, node)
      BY <3>1 DEF AttemptInv
    <3> QED BY <3>1, <3>2, <3>3, CallsLeftAfter
  <2>2. CASE (Superstep /\ superstep' = superstep) \/ Save \/ UNCHANGED allvars
    BY <1>1, <2>2, Waits DEF AttemptInv
  <2>3. ASSUME NEW i \in DOMAIN Log, TakeUp(Log[i]) PROVE AttemptLeft(state', node')
    BY <2>3 DEF TakeUp, AttemptInv
  <2>4. ASSUME history # <<>>
        PROVE  /\ Len(history) \in DOMAIN Log /\ Log[Len(history)] = Latest
               /\ Middle \in DOMAIN Log /\ Log[Middle] = history[Middle]
    BY <2>4, TakenFrom, LogShape DEF ThreadOK
  <2>5. CASE Recover
    BY <2>3, <2>4, <2>5 DEF Recover
  <2>6. CASE Replay
    BY <2>3, <2>4, <2>6 DEF Replay, Returned, ThreadOK, ThreadShape
  <2>7. CASE InvokeAgain
    BY <2>7, InvokedState DEF InvokeAgain, ThreadOK, AttemptLeft
  <2>8. CASE Crash
    BY <1>1, <2>8 DEF Crash
  <2> QED BY <2>1, <2>2, <2>5, <2>6, <2>7, <2>8 DEF PersistenceNext, Proceeds
<1>2. ASSUME NEW i \in DOMAIN Log'
      PROVE  AttemptLeft(Log'[i].values, NodeToRun(Log'[i]))
  BY <1>1, <1>2, NewCheckpoints DEF AttemptInv
<1> QED BY <1>1, <1>2 DEF AttemptInv

\* A thread that moves on stays covered by its budget.
LEMMA ProceedsCovered ==
  ASSUME ThreadOK, AttemptInv, NEW b \in Budgets, Covered(b), Proceeds
  PROVE  Covered(b)'
<1>1. /\ node \in NodeNames /\ Wrote(node) /\ node' \in Successors(node)
      /\ node = "retry" /\ node' = "tool" => state'.attempt < state'.max_attempts
      /\ Log' = Append(Log, snapshot(state', node')) /\ history' = history
      /\ effects' = IF CarriesOutAction THEN effects + 1 ELSE effects
      /\ status # "crashed" /\ Allowance(b)' = Allowance(b)
  BY ProceedsEffect DEF Allowance, counts
<1>2. /\ Log \in Seq(Checkpoint) /\ Len(Log) \in Nat /\ Len(history) \in Nat
      /\ state \in AgentStates /\ state' \in AgentStates
  BY <1>1, LogShape DEF ThreadOK, PersistenceTypeOK, Wrote
<1>3. /\ snapshot(state', node') \in Checkpoint
      /\ snapshot(state', node').values = state'
      /\ NodeToRun(snapshot(state', node')) = node'
  <2>1. node' \in NodeNames \cup {"END"}
    BY <1>1, Edges DEF NodeNames, ReplyNodes
  <2> QED BY <1>2, <2>1, SnapshotType DEF snapshot, NodeToRun, NodeNames
<1>4. /\ DOMAIN Log = 1..Len(Log) /\ DOMAIN Log' = 1..(Len(Log) + 1)
      /\ Len(Log') = Len(Log) + 1 /\ Log'[Len(Log) + 1] = snapshot(state', node')
      /\ \A i \in 1..Len(Log) : Log'[i] = Log[i]
  BY <1>1, <1>2, <1>3
<1>5. AttemptLeft(state, node) /\ AttemptLeft(state', node')
  BY <1>1, <1>2, CallsLeftAfter DEF AttemptInv
<1>6. /\ CallsLeft(state, node) \in Nat /\ CallsLeft(state', node') \in Nat
      /\ CallsLeft(state', node') + (IF node = "tool" THEN 1 ELSE 0) <= CallsLeft(state, node)
      /\ state'.max_attempts = state.max_attempts
  BY <1>1, <1>2, <1>5, CallsLeftAfter, CallsLeftType
<1>7. /\ effects \in Nat /\ Allowance(b) \in Nat
      /\ effects + CallsLeft(state, node) <= Allowance(b)
  BY <1>1, AllowanceType DEF Covered
<1>8. effects' \in Nat /\ effects' + CallsLeft(state', node') <= Allowance(b)
  BY <1>1, <1>6, <1>7 DEF CarriesOutAction
<1>9. /\ Phase(node) \in 0..2 /\ Phase(node') \in 0..2
      /\ Phase(node') + 1 >= Phase(node) + 3 * (effects' - effects)
  BY <1>1, <1>7, PhaseAfter, PhaseType DEF CarriesOutAction
<1>10. ASSUME NEW i \in 1..(Len(Log) + 1), i >= Len(history)
       PROVE  3 * (effects' + LeftAt(i)' - Allowance(b)) <= Len(Log) + 1 - i + Phase(node')
  <2>1. CASE i = Len(Log) + 1
    <3>1. LeftAt(i)' = CallsLeft(state', node')
      BY <1>3, <1>4, <2>1 DEF LeftAt
    <3> QED BY <1>2, <1>6, <1>7, <1>8, <1>9, <2>1, <3>1
  <2>2. CASE i # Len(Log) + 1
    <3>1. i \in 1..Len(Log)
      BY <1>2, <2>2
    <3>2. LeftAt(i)' = LeftAt(i)
      BY <1>4, <3>1 DEF LeftAt
    <3>3. 3 * (effects + LeftAt(i) - Allowance(b)) <= Len(Log) - i + Phase(node)
      BY <1>4, <1>10, <3>1 DEF Covered
    <3>4. LeftAt(i) \in Nat
      <4>1. Log[i] \in Checkpoint /\ AttemptLeft(Log[i].values, NodeToRun(Log[i]))
        BY <1>2, <1>4, <3>1 DEF AttemptInv
      <4> QED BY <4>1, CheckpointFields, CallsLeftType DEF LeftAt
    <3>5. /\ Phase(node) \in Int /\ Phase(node') \in Int /\ effects' \in Int /\ effects \in Int
          /\ i \in Int
      BY <1>2, <1>7, <1>8, <1>9
    <3>6. 3 * (effects' + LeftAt(i) - Allowance(b)) <= Len(Log) + 1 - i + Phase(node')
      <4>1. Allowance(b) \in Int /\ LeftAt(i) \in Int /\ Len(Log) - i \in Int
        BY <1>2, <1>7, <3>4, <3>5
      <4>2. Len(Log) - i + 1 = Len(Log) + 1 - i
        BY <1>2, <3>5
      <4>3. 3 * (effects' + LeftAt(i) - Allowance(b)) <= Len(Log) - i + 1 + Phase(node')
        BY <1>9, <3>3, <3>5, <4>1, Shift
      <4> QED BY <4>2, <4>3
    <3> QED BY <3>2, <3>6
  <2> QED BY <2>1, <2>2
<1>11. \A i \in DOMAIN Log' : AtLeastOne(Log'[i].values.max_attempts) <= AtLeastOne(b)
  BY <1>3, <1>4, <1>6 DEF Covered
<1>12. effects' <= Allowance(b)
  BY <1>6, <1>7, <1>8
<1>13. \A i \in DOMAIN Log' :
         i >= Len(history') =>
           3 * (effects' + LeftAt(i)' - Allowance(b)') <= Len(Log') - i + Phase(node')
  BY <1>1, <1>4, <1>10
<1>14. /\ AtLeastOne(state'.max_attempts) <= AtLeastOne(b)
       /\ effects' + CallsLeft(state', node') <= Allowance(b)'
       /\ effects' <= Allowance(b)'
  BY <1>1, <1>6, <1>8, <1>12 DEF Covered
<1> QED BY <1>11, <1>13, <1>14 DEF Covered

\* A crash adds to the allowance what it forgets.
LEMMA CrashCovered ==
  ASSUME ThreadOK, AttemptInv, NEW b \in Budgets, Covered(b), Crash
  PROVE  Covered(b)'
<1>1. /\ Log \in Seq(Checkpoint) /\ DOMAIN Log = 1..Len(Log) /\ Len(Log) \in Nat
      /\ history \in Seq(Checkpoint) /\ Len(history) \in Nat
      /\ Len(Log) = Len(history) + Len(unsaved)
      /\ Len(unsaved) <= Ahead /\ Len(unsaved) \in Nat
      /\ \A i \in 1..Len(history) : Log[i] = history[i]
  BY LogShape DEF ThreadOK, PersistenceTypeOK, Ahead
<1>2. /\ status' = "crashed" /\ UNCHANGED <<state, node, effects>>
      /\ Log' = history' /\ crashes' = crashes + 1
      /\ history' = history \/ history' = <<>>
      /\ invocations' = invocations /\ replays' = replays
  BY CrashLogs DEF Crash
<1>3. /\ effects \in Nat /\ Allowance(b) \in Nat /\ AtLeastOne(b) \in Nat
      /\ Allowance(b)' = Allowance(b) + Forgettable
  <2>1. /\ effects \in Nat /\ Allowance(b) \in Nat /\ AtLeastOne(b) \in Nat
        /\ invocations + replays \in Nat /\ crashes \in Nat
    BY AllowanceType
  <2>2. (invocations + replays) * AtLeastOne(b) + (crashes + 1) * Forgettable
          = (invocations + replays) * AtLeastOne(b) + crashes * Forgettable + Forgettable
    BY <2>1, AllowanceGrows
  <2> QED BY <1>2, <2>1, <2>2 DEF Allowance
<1>4. \A i \in DOMAIN Log' : i \in 1..Len(history) /\ i \in DOMAIN Log /\ Log'[i] = Log[i]
  BY <1>1, <1>2
<1>5. ASSUME NEW i \in DOMAIN Log', i >= Len(history')
      PROVE  3 * (effects' + LeftAt(i)' - Allowance(b)') <= Len(Log') - i + Phase(node')
  <2>1. history' = history /\ i = Len(history) /\ i \in DOMAIN Log /\ Len(Log') = i
    BY <1>1, <1>2, <1>5
  <2>2. LeftAt(i)' = LeftAt(i)
    BY <1>4 DEF LeftAt
  <2>3. LeftAt(i) \in Nat
    <3>1. Log[i] \in Checkpoint /\ AttemptLeft(Log[i].values, NodeToRun(Log[i]))
      BY <1>1, <2>1 DEF AttemptInv
    <3> QED BY <3>1, CheckpointFields, CallsLeftType DEF LeftAt
  <2>4. 3 * (effects + LeftAt(i) - Allowance(b)) <= Len(unsaved) + Phase(node)
    BY <1>1, <2>1 DEF Covered
  <2>5. effects + LeftAt(i) - Allowance(b) <= Forgettable
    <3>1. 3 * (effects + LeftAt(i) - Allowance(b)) <= Ahead + 2
      BY <1>1, <1>3, <2>3, <2>4, PhaseType, AheadType
    <3>2. CASE effects + LeftAt(i) - Allowance(b) < 0
      BY <1>3, <2>3, <3>2, ForgettableType
    <3>3. CASE effects + LeftAt(i) - Allowance(b) >= 0
      <4>1. effects + LeftAt(i) - Allowance(b) \in Nat
        BY <1>3, <2>3, <3>3
      <4> QED BY <3>1, <4>1, ForgettableType
    <3> QED BY <1>3, <2>3, <3>2, <3>3
  <2> QED BY <1>2, <1>3, <2>1, <2>2, <2>3, <2>5, PhaseType, ForgettableType
<1>6. \A i \in DOMAIN Log' : AtLeastOne(Log'[i].values.max_attempts) <= AtLeastOne(b)
  BY <1>4 DEF Covered
<1>7. effects' <= Allowance(b)'
  BY <1>2, <1>3, ForgettableType DEF Covered
<1>8. AtLeastOne(state'.max_attempts) <= AtLeastOne(b)
  BY <1>2 DEF Covered
<1> QED BY <1>2, <1>5, <1>6, <1>7, <1>8 DEF Covered


\* A ticket that is taken up, or an input, is covered by the allowance it comes with.
LEMMA RestartCovered ==
  ASSUME ThreadOK, AttemptInv, Recover \/ Replay \/ InvokeAgain,
         NEW b \in Budgets, NEW d \in Budgets, Covered(b),
         AtLeastOne(b) <= AtLeastOne(d), Allowance(b) <= Allowance(d)',
         AtLeastOne(state'.max_attempts) <= AtLeastOne(d),
         effects + CallsLeft(state', node') <= Allowance(d)'
  PROVE  Covered(d)'
<1>1. /\ Log \in Seq(Checkpoint) /\ DOMAIN Log = 1..Len(Log) /\ Len(Log) \in Nat
      /\ Log = history /\ history' = history /\ effects' = effects
      /\ status' # "crashed" /\ Len(Log) <= Len(Log')
  BY Restarts, LogShape DEF ThreadOK
<1>2. ThreadOK' /\ AttemptInv'
  BY ThreadNext, AttemptNext DEF PersistenceNext
<1>3. DOMAIN Log' = 1..Len(Log') /\ Len(Log') \in Nat
  <2>1. history' \in Seq(Checkpoint) /\ unsaved' \in Seq(Checkpoint)
    BY <1>2 DEF ThreadOK, PersistenceTypeOK
  <2> QED BY <2>1, ConcatProperties DEF Log
<1>4. /\ effects \in Nat /\ Allowance(b) \in Nat /\ AtLeastOne(b) \in Nat
      /\ AtLeastOne(d) \in Nat
  BY AllowanceType
<1>5. Allowance(d)' \in Nat
  <2>1. /\ invocations' \in Nat /\ replays' \in Nat /\ crashes' \in Nat
    <3>1. /\ invocations' \in 1..(MaxInvocations + 1) /\ replays' \in 0..MaxReplays
          /\ crashes' \in 0..MaxCrashes
      BY <1>2 DEF ThreadOK, PersistenceTypeOK
    <3> QED BY <3>1, BoundTypes
  <2>2. invocations' + replays' \in Nat
    <3>1. \A m, n \in Nat : m + n \in Nat
      OBVIOUS
    <3> QED BY <2>1, <3>1
  <2>3. (invocations' + replays') * AtLeastOne(d) + crashes' * Forgettable \in Nat
    BY <1>4, <2>1, <2>2, AllowanceGrows
  <2> QED BY <2>3 DEF Allowance
<1>6. ASSUME NEW i \in DOMAIN Log'
      PROVE  \/ i \in DOMAIN Log /\ Log'[i] = Log[i]
             \/ Log'[i].values = state' /\ NodeToRun(Log'[i]) = node'
  BY <1>6, NewCheckpoints DEF PersistenceNext
<1>7. \A i \in DOMAIN Log' : AtLeastOne(Log'[i].values.max_attempts) <= AtLeastOne(d)
  <2> SUFFICES ASSUME NEW i \in DOMAIN Log'
               PROVE  AtLeastOne(Log'[i].values.max_attempts) <= AtLeastOne(d)
    OBVIOUS
  <2>1. CASE i \in DOMAIN Log /\ Log'[i] = Log[i]
    <3>1. AtLeastOne(Log[i].values.max_attempts) <= AtLeastOne(b)
      BY <2>1 DEF Covered
    <3>2. AtLeastOne(Log[i].values.max_attempts) \in Int
      <4>1. Log[i] \in Checkpoint
        BY <1>1, <2>1
      <4>2. Log[i].values \in AgentStates
        BY <4>1, CheckpointFields
      <4>3. Log[i].values.max_attempts \in Int
        BY <4>2, FieldTypes
      <4> QED BY <4>3, LimitType
    <3> QED BY <1>4, <2>1, <3>1, <3>2
  <2>2. CASE Log'[i].values = state'
    BY <2>2
  <2> QED BY <1>6, <2>1, <2>2
<1>8. ASSUME NEW i \in DOMAIN Log', i >= Len(history')
      PROVE  3 * (effects' + LeftAt(i)' - Allowance(d)') <= Len(Log') - i + Phase(node')
  <2>1. LeftAt(i)' \in Nat /\ effects + LeftAt(i)' <= Allowance(d)'
    <3>1. CASE i \in DOMAIN Log /\ Log'[i] = Log[i]
      <4>1. LeftAt(i)' = LeftAt(i) /\ i = Len(Log) /\ i >= Len(history)
        BY <1>1, <1>8, <3>1 DEF LeftAt
      <4>2. LeftAt(i) \in Nat
        <5>1. Log[i] \in Checkpoint /\ AttemptLeft(Log[i].values, NodeToRun(Log[i]))
          BY <1>1, <3>1 DEF AttemptInv
        <5> QED BY <5>1, CheckpointFields, CallsLeftType DEF LeftAt
      <4>3. 3 * (effects + LeftAt(i) - Allowance(b)) <= Len(Log) - i + Phase(node)
        BY <3>1, <4>1 DEF Covered
      <4>4. 3 * (effects + LeftAt(i) - Allowance(b)) <= 2
        BY <1>1, <1>4, <4>1, <4>2, <4>3, PhaseType
      <4>5. effects + LeftAt(i) <= Allowance(b)
        BY <1>4, <4>2, <4>4
      <4> QED BY <1>4, <1>5, <4>1, <4>2, <4>5
    <3>2. CASE Log'[i].values = state' /\ NodeToRun(Log'[i]) = node'
      <4>1. LeftAt(i)' = CallsLeft(state', node')
        BY <3>2 DEF LeftAt
      <4>2. state' \in AgentStates /\ AttemptLeft(state', node')
        BY <1>1, <1>2 DEF ThreadOK, PersistenceTypeOK, AttemptInv
      <4> QED BY <4>1, <4>2, CallsLeftType
    <3> QED BY <1>6, <3>1, <3>2
  <2>2. 3 * (effects + LeftAt(i)' - Allowance(d)') <= 0
    BY <1>4, <1>5, <2>1
  <2>3. 0 <= Len(Log') - i + Phase(node')
    BY <1>3, PhaseType
  <2>4. 3 * (effects + LeftAt(i)' - Allowance(d)') \in Int
    BY <1>4, <1>5, <2>1
  <2>5. Len(Log') - i + Phase(node') \in Int
    BY <1>3, PhaseType
  <2> HIDE DEF LeftAt, Allowance
  <2> QED BY <1>1, <2>2, <2>3, <2>4, <2>5
<1>9. effects' <= Allowance(d)'
  <2>1. effects <= Allowance(b)
    BY DEF Covered
  <2> QED BY <1>1, <1>4, <1>5, <2>1
<1> QED BY <1>1, <1>7, <1>8, <1>9 DEF Covered

\* A thread starts within the allowance of its input.
LEMMA BudgetInit == PersistenceInit => BudgetInv
<1> SUFFICES ASSUME PersistenceInit PROVE BudgetInv
  OBVIOUS
<1>1. /\ PersistenceTypeOK /\ state \in AgentStates /\ node = "intake"
      /\ history = <<>> /\ unsaved = InputCheckpoints(state)
      /\ effects = 0 /\ crashes = 0 /\ invocations = 1 /\ replays = 0
  BY ThreadTypesInit DEF PersistenceTypeOK, PersistenceInit, Init
<1>2. PICK budget \in Budgets : state.max_attempts = budget /\ state.attempt = 0
  <2>1. PICK query \in Queries, budget \in Budgets : state = initial_state(query, budget)
    BY DEF PersistenceInit, Init
  <2> QED BY <2>1 DEF initial_state
<1>3. /\ Log = unsaved /\ Len(Log) = 2 /\ DOMAIN Log = 1..2 /\ Len(history) = 0
  <2>1. unsaved \in Seq(Checkpoint) /\ Len(unsaved) = 2 /\ Len(history) = 0
    BY <1>1, SnapshotType
  <2>2. Log = unsaved
    BY <1>1, <2>1, ConcatEmptySeq DEF Log
  <2> QED BY <2>1, <2>2
<1>4. \A i \in DOMAIN Log : Log[i].values = state /\ NodeToRun(Log[i]) = "intake"
  <2>1. Log[1] = snapshot(state, "__start__") /\ Log[2] = snapshot(state, "intake")
    BY <1>1, <1>3, SnapshotType
  <2>2. /\ snapshot(state, "__start__").values = state
        /\ snapshot(state, "intake").values = state
        /\ NodeToRun(snapshot(state, "__start__")) = "intake"
        /\ NodeToRun(snapshot(state, "intake")) = "intake"
    BY DEF snapshot, NodeToRun
  <2> QED BY <1>3, <2>1, <2>2
<1>5. AttemptLeft(state, "intake") /\ CallsLeft(state, "intake") = AtLeastOne(budget)
  BY <1>2 DEF AttemptLeft, CallsLeft, BeforeTheLoop
<1>6. AttemptInv
  BY <1>1, <1>4, <1>5 DEF AttemptInv
<1>7. Allowance(budget) = AtLeastOne(budget)
  <2>1. (1 + 0) * AtLeastOne(budget) + 0 * Forgettable = AtLeastOne(budget)
    BY LimitType, BudgetsAssumption, ForgettableType
  <2> QED BY <1>1, <2>1 DEF Allowance
<1>8. AtLeastOne(budget) \in Nat
  BY LimitType, BudgetsAssumption
<1>9. \A i \in DOMAIN Log : LeftAt(i) = AtLeastOne(budget)
  BY <1>4, <1>5 DEF LeftAt
<1>10. Covered(budget)
  <2>1. \A i \in DOMAIN Log :
          3 * (effects + LeftAt(i) - Allowance(budget)) <= Len(Log) - i + Phase(node)
    BY <1>1, <1>3, <1>7, <1>8, <1>9, PhaseType
  <2> QED BY <1>1, <1>2, <1>4, <1>5, <1>7, <1>8, <2>1 DEF Covered
<1> QED BY <1>6, <1>10 DEF BudgetInv

\* A thread that is taken up at a checkpoint is covered by the same budget.
LEMMA TakenUpCovered ==
  ASSUME ThreadOK, AttemptInv, NEW b \in Budgets, Covered(b), Recover \/ Replay
  PROVE  Covered(b)'
<1>1. /\ effects \in Nat /\ AtLeastOne(b) \in Nat /\ Allowance(b) \in Nat
      /\ invocations + replays \in Nat /\ crashes \in Nat
      /\ invocations \in Nat /\ replays \in Nat
  BY AllowanceType, BoundTypes DEF ThreadOK, PersistenceTypeOK
<1>2. /\ history \in Seq(Checkpoint) /\ Log = history
      /\ DOMAIN Log = 1..Len(Log) /\ Len(Log) \in Nat
  BY Restarts, LogShape DEF ThreadOK, PersistenceTypeOK
<1>3. CASE Recover
  <2>1. /\ Len(history) \in DOMAIN Log /\ Log[Len(history)] = Latest /\ TakeUp(Latest)
    BY <1>2, <1>3, TakenFrom DEF ThreadOK, Recover
  <2>2. /\ state' = Latest.values /\ node' = NodeToRun(Latest)
        /\ Allowance(b)' = Allowance(b)
    BY <1>3, <2>1 DEF Recover, TakeUp, counts, Allowance
  <2>3. LeftAt(Len(history)) = CallsLeft(state', node')
    BY <2>1, <2>2 DEF LeftAt
  <2>4. /\ CallsLeft(state', node') \in Nat
        /\ AtLeastOne(state'.max_attempts) <= AtLeastOne(b)
    <3>1. Latest \in Checkpoint /\ AttemptLeft(Latest.values, NodeToRun(Latest))
      BY <1>2, <2>1 DEF AttemptInv
    <3>2. CallsLeft(state', node') \in Nat
      BY <2>2, <3>1, CheckpointFields, CallsLeftType
    <3> QED BY <2>1, <2>2, <3>2 DEF Covered
  <2>5. effects + CallsLeft(state', node') <= Allowance(b)
    <3>1. 3 * (effects + LeftAt(Len(history)) - Allowance(b)) <=
             Len(Log) - Len(history) + Phase(node)
      BY <1>2, <2>1 DEF Covered
    <3>2. 3 * (effects + CallsLeft(state', node') - Allowance(b)) <= 2
      BY <1>1, <1>2, <2>3, <2>4, <3>1, PhaseType
    <3> QED BY <1>1, <2>4, <3>2
  <2> QED BY <1>1, <1>3, <2>2, <2>4, <2>5, RestartCovered
<1>4. CASE Replay
  <2>1. /\ Middle \in DOMAIN Log /\ Log[Middle] = history[Middle] /\ TakeUp(history[Middle])
        /\ replays' = replays + 1 /\ invocations' = invocations /\ crashes' = crashes
    BY <1>2, <1>4, TakenFrom DEF ThreadOK, ThreadShape, Replay, Returned
  <2>2. /\ state' = history[Middle].values /\ node' = NodeToRun(history[Middle])
    BY <2>1 DEF TakeUp
  <2>3. Allowance(b)' = Allowance(b) + AtLeastOne(b)
    <3>1. invocations' + replays' = invocations + replays + 1
      BY <1>1, <2>1
    <3>2. (invocations + replays + 1) * AtLeastOne(b) + crashes * Forgettable
            = (invocations + replays) * AtLeastOne(b) + crashes * Forgettable + AtLeastOne(b)
      BY <1>1, AllowanceGrows
    <3> QED BY <2>1, <3>1, <3>2 DEF Allowance
  <2>4. /\ CallsLeft(state', node') \in Nat
        /\ CallsLeft(state', node') <= AtLeastOne(state'.max_attempts)
        /\ AtLeastOne(state'.max_attempts) \in Nat
        /\ AtLeastOne(state'.max_attempts) <= AtLeastOne(b)
    <3>1. history[Middle] \in Checkpoint
          /\ AttemptLeft(history[Middle].values, NodeToRun(history[Middle]))
      BY <1>2, <2>1 DEF AttemptInv
    <3>2. state' \in AgentStates /\ AttemptLeft(state', node')
      BY <2>2, <3>1, CheckpointFields
    <3>3. AtLeastOne(state'.max_attempts) <= AtLeastOne(b)
      BY <2>1, <2>2 DEF Covered
    <3> QED BY <3>2, <3>3, CallsLeftType, FieldTypes, LimitType
  <2>5. effects <= Allowance(b)
    BY DEF Covered
  <2>6. effects + CallsLeft(state', node') <= Allowance(b)'
    BY <1>1, <2>3, <2>4, <2>5
  <2>7. Allowance(b) <= Allowance(b)'
    BY <1>1, <2>3
  <2> QED BY <1>1, <1>4, <2>4, <2>6, <2>7, RestartCovered
<1> QED BY <1>3, <1>4

\* Another input is covered by the larger of its budget and those before it.
LEMMA InvokedCovered ==
  ASSUME ThreadOK, AttemptInv, NEW b \in Budgets, Covered(b), InvokeAgain
  PROVE  \E d \in Budgets : Covered(d)'
<1> DEFINE c == state'.max_attempts
<1>1. c \in Budgets /\ state' \in AgentStates /\ node' = "intake" /\ state'.attempt = 0
      /\ invocations' = invocations + 1 /\ replays' = replays /\ crashes' = crashes
  BY InvokedState DEF ThreadOK, InvokeAgain
<1>2. PICK d \in Budgets : AtLeastOne(b) <= AtLeastOne(d) /\ AtLeastOne(c) <= AtLeastOne(d)
  <2>1. AtLeastOne(b) \in Nat /\ AtLeastOne(c) \in Nat
    BY <1>1, AllowanceType
  <2>2. CASE AtLeastOne(b) <= AtLeastOne(c)
    BY <1>1, <2>1, <2>2
  <2>3. CASE AtLeastOne(c) <= AtLeastOne(b)
    BY <2>1, <2>3
  <2> QED BY <2>1, <2>2, <2>3
<1>3. /\ effects \in Nat /\ AtLeastOne(b) \in Nat /\ AtLeastOne(d) \in Nat
      /\ AtLeastOne(c) \in Nat /\ Allowance(b) \in Nat /\ Allowance(d) \in Nat
      /\ invocations + replays \in Nat /\ crashes \in Nat
      /\ invocations \in Nat /\ replays \in Nat
  BY <1>1, AllowanceType, BoundTypes DEF ThreadOK, PersistenceTypeOK
<1>4. Allowance(d)' = Allowance(d) + AtLeastOne(d)
  <2>1. invocations' + replays' = invocations + replays + 1
    BY <1>1, <1>3
  <2>2. (invocations + replays + 1) * AtLeastOne(d) + crashes * Forgettable
          = (invocations + replays) * AtLeastOne(d) + crashes * Forgettable + AtLeastOne(d)
    <3>1. invocations + replays \in Nat /\ crashes \in Nat /\ AtLeastOne(d) \in Nat
      BY <1>3
    <3> QED BY <3>1, AllowanceGrows
  <2> QED BY <1>1, <2>1, <2>2 DEF Allowance
<1>5. Allowance(b) <= Allowance(d)
  <2>1. (invocations + replays) * AtLeastOne(b) <= (invocations + replays) * AtLeastOne(d)
    BY <1>2, <1>3, BudgetGrows
  <2>2. /\ (invocations + replays) * AtLeastOne(b) \in Nat
        /\ (invocations + replays) * AtLeastOne(d) \in Nat /\ crashes * Forgettable \in Nat
    <3>1. \A m, n \in Nat : m * n \in Nat
      OBVIOUS
    <3> QED BY <1>3, <3>1, ForgettableType
  <2> QED BY <2>1, <2>2 DEF Allowance
<1>6. CallsLeft(state', node') = AtLeastOne(c)
  BY <1>1 DEF CallsLeft, BeforeTheLoop
<1>7. effects <= Allowance(b)
  BY DEF Covered
<1>8. /\ Allowance(b) <= Allowance(d)'
      /\ effects + CallsLeft(state', node') <= Allowance(d)'
  BY <1>2, <1>3, <1>4, <1>5, <1>6, <1>7
<1>9. Covered(d)'
  BY <1>2, <1>8, RestartCovered
<1> QED BY <1>9

\* Every step stays within the allowance.
LEMMA BudgetNext == ThreadOK /\ BudgetInv /\ [PersistenceNext]_allvars => BudgetInv'
<1> SUFFICES ASSUME ThreadOK, BudgetInv, [PersistenceNext]_allvars PROVE BudgetInv'
  OBVIOUS
<1>1. AttemptInv /\ AttemptInv'
  BY AttemptNext DEF BudgetInv
<1>2. PICK b \in Budgets : Covered(b)
  BY DEF BudgetInv
<1>3. CASE (Superstep /\ superstep' = superstep) \/ Save \/ UNCHANGED allvars
  <2>1. /\ UNCHANGED <<state, node, counts, effects>> /\ Log' = Log
        /\ status' = "crashed" <=> status = "crashed"
        /\ Len(history) <= Len(history')
    BY <1>3, Waits
  <2>2. Allowance(b)' = Allowance(b) /\ \A i : LeftAt(i)' = LeftAt(i)
    BY <2>1 DEF Allowance, counts, LeftAt
  <2>3. Len(history) \in Nat /\ Len(history') \in Nat /\ DOMAIN Log \subseteq Nat
    <3>1. ThreadOK'
      BY ThreadNext
    <3>2. history' \in Seq(Checkpoint) /\ history \in Seq(Checkpoint)
      BY <3>1 DEF ThreadOK, PersistenceTypeOK
    <3>3. Log \in Seq(Checkpoint) /\ DOMAIN Log = 1..Len(Log)
      BY LogShape DEF ThreadOK
    <3>4. Len(Log) \in Nat
      BY <3>3
    <3> QED BY <3>2, <3>3, <3>4
  <2>4. \A i \in DOMAIN Log : i >= Len(history') => i >= Len(history)
    BY <2>1, <2>3
  <2>5. Covered(b)'
    BY <1>2, <2>1, <2>2, <2>4 DEF Covered
  <2> QED BY <1>1, <2>5 DEF BudgetInv
<1>4. CASE Proceeds
  BY <1>1, <1>2, <1>4, ProceedsCovered DEF BudgetInv
<1>5. CASE Crash
  BY <1>1, <1>2, <1>5, CrashCovered DEF BudgetInv
<1>6. CASE Recover \/ Replay
  BY <1>1, <1>2, <1>6, TakenUpCovered DEF BudgetInv
<1>7. CASE InvokeAgain
  <2>1. \E d \in Budgets : Covered(d)'
    BY <1>1, <1>2, <1>7, InvokedCovered
  <2> QED BY <1>1, <2>1 DEF BudgetInv
<1> QED BY <1>3, <1>4, <1>5, <1>6, <1>7 DEF PersistenceNext, Proceeds

\* However the inputs of a thread are cut short by crashes and replayed from the
\* middle, some budget allows for every execution of the action: one per attempt of
\* each input and each replay, and what each crash can forget.
THEOREM EffectsAreBudgeted == PersistenceSpec => []EffectsWithinBudgets
<1>1. PersistenceSpec => []BudgetInv
  BY BudgetInit, BudgetNext, ThreadInvariant, PTL DEF PersistenceSpec
<1>2. BudgetInv => EffectsWithinBudgets
  BY DEF BudgetInv, Covered, EffectsWithinBudgets, Allowance, Forgettable
<1> QED BY <1>1, <1>2, PTL

-------------------------------------------------------------------------------
(* What a replay may change *)

\* The engine does not change the mode of the process, and asks no mock reviewer
\* where it has to ask a human.
LEMMA EngineKeepsMode ==
  ASSUME TypeOK, Engine
  PROVE  /\ interrupt_enabled' = interrupt_enabled
         /\ interrupt_enabled = TRUE /\ node = "approval" => superstep' = superstep
<1>1. CASE \/ Intake \/ Classify \/ Tool \/ Evaluate \/ Answer \/ Clarify
           \/ RiskyAction \/ Retry \/ DeadLetter \/ Finalize
  <2>1. interrupt_enabled' = interrupt_enabled /\ node # "approval"
    BY <1>1 DEF Intake, Classify, Tool, Evaluate, Answer, Clarify, RiskyAction, Retry,
                DeadLetter, Finalize, AtNode, Advance
  <2> QED BY <2>1
<1>2. CASE MockApproval
  <2>1. interrupt_enabled' = interrupt_enabled /\ ~interrupt_enabled
    BY <1>2 DEF MockApproval, Advance
  <2> QED BY <2>1
<1>3. CASE Interrupt \/ RaiseRecursionError
  BY <1>3 DEF Interrupt, RaiseRecursionError
<1> QED BY <1>1, <1>2, <1>3 DEF Engine

\* A process that asks no human decides as the routers do on what it has written.
LEMMA MockDecides ==
  ASSUME TypeOK, Engine, interrupt_enabled = FALSE
  PROVE  /\ status' # "interrupted"
         /\ superstep' # superstep =>
              /\ node = "retry" => node' = route_after_retry(state')
              /\ node = "approval" => node' = "tool"
<1>1. CASE \/ Intake \/ Classify \/ Tool \/ Evaluate \/ Answer \/ Clarify
           \/ RiskyAction \/ DeadLetter \/ Finalize
  BY <1>1 DEF Intake, Classify, Tool, Evaluate, Answer, Clarify, RiskyAction,
              DeadLetter, Finalize, AtNode, Advance
<1>2. CASE MockApproval
  <2>1. /\ state' = approval_node(state, "approved") /\ state \in AgentStates
        /\ node = "approval" /\ node' = route_after_approval(state')
        /\ status' \in {"running", "done"}
    BY <1>2 DEF MockApproval, AtNode, Advance, mock_decision, TypeOK
  <2>2. state'.approval = "approved"
    BY <2>1, ApprovalEffect
  <2> QED BY <2>1, <2>2 DEF route_after_approval
<1>3. CASE Retry
  BY <1>3 DEF Retry, AtNode, Advance
<1>4. CASE Interrupt \/ RaiseRecursionError
  BY <1>4 DEF Interrupt, RaiseRecursionError
<1> QED BY <1>1, <1>2, <1>3, <1>4 DEF Engine

\* The two checkpoints agree on all that a router reads of earlier super-steps.
Alike(c, d) ==
  /\ c.values.attempt = d.values.attempt
  /\ c.values.max_attempts = d.values.max_attempts

\* Ticket t at node m is what node n makes of ticket s when nobody is asked for a
\* decision.
Reached(s, n, t, m) ==
  /\ m \in Successors(n)
  /\ t.max_attempts = s.max_attempts
  /\ t.attempt = IF n = "retry" THEN s.attempt + 1 ELSE s.attempt
  /\ n = "retry" => m = route_after_retry(t)
  /\ n = "approval" => m = "tool"

\* Checkpoint d is written by the super-step that starts from checkpoint c.
Goes(c, d) ==
  /\ d.next # "__start__"
  /\ IF c.next = "__start__" THEN d.next = "intake" /\ Alike(c, d)
     ELSE Reached(c.values, c.next, d.values, d.next)

\* From the same node and alike tickets, a super-step leads to alike tickets, and
\* to the same node unless it asks a model.
LEMMA SameWay ==
  ASSUME NEW a \in Checkpoint, NEW b \in Checkpoint,
         NEW c \in Checkpoint, NEW d \in Checkpoint,
         Goes(a, c), Goes(b, d), a.next = b.next, Alike(a, b)
  PROVE  /\ Alike(c, d)
         /\ a.next \notin {"classify", "evaluate"} => c.next = d.next
<1>1. CASE a.next = "__start__"
  BY <1>1 DEF Goes, Alike
<1>2. CASE a.next # "__start__"
  <2>1. /\ Reached(a.values, a.next, c.values, c.next)
        /\ Reached(b.values, a.next, d.values, d.next)
    BY <1>2 DEF Goes
  <2>2. Alike(c, d)
    BY <2>1 DEF Reached, Alike
  <2>3. ASSUME a.next \notin {"classify", "evaluate"} PROVE c.next = d.next
    <3>1. CASE a.next = "retry"
      BY <2>1, <2>2, <3>1 DEF Reached, Alike, route_after_retry
    <3>2. CASE a.next = "approval"
      BY <2>1, <3>2 DEF Reached
    <3>3. CASE a.next \in {"intake", "risky_action", "tool", "finalize"} \cup ReplyNodes
      BY <2>1, <3>3, Edges DEF Reached
    <3>4. CASE a.next = "END"
      <4>1. Successors("END") = {"END"}
        BY DEF Successors, ReplyNodes
      <4> QED BY <2>1, <3>4, <4>1 DEF Reached
    <3> QED BY <1>2, <2>3, <3>1, <3>2, <3>3, <3>4, CheckpointFields DEF NodeNames, ReplyNodes
  <2> QED BY <2>2, <2>3
<1> QED BY <1>1, <1>2

\* The checkpoint the super-step behind checkpoint i + 1 started from.
Before(i) == IF i = fork.length THEN fork.at ELSE i

\* The replay is still to come, or the latest input is being replayed.
Tracked == fork # NoFork \/ replays = 0

\* Checkpoint i + 1 was written by the super-step before it, or begins an input;
\* in the replay no input begins.
Chained(i) ==
  IF fork # NoFork /\ i >= fork.length THEN Goes(Log[Before(i)], Log[i + 1])
  ELSE Log[i + 1].next = "__start__" \/ Goes(Log[i], Log[i + 1])

\* The process goes on from the checkpoint before the one it will write.
GoesOn ==
  LET c == Log[Before(Len(Log))] IN c.values = state /\ c.next = node

\* The inductive invariant of a thread that asks no human and is replayed at most
\* once: as long as it matters, its checkpoints are linked by super-steps.
ReplayInv ==
  /\ interrupt_enabled = FALSE /\ status # "interrupted"
  /\ fork # NoFork => replays # 0
  /\ Tracked =>
       /\ fork # NoFork => fork.at \in 1..fork.length
       /\ history # <<>> \/ status # "crashed" => fork.length <= Len(history)
       /\ \A i \in 1..(Len(Log) - 1) : Chained(i)
       /\ status # "crashed" => GoesOn

\* A new thread is two checkpoints of one input.
LEMMA ReplayInit == ASSUME InterruptModes = {FALSE} PROVE PersistenceInit => ReplayInv
<1> SUFFICES ASSUME PersistenceInit PROVE ReplayInv
  OBVIOUS
<1>1. /\ state \in AgentStates /\ node = "intake" /\ status = "running"
      /\ interrupt_enabled = FALSE /\ fork = NoFork
      /\ history = <<>> /\ unsaved = InputCheckpoints(state)
  BY ThreadTypesInit DEF PersistenceTypeOK, PersistenceInit, Init
<1>2. /\ Len(Log) = 2 /\ Log[1] = snapshot(state, "__start__")
      /\ Log[2] = snapshot(state, "intake")
  <2>1. unsaved \in Seq(Checkpoint) /\ Len(unsaved) = 2
    BY <1>1, SnapshotType
  <2>2. Log = unsaved
    BY <1>1, <2>1, ConcatEmptySeq DEF Log
  <2> QED BY <1>1, <2>1, <2>2, SnapshotType
<1>3. Goes(Log[1], Log[2])
  BY <1>2 DEF Goes, Alike, snapshot
<1>4. \A i \in 1..(Len(Log) - 1) : Chained(i)
  <2>1. \A i \in 1..(Len(Log) - 1) : i = 1
    BY <1>2
  <2> QED BY <1>1, <1>3, <2>1 DEF Chained
<1>5. GoesOn /\ fork.length <= Len(history)
  BY <1>1, <1>2 DEF GoesOn, Before, NoFork, snapshot
<1> QED BY <1>1, <1>4, <1>5 DEF ReplayInv

\* Checkpoints that stay as they are stay chained.
LEMMA ChainKept ==
  ASSUME NEW i \in Nat \ {0}, Chained(i), fork' = fork,
         fork.length \in Nat, fork # NoFork => fork.at \in 1..fork.length,
         \A j \in 1..(i + 1) : Log'[j] = Log[j]
  PROVE  Chained(i)'
<1>1. fork.length = i /\ fork # NoFork => fork.at \in 1..(i + 1)
  OBVIOUS
<1>2. i \in 1..(i + 1) /\ i + 1 \in 1..(i + 1)
  OBVIOUS
<1>3. Log'[i] = Log[i] /\ Log'[i + 1] = Log[i + 1]
  BY <1>2
<1>4. fork # NoFork => Log'[Before(i)] = Log[Before(i)] /\ Before(i)' = Before(i)
  BY <1>1, <1>3 DEF Before
<1> QED BY <1>3, <1>4 DEF Chained, Goes, Reached, Alike

\* A thread that is replayed at most once, before the step.
LEMMA TrackedThread ==
  ASSUME ThreadOK, ReplayInv
  PROVE  /\ Log \in Seq(Checkpoint) /\ Len(Log) \in Nat /\ DOMAIN Log = 1..Len(Log)
         /\ Len(history) \in Nat /\ Len(history) <= Len(Log)
         /\ fork.length \in Nat /\ fork.at \in Nat
         /\ fork = NoFork => fork.length = 0
         /\ status # "crashed" => Len(Log) >= 1
         /\ Tracked /\ status # "crashed" => Before(Len(Log)) \in 1..Len(Log)
<1>1. /\ history \in Seq(Checkpoint) /\ unsaved \in Seq(Checkpoint)
      /\ Len(Log) = Len(history) + Len(unsaved)
      /\ Log \in Seq(Checkpoint) /\ DOMAIN Log = 1..Len(Log)
      /\ fork.length \in Nat /\ fork.at \in Nat
  BY LogShape DEF ThreadOK, PersistenceTypeOK
<1>2. status # "crashed" => Len(Log) >= 1
  BY <1>1 DEF ThreadOK, ThreadShape
<1>3. fork = NoFork => fork.length = 0
  BY DEF NoFork
<1>4. ASSUME Tracked, status # "crashed" PROVE Before(Len(Log)) \in 1..Len(Log)
  <2>1. fork # NoFork => fork.at \in 1..fork.length
    BY <1>4 DEF ReplayInv
  <2> QED BY <1>1, <1>2, <1>3, <1>4, <2>1 DEF Before
<1> QED BY <1>1, <1>2, <1>3, <1>4

\* A super-step writes the checkpoint it leads to.
LEMMA ReplayProceeds == ThreadOK /\ ReplayInv /\ Proceeds => ReplayInv'
<1> SUFFICES ASSUME ThreadOK, ReplayInv, Proceeds PROVE ReplayInv'
  OBVIOUS
<1> DEFINE L == Len(Log)
           d == snapshot(state', node')
<1>1. interrupt_enabled = FALSE /\ status # "interrupted"
  BY DEF ReplayInv
<1>2. Superstep /\ superstep' # superstep
  BY <1>1 DEF Proceeds, ResumeThread, Resume
<1>3. TypeOK /\ TypeOK' /\ Engine
  BY <1>2, SuperstepTypes DEF ThreadOK, Superstep
<1>4. interrupt_enabled' = FALSE /\ status' # "interrupted"
  BY <1>1, <1>3, EngineKeepsMode, MockDecides
<1>5. /\ node \in NodeNames /\ Wrote(node) /\ node' \in Successors(node)
      /\ Log' = Append(Log, d) /\ history' = history
      /\ status # "crashed" /\ fork' = fork /\ replays' = replays
  BY ProceedsEffect DEF counts
<1>6. Reached(state, node, state', node')
  BY <1>1, <1>2, <1>3, <1>5, MockDecides DEF Reached, Wrote
<1>7. d \in Checkpoint /\ d.values = state' /\ d.next = node'
  BY <1>3, SnapshotType DEF TypeOK, snapshot
<1>8. /\ Log \in Seq(Checkpoint) /\ L \in Nat /\ L >= 1
      /\ Len(history) \in Nat /\ Len(history) <= L
      /\ fork.length \in Nat
      /\ fork = NoFork => fork.length = 0
  BY <1>5, TrackedThread
<1> HIDE DEF L, d
<1>9. /\ Len(Log') = L + 1 /\ Log'[L + 1] = d
      /\ \A i \in 1..L : Log'[i] = Log[i]
  BY <1>5, <1>7, <1>8 DEF L
<1>10. ASSUME Tracked'
       PROVE  /\ fork' # NoFork => fork'.at \in 1..fork'.length
              /\ fork'.length <= Len(history')
              /\ \A i \in 1..(Len(Log') - 1) : Chained(i)'
              /\ GoesOn'
  <2>1. Tracked
    BY <1>5, <1>10 DEF Tracked
  <2>2. /\ fork # NoFork => fork.at \in 1..fork.length
        /\ fork.length <= Len(history) /\ GoesOn
        /\ \A i \in 1..(L - 1) : Chained(i)
    BY <1>5, <2>1 DEF ReplayInv, L
  <2>3. Before(L) \in 1..L
    BY <1>5, <2>1, TrackedThread DEF L
  <2>4. fork.length <= L
    BY <1>8, <2>2
  <2>5. node # "__start__" /\ node' # "__start__"
    BY <1>3, <1>5 DEF NodeNames, TypeOK
  <2>6. Goes(Log[Before(L)], d)
    BY <1>6, <1>7, <2>2, <2>5 DEF GoesOn, Goes, L
  <2>7. ASSUME NEW i \in 1..L PROVE Chained(i)'
    <3>1. CASE i = L
      <4>1. Before(i)' = Before(L)
        BY <1>5, <3>1 DEF Before
      <4>2. Goes(Log'[Before(L)], Log'[L + 1])
        BY <1>9, <2>3, <2>6
      <4>3. fork = NoFork => Before(L) = L
        BY <1>8 DEF Before
      <4>4. Goes(Log[i], Log[i + 1])' \/ fork # NoFork
        BY <3>1, <4>2, <4>3 DEF Goes, Reached, Alike
      <4>5. Goes(Log[Before(i)], Log[i + 1])'
        BY <3>1, <4>1, <4>2 DEF Goes, Reached, Alike
      <4> QED BY <1>5, <2>4, <3>1, <4>4, <4>5 DEF Chained
    <3>2. CASE i # L
      <4>1. i \in 1..(L - 1) /\ i \in Nat \ {0} /\ \A j \in 1..(i + 1) : j \in 1..L
        BY <1>8, <3>2
      <4>2. \A j \in 1..(i + 1) : Log'[j] = Log[j]
        BY <1>9, <4>1
      <4>3. Chained(i)
        BY <2>2, <4>1
      <4> QED BY <1>5, <1>8, <2>2, <4>1, <4>2, <4>3, ChainKept
    <3> QED BY <3>1, <3>2
  <2>8. Before(Len(Log))' = L + 1
    BY <1>5, <1>8, <1>9, <2>4 DEF Before
  <2>9. GoesOn'
    BY <1>7, <1>9, <2>8 DEF GoesOn
  <2>10. \A i \in 1..(Len(Log') - 1) : i \in 1..L
    BY <1>8, <1>9
  <2> QED BY <1>5, <2>2, <2>7, <2>9, <2>10
<1>11. fork' # NoFork => replays' # 0
  BY <1>5 DEF ReplayInv
<1> QED BY <1>4, <1>10, <1>11 DEF ReplayInv

\* A refused super-step, a write to the store, a stutter and a crash add nothing.
LEMMA ReplayWaits ==
  ThreadOK /\ ReplayInv /\ [PersistenceNext]_allvars
    /\ ~Proceeds /\ ~Recover /\ ~Replay /\ ~InvokeAgain => ReplayInv'
<1> SUFFICES ASSUME ThreadOK, ReplayInv, [PersistenceNext]_allvars,
                    ~Proceeds, ~Recover, ~Replay, ~InvokeAgain
             PROVE  ReplayInv'
  OBVIOUS
<1>1. interrupt_enabled = FALSE /\ status # "interrupted" /\ (fork # NoFork => replays # 0)
  BY DEF ReplayInv
<1>2. /\ Log \in Seq(Checkpoint) /\ Len(Log) \in Nat /\ Len(history) \in Nat
      /\ Len(history) <= Len(Log) /\ fork.length \in Nat
  BY TrackedThread
<1>3. CASE (Superstep /\ superstep' = superstep) \/ Save \/ UNCHANGED allvars
  <2>1. /\ UNCHANGED <<state, node, counts, fork>> /\ Log' = Log
        /\ status' = "crashed" <=> status = "crashed"
        /\ Len(history) <= Len(history')
    BY <1>3, Waits
  <2>2. interrupt_enabled' = FALSE /\ status' # "interrupted"
    <3>1. CASE Superstep
      <4>1. TypeOK /\ Engine
        BY <3>1, SuperstepTypes DEF ThreadOK, Superstep
      <4> QED BY <1>1, <4>1, EngineKeepsMode, MockDecides
    <3>2. CASE Save \/ UNCHANGED allvars
      BY <1>1, <3>2 DEF Save, vars, allvars
    <3> QED BY <1>3, <3>1, <3>2
  <2>3. status = "crashed" => history' = history
    <3>1. CASE Superstep
      BY <3>1, SuperstepTypes DEF ThreadOK, TypeOK
    <3>2. CASE Save
      BY <3>2 DEF Save, ThreadOK, ThreadShape
    <3> QED BY <1>3, <3>1, <3>2 DEF allvars
  <2>4. history' \in Seq(Checkpoint)
    BY ThreadNext DEF ThreadOK, PersistenceTypeOK
  <2>5. Tracked' => Tracked
    BY <2>1 DEF Tracked, counts
  <2>6. ASSUME Tracked, history' # <<>> \/ status' # "crashed"
        PROVE  fork.length <= Len(history')
    <3>1. history # <<>> \/ status # "crashed"
      BY <2>1, <2>3, <2>6
    <3>2. fork.length <= Len(history)
      BY <2>6, <3>1 DEF ReplayInv
    <3> QED BY <1>2, <2>1, <2>4, <3>2
  <2>7. ASSUME Tracked PROVE \A i \in 1..(Len(Log) - 1) : Chained(i)'
    BY <2>1, <2>7 DEF ReplayInv, Chained, Before, Goes, Reached, Alike
  <2>8. ASSUME Tracked PROVE status' # "crashed" => GoesOn'
    BY <2>1, <2>8 DEF ReplayInv, GoesOn, Before
  <2> QED BY <1>1, <2>1, <2>2, <2>5, <2>6, <2>7, <2>8 DEF ReplayInv, counts
<1>4. CASE Crash
  <2>1. /\ status' = "crashed" /\ fork' = fork /\ replays' = replays
        /\ interrupt_enabled' = interrupt_enabled
    BY <1>4 DEF Crash
  <2>2. Log' = history' /\ history' \in {history, <<>>}
    BY <1>4, CrashLogs DEF Crash
  <2>3. \A i \in 1..Len(history) : Log[i] = history[i]
    BY LogShape DEF ThreadOK
  <2>4. ASSUME Tracked, NEW i \in 1..(Len(Log') - 1) PROVE Chained(i)'
    <3>1. history' = history
      BY <2>2, <2>4
    <3>2. /\ i \in 1..(Len(Log) - 1) /\ i \in Nat \ {0}
          /\ \A j \in 1..(i + 1) : j \in 1..Len(history)
      BY <1>2, <2>2, <2>4, <3>1
    <3>3. \A j \in 1..(i + 1) : Log'[j] = Log[j]
      BY <2>2, <2>3, <3>1, <3>2
    <3>4. Chained(i) /\ (fork # NoFork => fork.at \in 1..fork.length)
      BY <2>4, <3>2 DEF ReplayInv
    <3> QED BY <1>2, <2>1, <3>2, <3>3, <3>4, ChainKept
  <2>5. Tracked' => Tracked
    BY <2>1 DEF Tracked
  <2> QED BY <1>1, <2>1, <2>2, <2>4, <2>5 DEF ReplayInv
<1> QED BY <1>3, <1>4 DEF PersistenceNext, Proceeds

\* An entry of a sequence of checkpoints.
LEMMA EntryType ==
  ASSUME NEW log \in Seq(Checkpoint), NEW i \in 1..Len(log)
  PROVE  log[i] \in Checkpoint /\ Len(log) >= 1
OBVIOUS

\* A thread that is taken up writes the checkpoint of its input, or nothing.
LEMMA TakenUpChained ==
  ASSUME ThreadOK, ReplayInv, Tracked', Tracked, unsaved = <<>>, history # <<>>,
         NEW at \in 1..Len(Log), TakeUp(Log[at]),
         fork # NoFork => fork.at \in 1..fork.length,
         fork'.length \in Nat, fork' # NoFork => fork'.at \in 1..fork'.length,
         \A i \in 1..(Len(Log) - 1) :
           (\A j \in 1..(i + 1) : Log'[j] = Log[j]) => Chained(i)',
         fork'.length <= Len(history),
         at = IF Len(Log) = fork'.length THEN fork'.at ELSE Len(Log)
  PROVE  /\ fork'.length <= Len(history')
         /\ \A i \in 1..(Len(Log') - 1) : Chained(i)'
         /\ GoesOn'
<1> DEFINE L == Len(Log)
           c == Log[at]
           d == snapshot(c.values, "intake")
<1>1. /\ Log \in Seq(Checkpoint) /\ L \in Nat /\ L >= 1
      /\ c \in Checkpoint /\ Len(history) \in Nat
  <2>1. /\ Log \in Seq(Checkpoint) /\ Len(Log) \in Nat /\ DOMAIN Log = 1..Len(Log)
        /\ Len(history) \in Nat
    BY TrackedThread
  <2>2. c \in Checkpoint /\ L >= 1
    BY <2>1, EntryType, Zenon
  <2> QED BY <2>1, <2>2
<1>2. /\ Log = history /\ history' = history
      /\ Log' = IF c.next = "__start__" THEN Append(Log, d) ELSE Log
      /\ state' = c.values /\ node' = NodeToRun(c)
  BY <1>1, TakeUpLogs DEF TakeUp
<1>3. d \in Checkpoint /\ d.values = c.values /\ d.next = "intake"
  BY <1>1, CheckpointFields, SnapshotType DEF snapshot, NodeNames
<1> HIDE DEF L, c, d
<1>4. CASE c.next = "__start__"
  <2>1. Len(Log') = L + 1 /\ Log'[L + 1] = d /\ \A j \in 1..L : Log'[j] = Log[j]
    BY <1>1, <1>2, <1>3, <1>4 DEF L
  <2>2. ASSUME NEW i \in 1..L PROVE Chained(i)'
    <3>1. CASE i = L
      <4>1. Log'[at] = c
        BY <2>1 DEF c, L
      <4>2. Goes(c, d)
        BY <1>3, <1>4 DEF Goes, Alike
      <4>3. Goes(Log[Before(i)], Log[i + 1])'
        <5>1. Before(i)' = at
          BY <3>1 DEF Before, L
        <5> QED BY <2>1, <3>1, <4>1, <4>2, <5>1 DEF Goes, Reached, Alike
      <4>4. fork' = NoFork => Goes(Log[i], Log[i + 1])'
        <5>1. fork' = NoFork => at = L
          BY <1>1 DEF NoFork, L
        <5> QED BY <2>1, <3>1, <4>1, <4>2, <5>1 DEF Goes, Reached, Alike
      <4>5. fork'.length <= L
        BY <1>2 DEF L
      <4> QED BY <3>1, <4>3, <4>4, <4>5 DEF Chained
    <3>2. CASE i # L
      <4>1. i \in 1..(L - 1) /\ \A j \in 1..(i + 1) : j \in 1..L
        BY <1>1, <3>2
      <4> QED BY <2>1, <4>1 DEF L
    <3> QED BY <3>1, <3>2
  <2>3. Before(Len(Log))' = L + 1
    BY <1>1, <1>2, <2>1 DEF Before, L
  <2>4. GoesOn'
    BY <1>2, <1>3, <1>4, <2>1, <2>3 DEF GoesOn, NodeToRun
  <2>5. \A i \in 1..(Len(Log') - 1) : i \in 1..L
    BY <1>1, <2>1
  <2> QED BY <1>2, <2>2, <2>4, <2>5
<1>5. CASE c.next # "__start__"
  <2>1. Log' = Log
    BY <1>2, <1>5
  <2>2. GoesOn'
    BY <1>2, <1>5, <2>1 DEF GoesOn, NodeToRun, c, Before
  <2> QED BY <1>2, <2>1, <2>2
<1> QED BY <1>4, <1>5

\* The checkpoints before the one a thread is taken up from stay chained.
LEMMA ReplayRecovers ==
  ASSUME InterruptModes = {FALSE}
  PROVE  ThreadOK /\ ReplayInv /\ Recover => ReplayInv'
<1> SUFFICES ASSUME ThreadOK, ReplayInv, Recover PROVE ReplayInv'
  OBVIOUS
<1>1. /\ history # <<>> /\ unsaved = <<>> /\ TakeUp(Latest)
      /\ replays' = replays /\ Len(history) \in Nat \ {0}
      /\ Latest = history[Len(history)]
  BY TakenFrom DEF Recover, counts, ThreadOK, ThreadShape
<1>2. /\ interrupt_enabled' = FALSE /\ status' \in {"running", "done"}
      /\ history' = history
  BY <1>1 DEF TakeUp
<1>3. /\ Len(Log) = Len(history) /\ Log[Len(Log)] = Latest
      /\ \A i \in 1..Len(history) : Log[i] = history[i]
  <2>1. Len(unsaved) = 0
    BY <1>1
  <2> QED BY <1>1, <2>1, LogShape DEF ThreadOK
<1>4. (fork # NoFork => replays # 0) /\ (Tracked' => Tracked /\ fork' = fork)
  BY <1>1 DEF ReplayInv, Tracked, Recover
<1>5. ASSUME Tracked'
      PROVE  /\ fork' # NoFork => fork'.at \in 1..fork'.length
             /\ fork'.length <= Len(history')
             /\ \A i \in 1..(Len(Log') - 1) : Chained(i)'
             /\ GoesOn'
  <2>1. Tracked /\ fork' = fork
    BY <1>4, <1>5
  <2>2. /\ fork # NoFork => fork.at \in 1..fork.length
        /\ fork.length <= Len(history)
        /\ \A i \in 1..(Len(Log) - 1) : Chained(i)
    BY <1>1, <2>1 DEF ReplayInv
  <2>3. Len(Log) # fork.length
    BY <1>1, <1>3, <2>1 DEF Recover, NoFork
  <2>4. fork.length \in Nat
    BY TrackedThread
  <2>5. ASSUME NEW i \in 1..(Len(Log) - 1), \A j \in 1..(i + 1) : Log'[j] = Log[j]
        PROVE  Chained(i)'
    <3>1. Chained(i) /\ i \in Nat \ {0}
      BY <1>1, <1>3, <2>2
    <3> QED BY <2>1, <2>2, <2>4, <2>5, <3>1, ChainKept
  <2>6. Len(Log) \in 1..Len(Log) /\ TakeUp(Log[Len(Log)])
    BY <1>1, <1>3
  <2>7. Len(Log) = IF Len(Log) = fork'.length THEN fork'.at ELSE Len(Log)
    BY <2>1, <2>3
  <2>8. /\ fork'.length \in Nat /\ fork'.length <= Len(history)
        /\ fork' # NoFork => fork'.at \in 1..fork'.length
    BY <2>1, <2>2, <2>4
  <2> QED BY <1>1, <1>5, <2>1, <2>2, <2>5, <2>6, <2>7, <2>8, TakenUpChained
<1> QED BY <1>1, <1>2, <1>4, <1>5 DEF ReplayInv, Recover

\* The one replay of a thread finds the checkpoints of its inputs chained.
LEMMA ReplayReplays ==
  ASSUME InterruptModes = {FALSE}, MaxReplays <= 1
  PROVE  ThreadOK /\ ReplayInv /\ Replay => ReplayInv' /\ fork = NoFork
<1> SUFFICES ASSUME ThreadOK, ReplayInv, Replay PROVE ReplayInv' /\ fork = NoFork
  OBVIOUS
<1>1. /\ history # <<>> /\ unsaved = <<>> /\ TakeUp(history[Middle])
      /\ Middle \in 1..Len(history) /\ Len(history) \in Nat \ {0}
      /\ fork' = [at |-> Middle, length |-> Len(history)]
  BY TakenFrom DEF Replay, Returned, ThreadOK, ThreadShape
<1>2. replays = 0 /\ replays' = 1
  BY BoundTypes DEF Replay, ThreadOK, PersistenceTypeOK
<1>3. Tracked /\ fork = NoFork
  BY <1>2 DEF ReplayInv, Tracked
<1>4. interrupt_enabled' = FALSE /\ status' # "interrupted" /\ history' = history
  BY <1>1 DEF TakeUp
<1>5. /\ Len(Log) = Len(history) /\ Middle \in 1..Len(Log) /\ TakeUp(Log[Middle])
      /\ \A i \in 1..Len(history) : Log[i] = history[i]
  <2>1. Len(unsaved) = 0
    BY <1>1
  <2> QED BY <1>1, <2>1, LogShape DEF ThreadOK
<1>6. /\ fork'.at = Middle /\ fork'.length = Len(Log) /\ fork'.length \in Nat
      /\ fork'.at \in 1..fork'.length
  BY <1>1, <1>5
<1>7. Tracked'
  <2>1. fork'.length # 0 /\ NoFork.length = 0
    BY <1>1 DEF NoFork
  <2> QED BY <2>1 DEF Tracked
<1>8. ASSUME NEW i \in 1..(Len(Log) - 1), \A j \in 1..(i + 1) : Log'[j] = Log[j]
      PROVE  Chained(i)'
  <2>1. i \in 1..(i + 1) /\ i + 1 \in 1..(i + 1) /\ ~(i >= Len(Log))
    BY <1>1, <1>5
  <2>2. Chained(i)
    BY <1>3 DEF ReplayInv
  <2>3. Log[i + 1].next = "__start__" \/ Goes(Log[i], Log[i + 1])
    BY <1>3, <2>2 DEF Chained
  <2>4. Log'[i + 1].next = "__start__" \/ Goes(Log'[i], Log'[i + 1])
    BY <1>8, <2>1, <2>3
  <2> QED BY <1>6, <2>1, <2>4 DEF Chained, Goes, Reached, Alike
<1>9. /\ fork'.length <= Len(history')
      /\ \A i \in 1..(Len(Log') - 1) : Chained(i)'
      /\ GoesOn'
  <2>1. Middle = IF Len(Log) = fork'.length THEN fork'.at ELSE Len(Log)
    BY <1>6
  <2>2. fork'.length <= Len(history)
    BY <1>1, <1>5, <1>6
  <2> QED BY <1>1, <1>3, <1>5, <1>6, <1>7, <1>8, <2>1, <2>2, TakenUpChained
<1> QED BY <1>2, <1>3, <1>4, <1>6, <1>9 DEF ReplayInv

\* A second input begins after the checkpoints of the first.
LEMMA ReplayInvoked ==
  ASSUME InterruptModes = {FALSE}
  PROVE  ThreadOK /\ ReplayInv /\ InvokeAgain => ReplayInv' /\ fork' = NoFork
<1> SUFFICES ASSUME ThreadOK, ReplayInv, InvokeAgain PROVE ReplayInv' /\ fork' = NoFork
  OBVIOUS
<1> DEFINE L == Len(Log)
<1>1. /\ interrupt_enabled' = FALSE /\ status' = "running" /\ node' = "intake"
      /\ fork' = NoFork /\ replays' = replays /\ history' = history
  BY DEF InvokeAgain
<1>2. /\ Len(Log') = L + 2 /\ \A i \in 1..L : Log'[i] = Log[i]
      /\ Log'[L + 1] = snapshot(state', "__start__")
      /\ Log'[L + 2] = snapshot(state', "intake")
  BY InvokeLogs
<1>3. L \in Nat /\ Len(history) \in Nat /\ (Tracked' => Tracked /\ fork = NoFork)
  BY <1>1, TrackedThread DEF Tracked, ReplayInv
<1> HIDE DEF L
<1>4. /\ Log'[L + 1].next = "__start__" /\ Log'[L + 2].values = state'
      /\ Log'[L + 2].next = "intake" /\ Goes(Log'[L + 1], Log'[L + 2])
  BY <1>2 DEF snapshot, Goes, Alike
<1>5. ASSUME Tracked', NEW i \in 1..(L + 1) PROVE Chained(i)'
  <2>1. CASE i \in 1..(L - 1)
    <3>1. \A j \in 1..(i + 1) : j \in 1..L
      BY <1>3, <2>1
    <3>2. \A j \in 1..(i + 1) : Log'[j] = Log[j]
      BY <1>2, <3>1
    <3>3. Chained(i)
      BY <1>3, <1>5, <2>1 DEF ReplayInv, L
    <3>4. fork' = fork /\ fork.length \in Nat /\ (fork # NoFork => fork.at \in 1..fork.length)
      BY <1>1, <1>3, <1>5, TrackedThread
    <3> QED BY <3>2, <3>3, <3>4, ChainKept
  <2>2. CASE i = L
    BY <1>1, <1>4, <2>2 DEF Chained
  <2>3. CASE i = L + 1
    <3>1. i + 1 = L + 2
      BY <1>3, <2>3
    <3>2. Goes(Log'[i], Log'[i + 1])
      BY <1>4, <2>3, <3>1
    <3> QED BY <1>1, <3>2 DEF Chained, Goes, Reached, Alike
  <2> QED BY <1>3, <2>1, <2>2, <2>3
<1>6. Before(Len(Log))' = L + 2
  BY <1>1, <1>2, <1>3 DEF Before, NoFork
<1>7. GoesOn'
  BY <1>1, <1>4, <1>6 DEF GoesOn
<1>8. \A i \in 1..(Len(Log') - 1) : i \in 1..(L + 1)
  BY <1>2, <1>3
<1>9. fork'.length <= Len(history')
  BY <1>1, <1>3 DEF NoFork
<1> QED BY <1>1, <1>5, <1>7, <1>8, <1>9 DEF ReplayInv

\* The thread stays one that is replayed at most once.
LEMMA ReplayNext ==
  ASSUME InterruptModes = {FALSE}, MaxReplays <= 1
  PROVE  ThreadOK /\ ReplayInv /\ [PersistenceNext]_allvars => ReplayInv'
BY ReplayProceeds, ReplayWaits, ReplayRecovers, ReplayReplays, ReplayInvoked

\* Step k of the replay from the latest checkpoints on which the two runs agree.
StepAlike(k) ==
  /\ Alike(Log[fork.at + k], Log[fork.length + k])
  /\ PartsAt(k) => Log[fork.at + k - 1].next \in {"classify", "evaluate"}

\* Where step k of the replay, and of the run it replays, are found.
LEMMA Positions ==
  ASSUME NEW at \in Nat, NEW length \in Nat, NEW end \in Nat, NEW k \in 1..(end - length),
         at \in 1..length, at + k <= length
  PROVE  LET i == at + k - 1
             j == length + k - 1
         IN /\ i \in 1..(end - 1) /\ j \in 1..(end - 1)
            /\ i + 1 = at + k /\ j + 1 = length + k
            /\ i < length /\ j >= length
            /\ i \in 1..end /\ i + 1 \in 1..end /\ j + 1 \in 1..end
            /\ j = length <=> k = 1
            /\ k # 1 => j \in 1..end
            /\ k = 1 => i = at
OBVIOUS

\* While the tickets of the two runs are alike, they part only at a model.
LEMMA AlikeStep ==
  ASSUME ThreadOK, ReplayInv, NEW k \in StepsToCompare,
         k = 1 \/ (~PartsAt(k - 1) /\ Alike(Log[fork.at + (k - 1)], Log[fork.length + (k - 1)]))
  PROVE  StepAlike(k)
<1>1. /\ fork # NoFork /\ k \in 1..(Len(Log) - fork.length) /\ fork.at + k <= fork.length
      /\ \A j \in 1..k : Log[fork.at + j].next # "__start__"
  BY DEF StepsToCompare
<1>2. /\ Log \in Seq(Checkpoint) /\ Len(Log) \in Nat /\ fork.length \in Nat
      /\ fork.at \in 1..fork.length /\ \A i \in 1..(Len(Log) - 1) : Chained(i)
  BY <1>1, TrackedThread DEF ReplayInv, Tracked
<1> DEFINE i == fork.at + k - 1
           j == fork.length + k - 1
<1>3. /\ i \in 1..(Len(Log) - 1) /\ j \in 1..(Len(Log) - 1)
      /\ i + 1 = fork.at + k /\ j + 1 = fork.length + k
      /\ i < fork.length /\ j >= fork.length
      /\ i \in 1..Len(Log) /\ i + 1 \in 1..Len(Log) /\ j + 1 \in 1..Len(Log)
      /\ j = fork.length <=> k = 1
      /\ k # 1 => j \in 1..Len(Log)
      /\ k = 1 => i = fork.at
  <2>1. /\ fork.at \in Nat /\ fork.length \in Nat /\ Len(Log) \in Nat
        /\ k \in 1..(Len(Log) - fork.length)
        /\ fork.at \in 1..fork.length /\ fork.at + k <= fork.length
    BY <1>1, <1>2
  <2>2. PICK at \in Nat, length \in Nat, end \in Nat :
          at = fork.at /\ length = fork.length /\ end = Len(Log)
    BY <2>1
  <2>3. k \in 1..(end - length) /\ at \in 1..length /\ at + k <= length
    BY <2>1, <2>2
  <2>4. i = at + k - 1 /\ j = length + k - 1
    BY <2>2
  <2> HIDE DEF i, j
  <2>5. /\ i \in 1..(end - 1) /\ j \in 1..(end - 1)
        /\ i + 1 = at + k /\ j + 1 = length + k
        /\ i < length /\ j >= length
        /\ i \in 1..end /\ i + 1 \in 1..end /\ j + 1 \in 1..end
        /\ j = length <=> k = 1
        /\ k # 1 => j \in 1..end
        /\ k = 1 => i = at
    BY <2>3, <2>4, Positions
  <2> QED BY <2>2, <2>5
<1>4. i = fork.at + (k - 1) /\ j = fork.length + (k - 1)
  BY <1>1, <1>2
<1>5. Log[i + 1].next # "__start__"
  <2>1. k \in 1..k
    BY <1>1
  <2> QED BY <1>1, <1>3, <2>1
<1> HIDE DEF i, j
<1>6. Goes(Log[i], Log[i + 1])
  <2>1. Chained(i) /\ ~(i >= fork.length)
    BY <1>2, <1>3
  <2> QED BY <1>5, <2>1 DEF Chained
<1>7. Goes(Log[Before(j)], Log[j + 1])
  BY <1>1, <1>2, <1>3 DEF Chained
<1>8. /\ Log[i].next = Log[Before(j)].next /\ Alike(Log[i], Log[Before(j)])
      /\ Log[Before(j)] \in Checkpoint
  <2>1. CASE k = 1
    <3>1. Before(j) = i
      BY <1>3, <2>1 DEF Before
    <3>2. Log[i] \in Checkpoint
      BY <1>2, <1>3, EntryType
    <3> QED BY <3>1, <3>2 DEF Alike
  <2>2. CASE k # 1
    <3>1. Before(j) = j
      BY <1>3, <2>2 DEF Before
    <3>2. Log[j] \in Checkpoint
      BY <1>2, <1>3, <2>2, EntryType
    <3>3. ~PartsAt(k - 1) /\ Alike(Log[i], Log[j])
      BY <1>4, <2>2
    <3> QED BY <1>4, <3>1, <3>2, <3>3 DEF PartsAt
  <2> QED BY <2>1, <2>2
<1>9. /\ Log[i] \in Checkpoint /\ Log[i + 1] \in Checkpoint /\ Log[j + 1] \in Checkpoint
  BY <1>2, <1>3, EntryType
<1>10. /\ Alike(Log[i + 1], Log[j + 1])
       /\ Log[i].next \notin {"classify", "evaluate"} => Log[i + 1].next = Log[j + 1].next
  BY <1>6, <1>7, <1>8, <1>9, SameWay
<1>11. Log[fork.at + k - 1] = Log[i]
  BY DEF i
<1> QED BY <1>3, <1>10, <1>11 DEF StepAlike, PartsAt

\* Some numbers of an interval have a least one.
LEMMA LeastExists ==
  ASSUME NEW n \in Nat, NEW s \in SUBSET (1..n), s # {}
  PROVE  \E m \in s : \A j \in s : m <= j
<1> DEFINE Upto == {0..b : b \in s}
<1>1. /\ IsWellFoundedOn(StrictSubsetOrdering(0..n), FiniteSubsetsOf(0..n))
      /\ IsFiniteSet(0..n)
  BY FS_StrictSubsetOrderingWellFounded, FS_Interval
<1>2. FiniteSubsetsOf(0..n) = SUBSET (0..n)
  BY <1>1, FS_FiniteSubsetsOfFinite
<1>3. Upto \subseteq SUBSET (0..n) /\ Upto # {}
  <2>1. \A b \in s : 0..b \subseteq 0..n
    OBVIOUS
  <2>2. Upto # {}
    OBVIOUS
  <2> QED BY <2>1, <2>2
<1>4. PICK x \in Upto : \A y \in Upto : <<y, x>> \notin StrictSubsetOrdering(0..n)
  <2>1. IsWellFoundedOn(StrictSubsetOrdering(0..n), SUBSET (0..n))
    BY <1>1, <1>2
  <2> HIDE DEF Upto
  <2> QED BY <1>3, <2>1, WFMin
<1>5. PICK m \in s : x = 0..m
  BY <1>4
<1>6. ASSUME NEW j \in s PROVE m <= j
  <2> SUFFICES ASSUME j < m PROVE FALSE
    OBVIOUS
  <2>1. /\ 0..j \in Upto /\ 0..j \subseteq 0..m /\ 0..j # 0..m
        /\ 0..j \in SUBSET (0..n) /\ 0..m \in SUBSET (0..n)
    <3>1. m \in 0..m /\ m \notin 0..j /\ j \in Nat /\ m \in Nat /\ j <= n /\ m <= n
      OBVIOUS
    <3> QED BY <3>1
  <2>2. <<0..j, x>> \in StrictSubsetOrdering(0..n)
    BY <1>5, <2>1 DEF StrictSubsetOrdering
  <2> QED BY <1>4, <2>1, <2>2
<1> QED BY <1>6

\* A replay of a thread that asks no human leaves the path of the run it replays only
\* where a model is asked again, whatever the tickets, the budgets and the crashes on
\* the way: for the one replay of the demonstration (demo_persistence.py:72-76).
THEOREM ReplayIsDeterministic ==
  ASSUME InterruptModes = {FALSE}, MaxReplays <= 1
  PROVE  PersistenceSpec => []ReplayPartsOnlyAtAModel
<1>1. ASSUME ThreadOK, ReplayInv, NEW k \in StepsToCompare, PartsAt(k),
             \A j \in 1..(k - 1) : ~PartsAt(j)
      PROVE  Log[fork.at + k - 1].next \in {"classify", "evaluate"}
  <2> DEFINE Unlike == {j \in 1..(k - 1) :
                          ~Alike(Log[fork.at + j], Log[fork.length + j])}
  <2>0. /\ k \in 1..(Len(Log) - fork.length) /\ fork.at + k <= fork.length
        /\ fork # NoFork /\ \A j \in 1..k : Log[fork.at + j].next # "__start__"
        /\ Len(Log) \in Nat /\ fork.length \in Nat /\ fork.at \in Nat
    BY <1>1, TrackedThread DEF StepsToCompare
  <2>1. \A j \in 1..(k - 1) : j \in StepsToCompare
    <3>1. ASSUME NEW j \in 1..(k - 1)
          PROVE  /\ j \in 1..(Len(Log) - fork.length) /\ fork.at + j <= fork.length
                 /\ \A l \in 1..j : l \in 1..k
      BY <2>0
    <3> QED BY <2>0, <3>1 DEF StepsToCompare
  <2>2. Unlike = {}
    <3> SUFFICES ASSUME Unlike # {} PROVE FALSE
      OBVIOUS
    <3>1. k - 1 \in Nat /\ Unlike \in SUBSET (1..(k - 1))
      BY <2>0
    <3> HIDE DEF Unlike
    <3>2. PICK m \in Unlike : \A j \in Unlike : m <= j
      BY <3>1, LeastExists
    <3>3. m \in 1..(k - 1) /\ m \in StepsToCompare
      BY <2>1, <3>1, <3>2
    <3>4. m = 1 \/ (m - 1 \in 1..(k - 1) /\ m - 1 \notin Unlike)
      BY <3>1, <3>2, <3>3
    <3>5. m = 1 \/ (~PartsAt(m - 1) /\ Alike(Log[fork.at + (m - 1)], Log[fork.length + (m - 1)]))
      BY <1>1, <3>4 DEF Unlike
    <3>6. Alike(Log[fork.at + m], Log[fork.length + m])
      BY <1>1, <3>3, <3>5, AlikeStep DEF StepAlike
    <3> QED BY <3>2, <3>6 DEF Unlike
  <2>3. k = 1 \/ k - 1 \in 1..(k - 1)
    BY <2>0
  <2>4. k = 1 \/ (~PartsAt(k - 1) /\ Alike(Log[fork.at + (k - 1)], Log[fork.length + (k - 1)]))
    BY <1>1, <2>2, <2>3
  <2> QED BY <1>1, <2>4, AlikeStep DEF StepAlike
<1>2. ThreadOK /\ ReplayInv => ReplayPartsOnlyAtAModel
  BY <1>1 DEF ReplayPartsOnlyAtAModel
<1>3. PersistenceSpec => []ReplayInv
  BY ReplayInit, ReplayNext, ThreadInvariant, PTL DEF PersistenceSpec
<1> QED BY <1>2, <1>3, ThreadInvariant, PTL

===============================================================================
