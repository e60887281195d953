---------------------------- MODULE TicketHandling ----------------------------
(***************************************************************************)
(* What the agent promises about a ticket, whatever graph implements it:   *)
(* a ticket that needs a decision gets it before the tool is called for    *)
(* it, every call after that is covered by that decision, calls stay       *)
(* within a limit, an escalation means the limit is used up, and a ticket  *)
(* that does not wait for a human is closed with exactly one reply.        *)
(***************************************************************************)
EXTENDS Integers

CONSTANT Limits      \* The call limits a ticket may come with, all positive.

VARIABLES
  stage,        \* "triage", "gate", "acting", "replying" or "closed".
  limit,        \* Tool calls the ticket may use.
  authorised,   \* A reviewer has approved the proposed action.
  calls,        \* Tool calls made.
  effects,      \* Tool calls that carried out the approved action.
  reply         \* "none", "answer", "question" or "escalation".

vars == <<stage, limit, authorised, calls, effects, reply>>

Init ==
  /\ stage = "triage"
  /\ limit \in Limits
  /\ authorised = FALSE
  /\ calls = 0
  /\ effects = 0
  /\ reply = "none"

Move(from, to) == stage = from /\ stage' = to

Propose ==
  /\ Move("triage", "gate")
  /\ UNCHANGED <<limit, authorised, calls, effects, reply>>

Authorise ==
  /\ Move("gate", "acting")
  /\ authorised' = TRUE
  /\ UNCHANGED <<limit, calls, effects, reply>>

Decline ==
  /\ Move("gate", "replying")
  /\ reply' = "question"
  /\ UNCHANGED <<limit, authorised, calls, effects>>

\* A ticket that reports a failure uses up a unit of its limit at once.
Act ==
  /\ Move("triage", "acting")
  /\ limit' \in {limit, limit - 1}
  /\ UNCHANGED <<authorised, calls, effects, reply>>

ReplyAtOnce ==
  /\ Move("triage", "replying")
  /\ reply' \in {"answer", "question"}
  /\ UNCHANGED <<limit, authorised, calls, effects>>

Call ==
  /\ stage = "acting"
  /\ calls < limit
  /\ calls' = calls + 1
  /\ effects' = IF authorised THEN effects + 1 ELSE effects
  /\ UNCHANGED <<stage, limit, authorised, reply>>

Accept ==
  /\ Move("acting", "replying")
  /\ calls > 0
  /\ reply' = "answer"
  /\ UNCHANGED <<limit, authorised, calls, effects>>

Escalate ==
  /\ Move("acting", "replying")
  /\ calls = limit
  /\ reply' = "escalation"
  /\ UNCHANGED <<limit, authorised, calls, effects>>

Close ==
  /\ Move("replying", "closed")
  /\ UNCHANGED <<limit, authorised, calls, effects, reply>>

Proceed ==
  \/ Propose
  \/ Act
  \/ ReplyAtOnce
  \/ Call
  \/ Accept
  \/ Escalate
  \/ Close

Next == Proceed \/ Authorise \/ Decline

Spec == Init /\ [][Next]_vars

\* The agent keeps a ticket moving; a reviewer may take for ever.
FairSpec == Spec /\ WF_vars(Proceed)

===============================================================================
