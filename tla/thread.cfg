\* A thread id that is invoked twice and replayed from its middle, crash or not.
SPECIFICATION PersistenceSpec
CONSTANTS
  Exceptions     <- SomeException
  Queries        <- OneTicket
  Budgets        <- OneBudget
  InterruptModes <- MockOnly
  Replies        <- NoReplies
  RecursionLimit = 25
  Kinds          <- AnyKind
  WriteBehind    = 1
  MaxCrashes     = 1
  MaxInvocations = 2
  MaxReplays     = 1
  MaxIncidents   = 3
INVARIANTS
  SituationIsOfThisRun
  ApprovalIsOfThisRun
  EffectsWithinBudgets
  ReplayPartsOnlyAtAModel
CHECK_DEADLOCK FALSE
