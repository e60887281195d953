\* A process that dies at any moment, with the checkpoints in a database and a
\* reviewer who answers in the requested form.
SPECIFICATION FairPersistenceSpec
CONSTANTS
  Exceptions     <- SomeException
  Queries        <- OneTicket
  Budgets        <- TwoBudgets
  InterruptModes <- HumanOnly
  Replies        <- StructuredReplies
  RecursionLimit = 25
  Kinds          <- Database
  WriteBehind    = 2
  MaxCrashes     = 2
  MaxInvocations = 1
  MaxReplays     = 0
  MaxIncidents   = 3
INVARIANTS
  PersistenceTypeOK
  OnlyCrashesForgetEffects
  DeclinedNeverExecutes
PROPERTIES
  StoreShowsLegalTicket
  InvocationComesToRest
CHECK_DEADLOCK FALSE
