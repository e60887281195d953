\* A ticket about the dead_letter queue that is answered after two retries.
SPECIFICATION RunnerSpec
CONSTANTS
  Exceptions     <- NoException
  Queries        <- NoQueries
  Budgets        <- NoBudgets
  InterruptModes <- MockOnly
  Replies        <- NoReplies
  RecursionLimit = 25
  Files          <- NamingFile
  Ids            <- AllIds
  Kinds          <- MemoryOnly
  MaxBatches     = 1
  MaxSurprises   = 0
INVARIANT
  DeadLettersWereEscalated
CHECK_DEADLOCK FALSE
