\* Nobody approves; one run of the command.
SPECIFICATION RunnerSpec
CONSTANTS
  Exceptions     <- NoException
  Queries        <- NoQueries
  Budgets        <- NoBudgets
  InterruptModes <- HumanOnly
  Replies        <- NoReplies
  RecursionLimit = 25
  Files          <- SampleFile
  Ids            <- AllIds
  Kinds          <- MemoryOnly
  MaxBatches     = 1
  MaxSurprises   = 0
INVARIANT
  FailuresTerminated
CHECK_DEADLOCK FALSE
