\* Two runs of the command over one database.
SPECIFICATION RunnerSpec
CONSTANTS
  Exceptions     <- NoException
  Queries        <- NoQueries
  Budgets        <- NoBudgets
  InterruptModes <- MockOnly
  Replies        <- NoReplies
  RecursionLimit = 25
  Files          <- SampleFile
  Ids            <- AllIds
  Kinds          <- DatabaseOnly
  MaxBatches     = 2
  MaxSurprises   = 0
INVARIANT
  TotalRetriesCountVisits
CHECK_DEADLOCK FALSE
