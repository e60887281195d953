\* Two runs of the command, each with mocked approvals or with nobody to approve.
SPECIFICATION FairRunnerSpec
CONSTANTS
  Exceptions     <- AnyException
  Queries        <- NoQueries
  Budgets        <- NoBudgets
  InterruptModes <- EitherMode
  Replies        <- NoReplies
  RecursionLimit = 10
  Files          <- AnyFile
  Ids            <- AllIds
  Kinds          <- AnyKind
  MaxBatches     = 2
  MaxSurprises   = 1
INVARIANTS
  RunnerTypeOK
  TotalsTellTheBatch
  TotalsCountTheThreads
  EscalationsAreReported
  SuccessMeansFinished
PROPERTIES
  NoPartialReport
  BatchEnds
CHECK_DEADLOCK FALSE
