\* The graph against the abstract specification of ticket handling.
SPECIFICATION FairSpec
CONSTANTS
  Exceptions     <- SomeException
  Queries        <- SomeQueries
  Budgets        <- SmallBudgets
  InterruptModes <- MixedModes
  Replies        <- HumanReplies
  RecursionLimit = 25
PROPERTIES
  ImplementsTicketHandling
  InvocationReturns
CHECK_DEADLOCK FALSE
