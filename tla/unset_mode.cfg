\* A process without LANGGRAPH_INTERRUPT resumes the ticket of one with it.
SPECIFICATION Spec
CONSTANTS
  Exceptions     <- SomeException
  Queries        <- SomeQueries
  Budgets        <- DefaultBudget
  InterruptModes <- MixedModes
  Replies        <- StructuredReplies
  RecursionLimit = 25
INVARIANTS
  DeclinedNeverExecutes
CHECK_DEADLOCK FALSE
