\* The notice of the dead letter after approved actions.
SPECIFICATION Spec
CONSTANTS
  Exceptions     <- SomeException
  Queries        <- SomeQueries
  Budgets        <- SmallBudgets
  InterruptModes <- MockOnly
  Replies        <- NoReplies
  RecursionLimit = 25
INVARIANTS
  EscalationIsHonest
CHECK_DEADLOCK FALSE
