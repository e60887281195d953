\* A human who declines with the text "no".
SPECIFICATION Spec
CONSTANTS
  Exceptions     <- SomeException
  Queries        <- SomeQueries
  Budgets        <- DefaultBudget
  InterruptModes <- HumanOnly
  Replies        <- TextNo
  RecursionLimit = 25
INVARIANTS
  DeclinedNeverExecutes
CHECK_DEADLOCK FALSE
