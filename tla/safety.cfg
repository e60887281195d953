\* Every kind of ticket, small budgets and two around the limit, any human, any
\* environment.
SPECIFICATION Spec
CONSTANTS
  Exceptions     <- SomeException
  Queries        <- AllQueries
  Budgets        <- BothBounds
  InterruptModes <- MixedModes
  Replies        <- HumanReplies
  RecursionLimit = 25
INVARIANTS
  TypeOK
  RiskyGate
  EffectsMatchRoute
  ReviewerSeesHighRisk
  CallsWithinBudget
  ModelCallsWithinBudget
  EscalationIsLastResort
  AnswersRestOnSuccess
  ErrorRouteNeedsBudgetOfThree
  FailuresAreRecorded
  FinishedRunsReplyOnce
  OutageKeepsTheOrder
  RaiseNeedsLargeBudget
PROPERTIES
  DecisionIsFinal
CHECK_DEADLOCK FALSE
