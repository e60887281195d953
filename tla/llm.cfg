\* Three calls with three kinds of arguments, an environment that changes at any
\* time, and a cache too small for all of them.
SPECIFICATION FairSpec
CONSTANTS
  Requests     <- NodeRequests
  Environments <- SomeEnvironments
  Installed    <- TwoInstalled
  MaxCached = 2
  MaxCalls = 3
INVARIANTS
  TypeOK
  ClientFitsItsRequest
  FinalIterationEndsTheCall
  OnlyRateLimitsAreRetried
  BackoffGrows
PROPERTIES
  ImplementsModelCall
CHECK_DEADLOCK FALSE
