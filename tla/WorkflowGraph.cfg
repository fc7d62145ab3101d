SPECIFICATION Spec
CONSTANTS
  Steps = {1, 2, 3, 4}
  Deps <- WideJoin
  Consumes <- WideJoinInputs
  Concurrency = 2
  MaxAttempts = 1
  RetryOn = {}
  ApiThreads = {}
  RunFaults = {"prepare", "backend"}
  Faults = {"step"}
  MaxCrashes = 0
INVARIANTS FailFastReachesSiblings ConcurrencyBounded NeverStalls DependenciesPublished SucceededIsComplete
