SPECIFICATION Spec
CONSTANTS
  Steps = {1}
  Deps <- Single
  Consumes <- Single
  Concurrency = 1
  MaxAttempts = 1
  RetryOn = {}
  ApiThreads = {1}
  RunFaults = {}
  Faults = {}
  MaxCrashes = 1
PROPERTIES RecoveryClosesAttempts
