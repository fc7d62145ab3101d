SPECIFICATION FairSpec
CONSTANTS
  Steps = {1}
  Deps <- Single
  Consumes <- Single
  Concurrency = 1
  MaxAttempts = 1
  RetryOn = {}
  ApiThreads = {1}
  RunFaults = {"prepare"}
  Faults = {}
  MaxCrashes = 2
INVARIANTS RunningIsAttended TerminalWorkflowIsQuiet
PROPERTIES ExecutionEnds StartedOrCancelledEnds RunningIsResolved
