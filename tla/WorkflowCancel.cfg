SPECIFICATION Spec
CONSTANTS
  Steps = {1, 2}
  Deps <- Chain
  Consumes <- Chain
  Concurrency = 2
  MaxAttempts = 2
  RetryOn = {"unclean"}
  ApiThreads = {1}
  RunFaults = {"prepare", "backend", "persist", "cancel"}
  Faults = {"step", "scheduler"}
  MaxCrashes = 1
INVARIANTS TypeOK RetryAfterVerdict LaunchesAreRecorded
PROPERTIES FollowsLifecycle CancelIntentKept
