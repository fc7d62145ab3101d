SPECIFICATION Spec
CONSTANTS
  Runs = {r1}
  Executors = {e1}
  Cancellers = {c1}
  NoRun = NoRun
  Faults = {"backend"}
  MaxCrashes = 0
INVARIANTS NoStrandedRunning
