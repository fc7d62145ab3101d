SPECIFICATION FairSpec
CONSTANTS
  Runs = {r1}
  Executors = {e1, e2}
  Cancellers = {c1, c2}
  NoRun = NoRun
  Faults = {"prepare", "backend", "persist", "cancel"}
  MaxCrashes = 2
INVARIANTS TypeOK AtMostOneLaunch LegalHistory
PROPERTIES SingleVerdict ClaimIsReleased
