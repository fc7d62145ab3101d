SPECIFICATION FairSpec
CONSTANTS
  Callers = {c1, c2, c3}
  Limit = 2
INVARIANTS TypeOK CapacityBounded LostChildQuarantines
PROPERTIES CallEnds
