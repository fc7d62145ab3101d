SPECIFICATION Spec
CONSTANTS
  Steps = {1, 2}
  Outputs = {o1, o2}
  MaxAttempts = 2
  MaxGeneration = 3
  Durable = TRUE
INVARIANTS TypeOK TokensDistinct OneOutputPerToken PublishedByHolder
PROPERTIES Refines
