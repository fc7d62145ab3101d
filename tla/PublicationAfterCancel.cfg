SPECIFICATION Spec
CONSTANTS
  Steps = {1}
  Outputs = {o1, o2}
  MaxAttempts = 1
  MaxGeneration = 1
  Durable = FALSE
PROPERTIES ClosedAfterCancel
