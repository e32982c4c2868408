SPECIFICATION Spec
CONSTANTS
  MaxSession = 1
  Malformed = {}
  MaxAttempts = 2
  MaxItems = 2
  QueueSize = 2
  Stops = FALSE
INVARIANT Correlated
