SPECIFICATION FairSpec
CONSTANTS
  MaxSession = 3
  Malformed = {2}
  MaxAttempts = 2
  MaxItems = 1
  QueueSize = 2
  Stops = TRUE
INVARIANTS TypeOK OnePlace AttemptBound SendAccepted StampMatches
PROPERTY SessionEnds
