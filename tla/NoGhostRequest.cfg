SPECIFICATION Spec
CONSTANTS
  Source = 49
  MessageLen = 3
  ReplyLen = 2
  Platform = "posix"
  Bytes <- CastBytes
  Messages = {"master_slave"}
  LockMax = 0
  Locks = {}
  Lossy = FALSE
  StartBits = FALSE
  Aborts = FALSE
INVARIANTS NoGhostRequest
