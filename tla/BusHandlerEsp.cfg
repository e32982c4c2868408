SPECIFICATION Spec
CONSTANTS
  Source = 49
  MessageLen = 3
  ReplyLen = 2
  Platform = "esp"
  Bytes <- CastBytes
  Messages = {"master_slave", "master_master", "broadcast"}
  LockMax = 0
  Locks = {0, 1}
  Lossy = TRUE
  StartBits = TRUE
  Aborts = TRUE
INVARIANTS RepeatOnce NoIllegalTransition
