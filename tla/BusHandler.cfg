SPECIFICATION FairSpec
CONSTANTS
  Source = 49
  MessageLen = 3
  ReplyLen = 2
  Platform = "posix"
  Bytes <- ExtBytes
  Messages = {"master_slave"}
  LockMax = 0
  Locks = {}
  Lossy = TRUE
  StartBits = FALSE
  Aborts = TRUE
INVARIANTS TypeOK ActiveBuffers WaitIsContention
PROPERTIES MessageAnswered ImplementsPort WaitEnds Settles
