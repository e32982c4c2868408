SPECIFICATION Spec
CONSTANTS
  Cap = 4
  Sizes = 256
  Detection = 3
  MaxStuffed = 5
  Stuff <- MCStuff
  Parts <- MCParts
  MaxPieces = 8
  DataBytes <- MCDataBytes
  WholeValues <- MCWholeValues
  Responses <- MCResponses
  MaxSends = 5
  Trees <- MCTrees
  MaxChunk = 3
  BufferSizes = {16, 64}
  Lexemes <- MCLexemes
  MaxLexemes = 5
  MaxDepth = 2
  Paths <- MCPaths
  WriterBuffer = 4
  MaxTime = 8
  Generators <- MCGenerators
  Base = 3
  Tolerance = 2
  Factor = 3
  CarrierSense = 1
  Postpone = 1
  Serialization = 1
INVARIANT
  ValidateExact
CHECK_DEADLOCK FALSE
