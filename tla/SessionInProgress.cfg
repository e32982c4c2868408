SPECIFICATION Spec
CONSTANTS
  reg = reg
  enh = enh
  NoClient = none
  Clients = {reg}
  KindOf <- MCKinds
  ChunksOf <- MCChunks
  MaxClients = 1
  InCap = 4
  MaxChunks = 1
  BusBytes = {170, 16}
  MaxBytes = 2
  LockMax = 0
  MaxStops = 0
  Quitters = {}
INVARIANT
  SessionInProgress
