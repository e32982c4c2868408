SPECIFICATION FairSpec
CONSTANTS
  reg = reg
  enh = enh
  NoClient = none
  Clients = {reg, enh}
  KindOf <- MCKinds
  ChunksOf <- MCChunks
  MaxClients = 1
  InCap = 2
  MaxChunks = 1
  BusBytes = {170, 16, 3}
  MaxBytes = 2
  LockMax = 0
  MaxStops = 1
  Quitters = {reg}
INVARIANTS
  TypeOK
  CutTelegramDisconnects
PROPERTIES
  SilentBusReleases
CHECK_DEADLOCK FALSE
