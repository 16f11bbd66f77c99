SPECIFICATION HandOffsSpec
CONSTANTS
  TokenLimit = 2
  AudioChunks = 2
  MaxRequests = 3
  MaxPolls = 1
  Offered = {"State", "Memory", "Screenshot", "Audio"}
  Core0Requests = {r1, r2}
  NoCore0Request = none
  SidJobs = {"j1", "j2"}
  Rates = {44, 48}
  DefaultRate = 44
  NoUsb = 0
  MaxChanges = 4
  SlotCount = 2
  QueueSize = 1
  TxChunk = 1
  RxChunk = 1
  GenLimit = 2
  MaxConns = 4
  MaxBytes = 0
INVARIANTS
  AnswersOwnRequest
  HandlingIsolated
  SidJobOwned
  PriorityKept
  SlotsConsistent
PROPERTIES
  ExchangeReturns
  StopTerminates
  HandledCellReleased
  IsRemoteCall
  CoresReturn
  RemovalNoticed
  SlotsComeBack
CHECK_DEADLOCK FALSE
