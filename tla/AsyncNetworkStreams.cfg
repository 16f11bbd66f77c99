SPECIFICATION NetSpec
CONSTANTS
  SlotCount = 1
  QueueSize = 3
  TxChunk = 2
  RxChunk = 2
  GenLimit = 2
  MaxConns = 2
  MaxBytes = 4
INVARIANTS
  StreamsExact
