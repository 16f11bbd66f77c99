SPECIFICATION ServicesSpec
CONSTANTS
  Paths = {"target", "u1", "u2", "b1", "b2"}
  Temps = {"u1", "u2"}
  Backups = {"b1", "b2"}
  Occupied = {"u1", "b1"}
  Versions = {"v1", "v2"}
  Contents = {"v1", "v2", "foreign", "bad"}
  Size = 2
  MaxUploads = 3
  Bytes = {"a", "b"}
  CacheLimit = 2
  MaxFileSize = 3
  MaxWrite = 2
  Browsers = {b1, b2}
  LogCapacity = 2
  MaxSequence = 4
  MaxAppend = 3
  MaxChunk = 2
  MaxBoots = 2
  Callers = {"menu", "other"}
  Operations = {"Install", "Cancel"}
  Phases = {0, 1, 2}
  Capacity = 2
  Stage = 1
  TokenMax = 2
  MaxCheckpoints = 3
INVARIANTS
  UploadSafe
  CleanWithoutFaults
  FilesFaithful
  LogFaithful
  JobsSound
  TransitionsInOrder
PROPERTIES
  SnapshotEnds
  JobAnswered
CHECK_DEADLOCK FALSE
