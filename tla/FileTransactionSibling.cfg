SPECIFICATION Spec
CONSTANTS
  Paths = {"target", "u1", "u2", "b1", "b2"}
  Temps = {"u1", "u2"}
  Backups = {"b1", "b2"}
  Occupied = {"u1", "b1"}
  Versions = {"v1", "v2"}
  Contents = {"v1", "v2", "foreign", "bad"}
  Size = 2
  MaxUploads = 3
INVARIANT
  ForeignFilesKept
CHECK_DEADLOCK FALSE
