SPECIFICATION UpdateSpec
CONSTANTS
  Releases = {0, 1, 2}
  Paths <- MCPaths
  Contents = {"a0", "a1", "k0", "k1", "k2", "c0", "c1", "d0", "d2", "o0", "b0", "b1", "b2", "user"}
  Shipped <- MCShipped
  Pass <- MCPass
  Deletions <- MCDeletions
  Preserve = {"disk"}
  UserContent = "user"
  ConfigPath = "config"
  Accepts <- MCAccepts
  Drafts = {2}
INVARIANT
  Retryable
CHECK_DEADLOCK FALSE
