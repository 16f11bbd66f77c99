SPECIFICATION Spec
CONSTANTS
  N = 2
  MaxBody = 1
  MaxStreams = 1
  HeaderTimeout = 1
  BodyTimeout = 1
  IdleTimeout = 1
  WriteTimeout = 1
  MaxCall = 1
  MaxYields = 1
PROPERTY
  WriteTimeoutEarned
