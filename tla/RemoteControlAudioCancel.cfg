SPECIFICATION FairSpec
CONSTANTS
  TokenLimit = 2
  AudioChunks = 1
  MaxRequests = 2
  MaxPolls = 1
  Offered = {"Audio"}
PROPERTY AbandonedCellReleased
