SPECIFICATION TftpSpec
CONSTANTS
  SeqSize = 3
  FileLen = 5
  SmallBlock = 1
  BigBlock = 2
  MemSizes = {0, 3, 8}
  MaxTimeouts = 1
  Retries = 1
  Tids = {"a", "b"}
  ChanLen = 2
  Reorder = FALSE
\* net_loop() returns.
CHECK_DEADLOCK FALSE
INVARIANTS
  BlocksSound
  FileIsWhole
PROPERTY
  Ends
