\* Two clients that write and close files, the same one or not.
SPECIFICATION Spec
CONSTANTS
  NBLOCK = 9
  NDIRECT = 1
  NINDIRECT = 3
  FILE2BLK = 2
  Clients = {c1, c2}
  FileIds = {0, 1}
  Trees <- HostTree
  OpenArgs <- WriterOpens
  Sizes = {}
  RemoveArgs = {}
  MemLeft = {0, 9}
  MaxCalls = 5
  MaxCrashes = 0
SYMMETRY Symmetry
PROPERTY CloseFlushes
CHECK_DEADLOCK FALSE
