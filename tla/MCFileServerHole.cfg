\* One client on a disk that fills up.
SPECIFICATION Spec
CONSTANTS
  NBLOCK = 9
  NDIRECT = 1
  NINDIRECT = 3
  FILE2BLK = 2
  Clients = {c1}
  FileIds = {0, 1}
  Trees <- HostTree
  OpenArgs <- Opens
  Sizes = {0, 3}
  RemoveArgs <- Removes
  MemLeft = {9}
  MaxCalls = 3
  MaxCrashes = 0
INVARIANT TruncateSucceeds
CHECK_DEADLOCK FALSE
