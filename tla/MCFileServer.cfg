\* Two clients, little memory at times, one stop of the machine.
SPECIFICATION Spec
CONSTANTS
  NBLOCK = 9
  NDIRECT = 1
  NINDIRECT = 3
  FILE2BLK = 2
  Clients = {c1, c2}
  FileIds = {0, 1}
  Trees <- HostTree
  OpenArgs <- Opens
  Sizes = {0, 3}
  RemoveArgs <- Removes
  MemLeft = {0, 9}
  MaxCalls = 3
  MaxCrashes = 1
SYMMETRY Symmetry
INVARIANTS
  TypeOK
  BitmapExact
  DiskConsistent
  ServerStops
  MappingsAgree
CHECK_DEADLOCK FALSE
