\* fork and spawn, two calls, one failing system call.
SPECIFICATION Spec
CONSTANTS
  e1 = e1  e2 = e2  e3 = e3
  Env = {e1, e2, e3}
  First = e1
  MaxPage = 7
  PAGE_SIZE = 2
  Own = {0, 1, 2}
  Lib = {3, 4}
  Fd = 4
  Stack = 2
  Begin = {0, 2, 3}
  Values = {1}
  Programs <- MCPrograms
  MaxMade = 2
  MaxFaults = 1
SYMMETRY Symmetry
INVARIANTS Isolation SharedStaysShared HandlerReady ChildComplete NothingLeft
CHECK_DEADLOCK FALSE
