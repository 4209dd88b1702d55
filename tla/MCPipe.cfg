\* A reader and a writer, both with both ends at first.
SPECIFICATION Spec
CONSTANTS
  Proc = {rd, wr}
  Born = {rd, wr}
  FdNum = {0, 1}
  Dups <- NoDup
  Readers = {rd}
  Writers = {wr}
  PIPE_SIZE = 2
  PosMod = 4
  MaxBytes = 3
INVARIANTS
  ClosedIsTrue
  Fifo
PROPERTIES
  ReadReturns
  WriteReturns
CHECK_DEADLOCK FALSE
