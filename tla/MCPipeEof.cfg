\* A writer that writes and goes while the reader is about to give up.
SPECIFICATION Spec
CONSTANTS
  Proc = {rd, wr}
  Born = {rd, wr}
  FdNum = {0, 1}
  Dups <- NoDup
  Readers = {rd}
  Writers = {wr}
  PIPE_SIZE = 2
  PosMod = 16
  MaxBytes = 3
INVARIANT EofMeansDrained
CHECK_DEADLOCK FALSE
