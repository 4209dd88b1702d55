\* Processes dup, fork, close, ask and end.
SPECIFICATION Spec
CONSTANTS
  Proc = {p1, p2, p3}
  Born = {p1, p2}
  FdNum = {0, 1}
  Dups <- DupOver
  Readers = {}
  Writers = {}
  PIPE_SIZE = 2
  PosMod = 16
  MaxBytes = 3
INVARIANT CountsAgreeAtRest
PROPERTY ClosedUnlessForking
CHECK_DEADLOCK FALSE
