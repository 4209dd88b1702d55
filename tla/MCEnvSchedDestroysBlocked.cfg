\* Three slots, all of them in use at times.
SPECIFICATION Spec
CONSTANTS
  NENV = 3
  NASID = 3
  GenMod = 16
  Priorities = {1, 2}
  Values = {"a"}
  MaxAllocs = 4
  Liberties <- DestroysBlocked
INVARIANT SchedListInv
CHECK_DEADLOCK FALSE
