\* Three slots, all of them in use at times.
SPECIFICATION Spec
CONSTANTS
  NENV = 3
  NASID = 3
  GenMod = 16
  Priorities = {2}
  Values = {"a"}
  MaxAllocs = 4
  Liberties <- NoLiberties
INVARIANTS
  TypeOK
  SchedListInv
  CurenvIsHead
  ReceiverIsBlocked
  StaleIdRejected
  NoKernelFault
PROPERTIES
  MessageKept
CHECK_DEADLOCK FALSE
