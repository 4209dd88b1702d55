\* Fewer asids than slots: env_alloc also fails for want of an asid.
SPECIFICATION Spec
CONSTANTS
  NENV = 3
  NASID = 2
  GenMod = 8
  Priorities = {1, 2}
  Values = {"a"}
  MaxAllocs = 4
  Liberties <- NoLiberties
INVARIANTS
  FreeListInv
  AsidInv
  SlicesLeft
PROPERTIES
  NoStarvation
  ImplementsRunQueue
CHECK_DEADLOCK FALSE
