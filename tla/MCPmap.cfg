\* Two address spaces whose tables and pages compete for five physical pages.
SPECIFICATION Spec
CONSTANTS
  Page = {p1, p2, p3, p4, p5}
  NoPage = NoPage
  NSlot = 4
  Asid = {a1, a2}
  RefMod = 16
  Va <- OnePerTable
  BadVa <- Bottom
  IpcDst <- OnePerTableOr0
SYMMETRY Interchangeable
INVARIANTS
  TypeOK
  RefCountInv
  TablesIntact
  TlbCoherent
PROPERTIES
  InvalidMemoryOnlySent
  MappingsKept
CHECK_DEADLOCK FALSE
