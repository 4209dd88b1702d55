\* Every kind of line, and jobs with a line after or before them.
SPECIFICATION Spec
CONSTANTS
  MaxProc = 14
  Sessions <- MCSessions
INVARIANTS PlainRunAsSaid InOrder ResultIsChilds JobsExact
PROPERTY ReturnsToPrompt
CHECK_DEADLOCK FALSE
