SPECIFICATION MCSpec
CONSTANTS
  MaxPfn = 4
  MaxOrder = 2
  Callers <- MCCallers
  MaxKernelOps = 3
  MaxOwnerCmds = 2
INVARIANTS      PagesDecoded DecodedInside
PROPERTY CommandsEnd
CHECK_DEADLOCK FALSE
