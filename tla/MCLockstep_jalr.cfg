CONSTANTS
  ByteBits = 1
  UpperShift = 2
  NRegs = 3
  SatpNumber = 1
  MemSize = 12
  Menu <- JalrMenu
  Starts <- AllStarts
  Hosts <- X86Only
  X4 <- LeftOver
  MaxSteps = 1
SPECIFICATION Spec
PROPERTIES JalrTarget
CHECK_DEADLOCK FALSE
