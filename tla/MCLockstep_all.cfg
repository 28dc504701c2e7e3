CONSTANTS
  ByteBits = 1
  UpperShift = 2
  NRegs = 3
  SatpNumber = 1
  MemSize = 12
  Menu <- FullMenu
  Starts <- AllStarts
  Hosts <- AnyHost
  X4 <- LeftOver
  MaxSteps = 2
SPECIFICATION Spec
INVARIANTS TypeOK ZeroRegister
PROPERTIES DivergesExactly DivergesExactlyA64
CHECK_DEADLOCK FALSE
