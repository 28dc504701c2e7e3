CONSTANTS
  PcSpace = 4
  Programs <- WildPrograms
  Entry = 0
  CounterSpace = 1
  MaxCalls = 2
  ExecPcs = {0, 1, 2}
  NSlots = 4
  JitBound = 3
  UseJit = TRUE
  MaxBB = 2
  MaxCycles = 0
SPECIFICATION Spec
INVARIANTS OnlyRecompiledFreed LiveInv
PROPERTIES HaltUnwinds
CHECK_DEADLOCK FALSE
