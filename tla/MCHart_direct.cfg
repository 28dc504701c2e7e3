CONSTANTS
  PcSpace = 4
  Programs <- PagingPrograms
  Entry = 0
  CounterSpace = 1
  MaxCalls = 3
  ExecPcs = {0, 1, 2}
  NSlots = 4
  JitBound = 1
  UseJit = TRUE
  MaxBB = 3
  MaxCycles = 0
SPECIFICATION Spec
INVARIANTS DirectOnlyUnpaged
CHECK_DEADLOCK FALSE
