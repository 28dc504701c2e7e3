CONSTANTS
  PcSpace = 4
  Programs <- CountPrograms
  Entry = 0
  CounterSpace = 7
  MaxCalls = 2
  ExecPcs = {0, 1, 2}
  NSlots = 4
  JitBound = 0
  UseJit = TRUE
  MaxBB = 2
  MaxCycles = 5
SPECIFICATION Spec
INVARIANTS CyclesExact CountInv
CHECK_DEADLOCK FALSE
