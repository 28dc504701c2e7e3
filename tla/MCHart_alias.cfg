CONSTANTS
  PcSpace = 4
  Programs <- AliasPrograms
  Entry = 0
  CounterSpace = 1
  MaxCalls = 3
  ExecPcs = {0, 1, 2}
  NSlots = 2
  JitBound = 1
  UseJit = FALSE
  MaxBB = 3
  MaxCycles = 0
SPECIFICATION Spec
INVARIANTS InstructionFaithful
CHECK_DEADLOCK FALSE
