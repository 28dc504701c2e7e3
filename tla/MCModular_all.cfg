CONSTANTS
  fault = fault
  Space = 10
  NRegs = 3
  Decode <- Meaning
  PageMap <- Mapping
  Fault <- fault
  Boots <- Memories
  Entry = 0
  Fill = 0
  NSlots = 16
  Settings <- AllSettings
  HookedOps = {"add", "addi", "lw", "sw", "beq", "jal", "csrw", "ecall"}
  CounterSpace = 24
SPECIFICATION Spec
INVARIANTS TypeOK CallsAddUp CyclesCounted
PROPERTIES ImplementsGuestIsa BlocksTold OperandsReported EndsAsConfigured
CHECK_DEADLOCK FALSE
