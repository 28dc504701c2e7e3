CONSTANTS
  Word <- Word32
  ZeroWord = {}
  Files <- AllFiles
  PtLoad <- LoadWord
  HeaderWords = 2
  MemWords = 36
  AddressLimit = 64
  StackBottom = 36
SPECIFICATION Spec
INVARIANTS TypeOK FirstSegmentOnly AssembledIsExecuted OperandsInRange DecodesTheDescription
CHECK_DEADLOCK FALSE
