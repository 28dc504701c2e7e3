CONSTANTS
  Word <- Word32
  ZeroWord = {}
  Files <- SegmentFiles
  PtLoad <- LoadWord
  HeaderWords = 2
  MemWords = 36
  AddressLimit = 64
  StackBottom = 36
SPECIFICATION Spec
INVARIANT SegmentsLoaded
CHECK_DEADLOCK FALSE
