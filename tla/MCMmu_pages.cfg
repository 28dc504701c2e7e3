CONSTANTS
  VpnBits = 2
  IndexBits = 1
  TagBits = 1
  Vpns <- Pages
  Tables <- ThreeTables
  Stores <- AllStores
  Roots <- OneRoot
  Remaps = FALSE
SPECIFICATION Spec
INVARIANTS TypeOK HitsExact
PROPERTIES SmallPagesRight ImplementsAddressSpace
CHECK_DEADLOCK FALSE
