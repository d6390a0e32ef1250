CONSTANTS
  MaxTimeouts = 2
  BufferSize = 2
  MaxRestarts = 1
SPECIFICATION FairSpec
INVARIANTS
  TypeOK
  RearmNeedsDisarm
PROPERTIES
  RelayDisarms
