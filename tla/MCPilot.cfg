CONSTANTS
  Bridges = {b1, b2}
  Debugs = {d1, d2}
  Faulty = {}
SPECIFICATION FairSpec
INVARIANTS
  TypeOK
  ActiveBridgeIsDriven
  GuardHasReference
  EnabledSharesBridge
PROPERTIES
  ViolationIsCaught
  ImplementsTakeover
