\* Two client threads and the guard; the bridge locks at two timeouts.
CONSTANTS
  Clients = {c1, c2}
  MaxTimeouts = 2
SPECIFICATION FairSpec
INVARIANTS
  TypeOK
  CountBounded
  AtMostOneStale
PROPERTIES
  DeadManDisarms
  DisarmReachesReceiver
