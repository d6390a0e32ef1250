\* One client is enough: its reset() interleaves with the guard.
CONSTANTS
  Clients = {c1}
  MaxTimeouts = 2
SPECIFICATION FairSpec
PROPERTY LockedIsDisarmed
