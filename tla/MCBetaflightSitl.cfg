\* The bridge locks at two timeouts; both phases last one step of time.
CONSTANTS
  MaxTimeouts = 2
  Hold = 1
  Prearm = 1
SPECIFICATION FairSpec
INVARIANTS
  TypeOK
  ArmedOnlyAfterHold
  GoneIsDisarmed
PROPERTIES
  FailureStops
\* The program ends.
CHECK_DEADLOCK FALSE
