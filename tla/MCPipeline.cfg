\* The divisor of onboard_pilot.yaml; a feedthrough command lasts two cycles.
CONSTANTS
  Plans = {p1, p2}
  Divisor = 3
  HasInner = TRUE
  StopAfterFeedthrough = TRUE
  FeedthroughTimeout = 2
  MaxSteps = 7
SPECIFICATION FairSpec
INVARIANTS
  TypeOK
  StepsPerOuterSuccess
  NewPlanTakesOver
PROPERTY SettlesOnPlan
