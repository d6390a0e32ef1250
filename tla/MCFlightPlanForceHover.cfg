CONSTANTS
  Goals = {g1, g2}
  Inf = 100
  MaxDuration = 3
  MaxTime = 4
  MaxRefs = 3
SPECIFICATION Spec
PROPERTY ForceHoverTakesOver
CHECK_DEADLOCK FALSE
