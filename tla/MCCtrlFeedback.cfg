CONSTANTS
  SignedChar = FALSE
  Base = 8
  Delimiter = 1
  BS = 8
  Padding = 1
  MaxClock = 1
  MaxUnread = 5
SPECIFICATION FeedbackFairSpec
INVARIANTS
  FeedbackTypeOK
  NoneSkipped
  NeverLockedOut
PROPERTY SilentLineDrains
