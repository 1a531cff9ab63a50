SPECIFICATION FairSpec
CONSTANTS
  Groups <- LimitsGroups
  Skipped = {}
  Sequential = {"seq", "torn"}
  Files <- LimitsFiles
  Unreadable <- LimitsTorn
  Reps <- LimitsReps
  Endless = {"seq", "par"}
  Pausing = {"par"}
  Capped = TRUE
  Cap = 4
  Timed = TRUE
INVARIANT OvershootBounded
PROPERTIES NothingSentAfterStop StopEndsAll
