SPECIFICATION Spec
CONSTANTS
  Groups <- SeriesGroups
  Skipped = {"bad"}
  Sequential = {"seq"}
  Files <- SeriesFiles
  Unreadable <- AllReadable
  Reps <- SeriesReps
  Endless = {}
  Pausing = {"seq"}
  Capped = FALSE
  Cap = 0
  Timed = FALSE
INVARIANTS TypeOK EverySeriesSent
