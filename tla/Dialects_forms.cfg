SPECIFICATION Spec
CONSTANTS
  Max32 = 3
  MaxExact = 8
  Max64 = 15
  MaxPlain = 31
  MaxDouble = 59
  MaxDigits = 99
  Spacing <- MCSpacing
  Routes <- MCRoutes
  Numbers <- MCNumbers
INVARIANTS TypeOK CountIsExplained MeaningKept NoNewFault
CHECK_DEADLOCK FALSE
