SPECIFICATION Spec
CONSTANTS
  Calls = {a, b}
  Limit = 2
  MaxSpin = 3
  MaxParts = 1
  Nobody = Nobody
INVARIANTS TypeOK ResolvedWhole TimeOutIsLate SettledIsClosed
PROPERTY EveryPostSettles
CHECK_DEADLOCK FALSE
