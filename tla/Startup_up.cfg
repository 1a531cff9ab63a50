SPECIFICATION Spec
CONSTANT MaxStops = 2
INVARIANTS TypeOK StartedInOrder NoLookUpTooSoon BookAgesOnlyByRestart
PROPERTY StartEnds
CHECK_DEADLOCK FALSE
