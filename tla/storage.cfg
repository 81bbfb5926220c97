SPECIFICATION Spec
CONSTANTS
  NC = 2
  InitialAlloc = 6
  MaxChunk = 2
  MaxRows = 4
  MaxOps = 4
  MaxFail = 2
  MaxCrash = 1
INVARIANTS TypeOK CoherentWhenIdle WritesInBounds
PROPERTIES RowsAreKept ImplementsSeries
CHECK_DEADLOCK FALSE
