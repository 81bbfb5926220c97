SPECIFICATION MCSpec
CONSTANTS
  Time = {1, 2, 3}
  MaxLen = 3
  MaxIvl = 2
  Instants = {1, 2, 3}
  MaxIvls = 2
  ZNAN = ZNAN
  Numbers = {1, 2}
  Shapes <- MCShapes
  CovRows = 4
  Shifts <- MCShifts
  Huge = 1000
  Den = 2
  DaySecs = 6
  MonthDays <- MCMonths
  Zone <- MCZones
  When <- MCWhen
  SeqEnd <- MCSeqEnd
  Shift <- MCShift
  Lengths = {0, 1, 2, 3, 4}
  FromTime <- MCFrom
  ToTime <- MCTo
  MaxTo = 2
  Window <- MCWindow
  ManyWindows <- MCMany
  AlignZone <- MCAlignZone
  Data <- MCData
INVARIANTS SetsAreRight IntervalSetsAreRight
  
  LocalTimesAreRight TimeFunctionsAreRight
  AlignmentIsRight MediansAreRight
CHECK_DEADLOCK FALSE
