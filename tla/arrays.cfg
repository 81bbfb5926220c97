SPECIFICATION MCSpec
CONSTANTS
  Sources <- MCSources
  Others <- MCOthers
  IndexArgs <- MCIndexArgs
  Elems <- MCElems
  ArgNames <- MCArgNames
  Counts <- MCCounts
  MaxCalls = 3
  MaxElements = 6
  Lefts <- MCLefts
  Rights <- MCRights
  Elem <- MCElem
  MaxOps = 2
INVARIANTS  OperatorsAreRight
CHECK_DEADLOCK FALSE
