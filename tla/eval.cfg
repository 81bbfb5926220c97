SPECIFICATION MCSpec
CONSTANTS
  MaxDepth = 14
  Programs <- MCPrograms
  FormalLists <- MCFormalLists
  ActualLists <- MCActualLists
  Vars = {"x", "y"}
  Literals = {"one"}
  LiteralIs <- MCLiteralIs
INVARIANTS ProgramsAreRight SharingIsSound
PROPERTIES  WritesStay
CHECK_DEADLOCK FALSE
