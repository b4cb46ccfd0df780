\* A variable read by the main thread and by a thread block, at the code's limits.
SPECIFICATION Spec
CONSTANTS
  Names <- MCNames
  Programs <- ReadInThread
  MaxScope = 100
  MaxThreadIds = 10
  MaxFunctions = 100
  MaxCaptured = 20
INVARIANT DeclarationKnowsSharing
CHECK_DEADLOCK FALSE
