\* A function that calls itself in a thread, at the code's limits.
SPECIFICATION Spec
CONSTANTS
  Names <- MCNames
  Programs <- RecursiveThread
  MaxScope = 100
  MaxThreadIds = 10
  MaxFunctions = 100
  MaxCaptured = 20
INVARIANT RecursionAnalyzed
CHECK_DEADLOCK FALSE
