\* The program LoopInThread.
SPECIFICATION Spec
CONSTANTS
  Names <- MCNames
  Sources <- LoopInThread
  MaxScope = 20
  MaxThreadIds = 16
  MaxFunctions = 64
  MaxCaptured = 20
  MaxProcessVars = 64
INVARIANT
  AnyDepth
\* The compiler stops when the program is written.
CHECK_DEADLOCK FALSE
