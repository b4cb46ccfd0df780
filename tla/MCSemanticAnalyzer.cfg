\* Every program of the menu, with limits small enough to be reached.
SPECIFICATION Spec
CONSTANTS
  Names <- MCNames
  Programs <- MCPrograms
  MaxScope = 5
  MaxThreadIds = 2
  MaxFunctions = 1
  MaxCaptured = 2
INVARIANTS
  TypeOK
  SharedExactly
  ContextsNest
  Balanced
  AnnotationsWritten
  LockedUpdateHasMutex
  OuterReadsCaptured
  LoopsProtected
  CapturedOnce
PROPERTY
  Termination
\* The analysis stops when the tree is analyzed.
CHECK_DEADLOCK FALSE
