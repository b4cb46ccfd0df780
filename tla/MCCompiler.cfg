\* Every program of the menu, with tables small enough to be filled.
SPECIFICATION Spec
CONSTANTS
  Names <- MCNames
  Sources <- MCSources
  MaxScope = 6
  MaxThreadIds = 2
  MaxFunctions = 3
  MaxCaptured = 2
  MaxProcessVars = 1
INVARIANTS
  TypeOK
  WellFormedTree
  NothingDropped
  ReadBack
  EachWrittenOnce
  
  MadeNamesResolve
PROPERTY
  Termination
\* The compiler stops when the program is written.
CHECK_DEADLOCK FALSE
