\* A loop that reads and updates one declared variable.
SPECIFICATION Spec
CONSTANTS
  N = 2
  Start = 0
  Limit = 2
  Vars <- MCVars
  Loops <- ReadAndUpdate
PROPERTY Termination
CHECK_DEADLOCK FALSE
