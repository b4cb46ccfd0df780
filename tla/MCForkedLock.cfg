\* A child process forked while a thread may hold the mutex it needs.
SPECIFICATION Spec
CONSTANTS
  Globals <- MCGlobals
  Results <- MCResults
  Programs <- ForkInTheMiddle
PROPERTY Termination
\* main returns.
CHECK_DEADLOCK FALSE
