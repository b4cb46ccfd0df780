\* A thread block beside which main has something else to do.
SPECIFICATION Spec
CONSTANTS
  Globals <- MCGlobals
  Results <- MCResults
  Programs <- BlockAndGoOn
INVARIANT CallerContinues
\* main returns.
CHECK_DEADLOCK FALSE
