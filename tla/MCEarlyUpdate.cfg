\* An update analyzed before the variable is known to be shared.
SPECIFICATION Spec
CONSTANTS
  Globals <- MCGlobals
  Results <- MCResults
  Programs <- EarlyUpdate
INVARIANT Exclusion
\* main returns.
CHECK_DEADLOCK FALSE
