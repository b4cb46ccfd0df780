\* Loops with and without captured variables, in slices of unequal length.
SPECIFICATION Spec
CONSTANTS
  N = 3
  Start = 1
  Limit = 5
  Vars <- MCVars
  Loops <- MCLoops
INVARIANTS
  TypeOK
  Exclusion
  SlicesDisjoint
  AfterTheLoop
PROPERTIES
  ImplementsLoop
  NoLostUpdate
  Termination
\* main goes on after the loop.
CHECK_DEADLOCK FALSE
