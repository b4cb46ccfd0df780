\* Threads, processes and updates of main in several orders.
SPECIFICATION Spec
CONSTANTS
  Globals <- MCGlobals
  Results <- MCResults
  Programs <- MCPrograms
INVARIANTS
  TypeOK
  Exclusion
  AwaitDelivers
  EffectsVisible
PROPERTIES
  Isolation
  NoLostUpdate
  Termination
\* main returns.
CHECK_DEADLOCK FALSE
