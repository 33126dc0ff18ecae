\* Every handler, whose steps may each fail, and whose process may be ended anywhere.
CONSTANTS
  Programs <- AllPrograms
  Known <- KnownOnes
SPECIFICATION Spec
INVARIANTS
  ZeroMeansDone
  RefusedIsUntouched
  NothingLeftBehind
PROPERTY Ends
CHECK_DEADLOCK FALSE
