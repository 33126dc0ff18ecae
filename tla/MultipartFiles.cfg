\* Two files, both with a session, which share one part slot; lost parts, a signal, a timeout.
SPECIFICATION Spec
CONSTANTS
  f1 = f1
  f2 = f2
  Files <- TwoFiles
  Large <- TwoFiles
  PartCount = 1
  MaxConcurrentFiles = 2
  MaxConcurrentParts = 1
  PartAttempts = 2
  CompleteAttempts = 2
  PresignBatch = 1
  Faults <- EndFaults
INVARIANTS
  SlotsBounded
PROPERTIES
  Termination
CHECK_DEADLOCK FALSE
