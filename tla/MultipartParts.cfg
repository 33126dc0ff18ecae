\* One file of three parts, two slots, every fault of the registry and the store.
SPECIFICATION Spec
CONSTANTS
  f1 = f1
  f2 = f2
  Files <- OneFile
  Large <- OneFile
  PartCount = 3
  MaxConcurrentFiles = 1
  MaxConcurrentParts = 2
  PartAttempts = 2
  CompleteAttempts = 2
  PresignBatch = 2
  Faults <- PartFaults
INVARIANTS
  TypeOK
  SessionSound
PROPERTIES
  NothingSentAfterEnd
  PromiseKept
CHECK_DEADLOCK FALSE
