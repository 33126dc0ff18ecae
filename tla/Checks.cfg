\* Every format of lock file over four files, in batches of two, one at a time; three observations of lines.
SPECIFICATION ChecksSpec
CONSTANTS
  Files <- SomeFiles
  Formats <- Parsers
  BatchSize = 2
  Workers = 1
  MaxPolls = 2
  Tracked <- MCTracked
  Excluded <- MCExcluded
  Changed <- MCChanged
  GoModules <- MCGoModules
  Manifests <- MCManifests
  Roots <- MCRoots
  Observations <- MCObservations
  MaxSeen = 3
INVARIANTS
  AuditIsWhole
  CoverageIsTrue
PROPERTIES
  AuditEnds
CHECK_DEADLOCK FALSE
