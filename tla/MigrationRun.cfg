\* An image, a leaf package and a package of two versions, one of them GO; real and dry runs,
\* two jobs of every engine at a time.
SPECIFICATION MCSpec
CONSTANTS
  root = root
  r1 = r1
  img = img
  leaf = leaf
  p1 = p1
  v1 = v1
  v2 = v2
  a1 = a1
  a2 = a2
  a3 = a3
  t1 = t1
  s1 = s1
  Root = root
  Registries <- OneRegistry
  Packages <- ThreePackages
  Versions <- TwoVersions
  Artifacts <- ThreeFiles
  Parent <- Tree
  Leaf <- LeafPackages
  Oci <- OneImage
  Tags <- OneTag
  GoVersions <- OneGo
  Strangers <- OneStranger
  Uri <- Paths
  Base <- SameName
  Concurrency = 2
INVARIANTS
  TypeOK
  OneHonestRow
  NoFileForgotten
  FailuresReachTheExit
  DryRunLosesOnlyToRaces
PROPERTIES
  NothingAfterRun
  DryRunMutatesOnlyGo
  Termination
CHECK_DEADLOCK FALSE
