\* A dry run of a GO registry creates its versions at the destination.
SPECIFICATION MCSpec
CONSTANTS
  root = root
  r1 = r1
  img = img
  leaf = leaf
  p1 = p1
  v1 = v1
  v2 = v2
  a1 = a1
  a2 = a2
  a3 = a3
  t1 = t1
  s1 = s1
  Root = root
  Registries <- OneRegistry
  Packages <- ThreePackages
  Versions <- TwoVersions
  Artifacts <- ThreeFiles
  Parent <- Tree
  Leaf <- LeafPackages
  Oci <- OneImage
  Tags <- OneTag
  GoVersions <- OneGo
  Strangers <- OneStranger
  Uri <- Paths
  Base <- SameName
  Concurrency = 1
PROPERTIES
  DryRunNeverMutates
CHECK_DEADLOCK FALSE
