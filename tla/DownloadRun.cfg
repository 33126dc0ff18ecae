\* A registry that changes twice during the search, an interrupt, failures, a kill, a match without a URL, one outside dest.
SPECIFICATION Spec
CONSTANTS
  top = top
  dirA = dirA
  dirB = dirB
  bare = bare
  out = out
  Items <- MCItems
  Catalog <- MCCatalog
  Base <- MCBase
  NoUrl = {bare}
  Unsafe = {out}
  Old = {top}
  PageSize = 2
  Concurrency = 2
  MaxDrift = 2
INVARIANTS
  FilesWhole
  Accounted
PROPERTIES
  Terminates
CHECK_DEADLOCK FALSE
