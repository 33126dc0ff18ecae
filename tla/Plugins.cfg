\* Two installs, one after the other, or a start over up to three specs of plugins.
SPECIFICATION PluginsSpec
CONSTANTS
  p1 = p1
  p2 = p2
  Procs <- TwoProcs
  MaxVersion = 2
  Overlap = FALSE
  MaxLosses = 1
  Embedded <- Builtins
  Shipped <- KnownPlugins
  Homes <- SpecFiles
  Sorted <- ModuleNames
  MaxHomes = 3
  Configs <- Settings
INVARIANTS
  InstallIsWhole
  StartServes
PROPERTIES
  InstallIsCurrent
  Ends
CHECK_DEADLOCK FALSE
