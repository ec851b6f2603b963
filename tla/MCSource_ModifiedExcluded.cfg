CONSTANTS
  Root <- MCRoot
  Paths <- MCPaths
  Includes <- MCIncludes
  Excludes <- MCExcludes
  Extensions = {}
  ArgPaths <- MCArgPaths
  GitModified <- MCGitModifiedExcluded
  GitStates = {"work_tree"}
  Stubs <- MCStubs
  FS0 <- MCFS0
  ExtOf <- MCExtOf
  LowerExt <- MCLowerExt
  MaxRemovals = 0
SPECIFICATION SourceSpec
INVARIANTS ExcludedNeverLoaded
