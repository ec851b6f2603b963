CONSTANTS
  Root <- MCRoot
  Paths <- MCPaths
  Includes <- MCIncludes
  Excludes <- MCExcludes
  Extensions = {"php"}
  ArgPaths <- MCArgPaths
  GitModified <- MCGitModified
  GitStates = {"work_tree"}
  Stubs <- MCStubs
  FS0 <- MCFS0
  ExtOf <- MCExtOf
  LowerExt <- MCLowerExt
  MaxRemovals = 1
SPECIFICATION SourceSpec
INVARIANTS SurvivorsLoaded
