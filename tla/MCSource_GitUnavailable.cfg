CONSTANTS
  Root <- MCRoot
  Paths <- MCPaths
  Includes <- MCIncludes
  Excludes <- MCExcludes
  Extensions = {}
  ArgPaths <- MCArgPaths
  GitModified <- MCGitModified
  GitStates = {"work_tree", "git_dir", "outside", "missing"}
  Stubs <- MCStubs
  FS0 <- MCFS0
  ExtOf <- MCExtOf
  LowerExt <- MCLowerExt
  MaxRemovals = 0
SPECIFICATION SourceSpec
INVARIANTS GitFailureIsErr
