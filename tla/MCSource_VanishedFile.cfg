CONSTANTS
  Root <- MCRoot
  Paths <- MCPathsSrc
  Includes <- MCIncludes
  Excludes <- MCExcludes
  Extensions = {}
  ArgPaths <- MCArgPaths
  GitModified <- MCGitModified
  GitStates = {"work_tree"}
  Stubs <- MCStubs
  FS0 <- MCFS0
  ExtOf <- MCExtOf
  LowerExt <- MCLowerExt
  MaxRemovals = 1
SPECIFICATION SourceSpec
INVARIANTS OnlyAcceptedFilesLoaded
