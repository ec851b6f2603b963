CONSTANTS
  PrintWidth = 20
  IndentWidth = 2
  MaxLinks = 2
SPECIFICATION Spec
INVARIANT ChainReprintsSource
INVARIANT LinksOnOwnLines
