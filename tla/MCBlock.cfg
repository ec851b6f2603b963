CONSTANTS
  PrintWidth = 20
  IndentWidth = 2
  MaxNodes = 3
  ShortWidth = 2
  LongWidth = 8
SPECIFICATION Spec
INVARIANT BlankLinesPreserved
INVARIANT BodyLayout
INVARIANT ContentPreserved
