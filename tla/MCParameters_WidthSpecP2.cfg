CONSTANTS
  PrintWidth = 20
  IndentWidth = 2
  MaxParams = 2
  ShortWidth = 2
  LongWidth = 8
SPECIFICATION Spec
INVARIANT WidthSpecP2
