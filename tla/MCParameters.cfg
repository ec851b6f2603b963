CONSTANTS
  PrintWidth = 20
  IndentWidth = 2
  MaxParams = 3
  ShortWidth = 2
  LongWidth = 8
SPECIFICATION Spec
INVARIANT TypeOK
INVARIANT TrailingCommaDiscipline
INVARIANT PromotedListBreaks
INVARIANT WidthRespected
INVARIANT ParametersPreserved
