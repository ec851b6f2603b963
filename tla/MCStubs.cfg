CONSTANTS
  Trees <- MCTrees
  Target <- MCTarget
  ExtOf <- MCExtOf
  Simplify <- MCSimplify
  MaxLinks = 4
SPECIFICATION StubsSpec
INVARIANTS TypeOK StubsListedOnce
