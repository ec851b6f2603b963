CONSTANTS
  Trees <- MCTrees
SPECIFICATION PSSpec
INVARIANT EmptyBodiesBreakAsCommented
