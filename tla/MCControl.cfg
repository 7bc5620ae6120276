SPECIFICATION Spec
CONSTANTS
    Function = {1}
    Programs <- StructuredPrograms
    MaxCallDepth = 2
    MaxTrue = 2
INVARIANTS
  TypeOK
  ScopesKept
  ContextsBalanced
  TargetsKept
PROPERTIES
  UnwindsToNearest
  CallersFrozen
