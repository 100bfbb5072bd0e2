CONSTANTS
  UintMax = 3
  N = 3
  RangeSizes = {1, 2, 3}
  DeclSpaces = {0}
  AutoSpaces = {1, 3}
  AllowWrap = FALSE
  AllowSentinel = FALSE
SPECIFICATION Spec
INVARIANT AllocatorsAgree
INVARIANT BindingsDisjoint
INVARIANT LegacyRespected
INVARIANT ErrorsJustified
INVARIANT ValidatorExact
PROPERTY BindingsKept
