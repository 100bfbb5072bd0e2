SPECIFICATION Spec
CONSTANTS
  NumRegisters = 3
  Shapes <- MCShapes
  Foreign <- MCForeign
  MaxElements = 3
  MaxForeign = 3
  None = None
  AllowApart = TRUE
  AllowWildRead = FALSE
INVARIANT PackedLegal
\* A validated signature is the end; none of the bounded lists is extended for ever.
CHECK_DEADLOCK FALSE
