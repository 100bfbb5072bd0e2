SPECIFICATION Spec
CONSTANTS
  NumRegisters = 3
  Shapes <- MCShapes
  Foreign <- MCForeign
  MaxElements = 4
  MaxForeign = 3
  None = None
  AllowApart = FALSE
  AllowWildRead = FALSE
INVARIANTS PackedLegal ValidatorExact ClipTwoRows FailsOnlyWhenFull PredictionHolds
\* A validated signature is the end; none of the bounded lists is extended for ever.
CHECK_DEADLOCK FALSE
