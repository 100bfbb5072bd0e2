CONSTANTS
  Min = 1
  Max = 4
  IndexMax = 4
  Elems = {e1, e2}
  NoElem = NoElem
  Sizes = {1, 3}
  Aligns = {1, 3}
SPECIFICATION Spec
INVARIANT SpansDisjoint
INVARIANT FirstFreeSound
INVARIANT FullSound
PROPERTY NeverFreed
PROPERTY Implements
PROPERTY CallsReturn
