SPECIFICATION Spec
CONSTANTS
  Threads = {t1, t2}
  Loader = t1
  Mallocs = {c}
  Defaults = {d}
  Objects = {o1, o2}
  None = None
  MaxRefs = 2
  MaxScopes = 2
  MaxInits = 1
INVARIANTS RefsExact InUseAlive FreedWhereAllocated ScopesNest
\* A library that has been detached, or could not attach, stays so.
CHECK_DEADLOCK FALSE
