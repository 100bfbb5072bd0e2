SPECIFICATION Spec
CONSTANTS
  Threads = {t1, t2}
  Loader = t1
  Mallocs = {}
  Defaults = {d1, d2}
  Objects = {o1, o2}
  None = None
  MaxRefs = 2
  MaxScopes = 1
  MaxInits = 2
INVARIANTS DefaultUsable
PROPERTIES Drained
\* A library that has been detached, or could not attach, stays so.
CHECK_DEADLOCK FALSE
