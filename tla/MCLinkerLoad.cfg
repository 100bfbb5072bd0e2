SPECIFICATION Spec
CONSTANTS
  Names = {a, b, c}
  Libs <- SomeLibs
  Funcs = {m, f, g, h, k}
  Globals = {r, s}
  Requests <- SomeRequests
  None = None
  a = a
  b = b
  c = c
  m = m
  f = f
  g = g
  h = h
  k = k
  r = r
  s = s
  one = one
  two = two
INVARIANTS AllLoaded
\* After undefined behaviour nothing is said to follow.
CHECK_DEADLOCK FALSE
