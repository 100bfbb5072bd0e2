------------------------ MODULE MCSignatureAllocator ------------------------
\* Elements that fill, halve or share registers: the kinds with one row and,
\* where they may have them, with two; elements that differ in interpolation
\* and width; and, for signatures made elsewhere, places inside, across and
\* past the end of a row and of the last register.
EXTENDS SignatureAllocator

E(kind, rows, cols) == [kind |-> kind, rows |-> rows, cols |-> cols, interp |-> 1, width |-> 32]
At(e, r, c) == [shape |-> e, at |-> [row |-> r, col |-> c]]

MCShapes ==
  { E("arb", 1, 4), E("arb", 1, 2), E("arb", 2, 1), E("sv", 1, 1), E("sgv", 1, 1),
    E("tess", 2, 1), E("clip", 1, 2), E("clip", 2, 1),
    [E("tess", 1, 1) EXCEPT !.interp = 2, !.width = 16] }
MCForeign ==
  { At(e, r, c) :
      e \in { E("arb", 1, 2), E("arb", 2, 1), E("sv", 1, 1), E("sgv", 1, 1), E("tess", 2, 1), E("clip", 2, 1) },
      r \in 0 .. 1, c \in 0 .. 1 }
  \cup { At(E("arb", 1, 2), 0, 3), At(E("arb", 2, 1), 2, 0),
         At([E("arb", 1, 2) EXCEPT !.interp = 2], 0, 2),
         At([E("arb", 1, 2) EXCEPT !.width = 16], 0, 2) }
=============================================================================
