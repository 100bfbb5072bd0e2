SPECIFICATION Spec
CONSTANT Programs <- MCPrograms
INVARIANT PhiControlClosed
\* The analysis ends.
CHECK_DEADLOCK FALSE
