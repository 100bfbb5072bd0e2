--------------------------- MODULE MCSpanAllocator ---------------------------
(* SpanAllocator over four of five indices, two elements, with the range     *)
(* ending at the largest index so that every overflow test is exercised.     *)
EXTENDS SpanAllocator
=============================================================================
