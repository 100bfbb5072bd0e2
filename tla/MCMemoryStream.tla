--------------------------- MODULE MCMemoryStream ---------------------------
(* MemoryStream with short ULONGs and two byte values, 0 and another.       *)
EXTENDS MemoryStream
=============================================================================
