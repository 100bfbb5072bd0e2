--------------------------- MODULE MCThreadMalloc ---------------------------
(* ThreadMalloc on the small instances that the .cfg files describe.       *)
EXTENDS ThreadMalloc
=============================================================================
