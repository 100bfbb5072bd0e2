------------------------ MODULE MCResourceRegisters ------------------------
(* ResourceRegisters with two or three resources on registers 0 to UintMax,  *)
(* as each .cfg file says; 3 or 4 stands for UINT_MAX.                       *)
EXTENDS ResourceRegisters
=============================================================================
