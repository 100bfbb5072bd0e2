------------------------------ MODULE PartTable ------------------------------
(***************************************************************************)
(* What a container builder promises: a table with at most one blob per    *)
(* part identifier, to which a call adds or from which it removes one      *)
(* part, and a build that delivers exactly the table as it then stands.    *)
(***************************************************************************)
CONSTANTS FourCCs, Blobs, None

VARIABLES table,     \* [FourCCs -> Blobs \cup {None}]
          delivered  \* the table of the container just built, or None

Empty == [f \in FourCCs |-> None]

Init == table = Empty /\ delivered = None

Put == \E f \in FourCCs :
         /\ table[f] = None /\ table'[f] \in Blobs
         /\ table' = [table EXCEPT ![f] = table'[f]]
         /\ delivered' = None

Drop == \E f \in FourCCs :
          /\ table[f] # None
          /\ table' = [table EXCEPT ![f] = None]
          /\ delivered' = None

Refuse == delivered' = None /\ UNCHANGED table

Build == delivered' = table /\ UNCHANGED table

Renew == table' = Empty /\ delivered' = None

Next == Refuse \/ Build \/ Renew \/ Put \/ Drop

Spec == Init /\ [][Next]_<<table, delivered>>
=============================================================================
