---------------------------- MODULE MCZoneReload ----------------------------
(* Model-checking instances of ZoneReload.  Two of the bodies have the     *)
(* same size, so that the size check alone does not tell them apart.       *)
EXTENDS ZoneReload

CONSTANTS b1, b2, b3

MCBodies == {b1, b2, b3}

MCSize == [b \in MCBodies |-> IF b = b3 THEN 2 ELSE 1]
=============================================================================
