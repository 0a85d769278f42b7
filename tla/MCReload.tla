------------------------------ MODULE MCReload ------------------------------
(* Model-checking instances of Reload.                                     *)
EXTENDS Reload

(* Two configurations that differ in everything: reloading from one to the *)
(* other gains or loses an origin, the GeoIP handles and the query log.    *)
OppositeContents ==
  {c \in FileContent : \/ c.zones = Zones /\ c.geo /\ c.ql # None
                       \/ c.zones = {} /\ ~c.geo /\ c.ql = None}

(* Configurations that differ in the query log only.                       *)
LogContents == {c \in FileContent : c.zones = {} /\ ~c.geo}
=============================================================================
