------------------------------ MODULE MCNotify ------------------------------
(* Model-checking instance of Notify.                                      *)
EXTENDS Notify

Zone(v, o, hosts) ==
  [view |-> v, origin |-> o, ns |-> hosts, mname |-> "ns1",
   glue |-> {[host |-> "ns1", ip |-> 1], [host |-> "ns2", ip |-> 2]}]

(* At the start one zone in two views, with its primary, a secondary and a *)
(* name server without glue; after the reload two zones share a secondary. *)
MCLoads == <<{Zone("v1", "o1", {"ns1", "ns2", "ns3"}),
              Zone("v2", "o1", {"ns1", "ns2"})},
             {Zone("v1", "o1", {"ns2"}), Zone("v1", "o2", {"ns2"})}>>

DefaultBackoff == <<1, 2, 4>>
=============================================================================
