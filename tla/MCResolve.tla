----------------------------- MODULE MCResolve ------------------------------
(* A model-checking instance of Resolve.  The names a, b, c and d are      *)
(* enough for a chain longer than the depth limit, a loop, a dangling      *)
(* target and a name only a wildcard covers.                               *)
EXTENDS Resolve

MCRootOrigin   == <<"root">>
MCBackupOrigin == <<"bak">>

RR(o, t, d, ttl) == [owner |-> o, type |-> t, data |-> d, ttl |-> ttl]

MCSOA == RR(<<"root">>, "SOA", <<"ns", "root">>, 3)

A == <<"a", "root">>
B == <<"b", "root">>
C == <<"c", "root">>
W == <<"*", "root">>

MCRootFile ==
  {RR(A, "CNAME", B, 3),
   RR(B, "CNAME", C, 2),
   RR(C, "CNAME", <<"x", "root", "net">>, 1),   \* leaves the zone
   RR(C, "CNAME", A, 2),                        \* a loop
   RR(C, "CNAME", <<"root", "x", "root">>, 2),  \* two markers
   RR(C, "A", <<"ip1">>, 2),
   RR(C, "A", <<"ip1">>, 1),                    \* a duplicate
   RR(C, "MX", C, 1),
   RR(C, "MINFO", A, 2),                        \* withheld
   RR(A, "TXT", <<"t">>, 2),
   RR(W, "A", <<"ip2">>, 1),
   RR(W, "CNAME", C, 2),
   RR(W, "MINFO", C, 2),
   RR(<<"z", "net">>, "A", <<"ip1">>, 1)}       \* outside the zone

MCBackupFile ==
  {RR(<<"c", "bak">>, "MX", <<"m", "root">>, 1),
   RR(<<"d", "bak">>, "TXT", <<"u">>, 1),
   RR(<<"d", "bak">>, "A", <<"ip2">>, 1)}

MCQNames ==
  {A, <<"d", "root">>, <<"d", "a", "root">>, <<"a", "bak">>,
   <<"c", "bak">>, <<"d", "bak">>, <<"bak">>, <<"z", "net">>}

MCQTypes == {"A", "TXT", "MX", "CNAME", "MINFO", "SOA"}

MCToken == <<"token">>

MCTxtNames == {A, <<"d", "bak">>}
=============================================================================
