------------------------------ MODULE ZoneData ------------------------------
(***************************************************************************)
(* The parsed zone and the lookups in it (internal/zone).  A domain name   *)
(* is the sequence of its labels, the leftmost first, in the lower-case    *)
(* form the lookups use.  A record is                                      *)
(*   [owner |-> name, type |-> type, data |-> sequence, ttl |-> n]         *)
(* where data is a name if the type carries one, and opaque otherwise.  A  *)
(* zone is its origin and, for each <<owner, type>> it holds, the RRset in *)
(* the order of the file.                                                  *)
(***************************************************************************)
EXTENDS Integers, Sequences, FiniteSetsExt

CONSTANT MaxCNAMEDepth    \* zone.MaxCNAMEDepth, 8 in the code

ASSUME DepthAssumption == MaxCNAMEDepth \in Nat \ {0}

Name == Seq(STRING)

(* dns.RR.                                                                 *)
Record == [owner : Name, type : STRING, data : Name, ttl : Nat]

Overridable == {"TXT", "MX", "SRV"}

(* dnsutil.IsInZone: name is origin or below it.                           *)
IsInZone(name, origin) ==
  /\ Len(name) >= Len(origin)
  /\ SubSeq(name, Len(name) - Len(origin) + 1, Len(name)) = origin

EmptyZone(origin) == [origin |-> origin, rrs |-> [k \in {} |-> <<>>]]

Owners(z) == {k[1] : k \in DOMAIN z.rrs}
----------------------------------------------------------------------------
(* AddRR: a record that repeats a stored one but for its TTL is dropped.   *)
(* Its copy of the last SOA in z.SOA is left out: a zone has one, and      *)
(* Resolve takes it as a constant.                                         *)
AddRR(z, rr) ==
  LET k   == <<rr.owner, rr.type>>
      old == IF k \in DOMAIN z.rrs THEN z.rrs[k] ELSE <<>>
      new == IF \E i \in DOMAIN old : old[i].data = rr.data THEN old
             ELSE Append(old, rr)
  IN [z EXCEPT !.rrs = [x \in DOMAIN @ \cup {k} |->
                          IF x = k THEN new ELSE @[x]]]

(* filterBackupRecords: a backup zone keeps its overridable types, and an  *)
(* owner left without records is deleted.                                  *)
filterBackupRecords(z) ==
  [z EXCEPT !.rrs = [k \in {x \in DOMAIN @ : x[2] \in Overridable} |-> @[k]]]

Lookup(z, owner, qtype) ==
  IF <<owner, qtype>> \in DOMAIN z.rrs THEN z.rrs[<<owner, qtype>>] ELSE <<>>
----------------------------------------------------------------------------
(* The names above qname, up to and including the origin.                  *)
Ancestors(qname, origin) ==
  {SubSeq(qname, i, Len(qname)) : i \in 2..(Len(qname) - Len(origin) + 1)}

Star(name) == <<"*">> \o name

(* The walk of LookupWildcard: the lowest ancestor that has a wildcard     *)
(* child, unless a name with records lies between it and qname.  The set   *)
(* is empty or holds one wildcard owner.                                   *)
Wildcards(z, qname) ==
  {Star(p) : p \in {p \in Ancestors(qname, z.origin) :
     /\ Star(p) \in Owners(z)
     /\ \A b \in Ancestors(qname, z.origin) :
          Len(b) > Len(p) => b \notin Owners(z) /\ Star(b) \notin Owners(z)}}

HasWildcard(z, qname) == Wildcards(z, qname) # {}

LookupAny(z, owners, qtype) ==
  IF owners = {} THEN <<>> ELSE Lookup(z, CHOOSE w \in owners : TRUE, qtype)

(* The records of LookupWildcard, with the owner they are stored under.    *)
LookupWildcard(z, qname, qtype) == LookupAny(z, Wildcards(z, qname), qtype)

(* rewriteWildcardOwner and copyWithOwner.                                 *)
WithOwner(rrs, name) == [i \in DOMAIN rrs |-> [rrs[i] EXCEPT !.owner = name]]
----------------------------------------------------------------------------
FirstNonEmpty(seqs) ==
  IF \E i \in DOMAIN seqs : seqs[i] # <<>>
  THEN seqs[Min({i \in DOMAIN seqs : seqs[i] # <<>>})]
  ELSE <<>>

(* The order in which FollowCNAME and CollapseCNAME look at a target.      *)
Hop(z, target, qtype) ==
  FirstNonEmpty(<<Lookup(z, target, qtype),
                  Lookup(z, target, "CNAME"),
                  LookupWildcard(z, target, qtype),
                  LookupWildcard(z, target, "CNAME")>>)

(* Mutant: a wildcard's records keep their stored owner.                   *)
NextHopStored(z, rr, qtype) ==
  IF rr.type = "CNAME" /\ IsInZone(rr.data, z.origin)
  THEN Hop(z, rr.data, qtype)
  ELSE <<>>

(* What one turn of FollowCNAME's loop adds after the record rr; a turn    *)
(* that breaks adds nothing, and nor does any turn after it.               *)
NextHop(z, rr, qtype) ==
  IF rr.type = "CNAME" /\ IsInZone(rr.data, z.origin)
  THEN WithOwner(Hop(z, rr.data, qtype), rr.data)
  ELSE <<>>

FollowOnce(z, answer, qtype) ==
  answer \o NextHop(z, answer[Len(answer)], qtype)

FollowCNAME(z, initial, qtype) ==
  LET turns == Max({0, MaxCNAMEDepth - Len(initial)})
      answer[i \in 0..turns] ==
        IF i = 0 THEN initial ELSE FollowOnce(z, answer[i - 1], qtype)
  IN answer[turns]
----------------------------------------------------------------------------
MinTTL(ttl, rrs) == Min({ttl} \cup {rrs[i].ttl : i \in DOMAIN rrs})

(* Mutant: the terminal records' TTLs are left out of the minimum.         *)
ConsumeChainTTL(c, next, inZone) ==
  IF c.outcome # "chase" THEN c
  ELSE IF ~inZone THEN [c EXCEPT !.outcome = "tail"]
  ELSE IF next = <<>> THEN [c EXCEPT !.outcome = "nodata"]
  ELSE IF next[1].type # "CNAME"
  THEN [c EXCEPT !.outcome = "records", !.rrs = next]
  ELSE IF c.consumed >= MaxCNAMEDepth THEN [c EXCEPT !.outcome = "tail"]
  ELSE [c EXCEPT !.target = next[Len(next)].data,
                 !.consumed = @ + Len(next), !.ttl = MinTTL(@, next)]

(* One turn of CollapseCNAME's loop, which found "next" at the target.  A  *)
(* CNAME is always a hop: a query for CNAME has no terminal records.       *)
Consume(c, next, inZone) ==
  IF c.outcome # "chase" THEN c
  ELSE IF ~inZone THEN [c EXCEPT !.outcome = "tail"]
  ELSE IF next = <<>> THEN [c EXCEPT !.outcome = "nodata"]
  ELSE IF next[1].type # "CNAME"
  THEN [c EXCEPT !.outcome = "records", !.rrs = next,
                 !.ttl = MinTTL(@, next)]
  ELSE IF c.consumed >= MaxCNAMEDepth THEN [c EXCEPT !.outcome = "tail"]
  ELSE [c EXCEPT !.target = next[Len(next)].data,
                 !.consumed = @ + Len(next), !.ttl = MinTTL(@, next)]

CollapseOnce(z, c, qtype) ==
  Consume(c, Hop(z, c.target, qtype), IsInZone(c.target, z.origin))

(* CollapseCNAME: every turn consumes a CNAME or ends the chase, so        *)
(* MaxCNAMEDepth turns end it.                                             *)
CollapseCNAME(z, initial, qtype) ==
  LET c[i \in 0..MaxCNAMEDepth] ==
        IF i = 0
        THEN [outcome |-> "chase", rrs |-> <<>>,
              target |-> initial[Len(initial)].data,
              ttl |-> MinTTL(initial[Len(initial)].ttl, initial),
              consumed |-> Len(initial)]
        ELSE CollapseOnce(z, c[i - 1], qtype)
  IN c[MaxCNAMEDepth]
=============================================================================
