------------------------------- MODULE Alias --------------------------------
(***************************************************************************)
(* Answers of a backup zone from the records of its root (internal/alias): *)
(* the rewriting of names between the two namespaces, the withholding of   *)
(* records that cannot be rewritten, and the stages of resolution.         *)
(*                                                                         *)
(* A stage yields [rrs, nodata, withheld].  It misses when all three are   *)
(* empty, and then the next stage is tried.                                *)
(***************************************************************************)
EXTENDS ZoneData

(* coveredRRTypes, the cases of rewriteRDATANames.                         *)
Covered == {"CNAME", "NS", "MX", "PTR", "SRV", "SOA", "HTTPS", "SVCB",
            "DNAME", "NAPTR", "RP", "KX", "AFSDB", "PX", "RT"}

(* Types with a name in their data that the rewriting does not handle: the *)
(* struct tags of miekg/dns say so, and classify.go names these.           *)
Uncovered == {"RRSIG", "NSEC", "MINFO", "IPSECKEY", "AMTRELAY"}

Stage(rrs, nodata, withheld) ==
  [rrs |-> rrs, nodata |-> nodata, withheld |-> withheld]

Miss == Stage(<<>>, FALSE, {})

Answered(stage) == stage # Miss
----------------------------------------------------------------------------
(* RewriteQName and RewriteName: the suffix "from" is replaced by "to".    *)
RewriteName(n, from, to) ==
  IF IsInZone(n, from) THEN SubSeq(n, 1, Len(n) - Len(from)) \o to ELSE n

(* Where the labels of origin occur in n, as positions of its first label. *)
Occurrences(n, origin) ==
  {i \in 1..(Len(n) - Len(origin) + 1) :
     SubSeq(n, i, i + Len(origin) - 1) = origin}

(* RewriteNameAnywhere: only the leftmost occurrence is replaced.          *)
RewriteNameAnywhere(n, root, backup) ==
  LET at == Occurrences(n, root) IN
  IF at = {} THEN n
  ELSE LET i == CHOOSE i \in at : \A j \in at : i <= j
       IN SubSeq(n, 1, i - 1) \o backup
            \o SubSeq(n, i + Len(root), Len(n))

(* Mutant: MX is missing from the type switch.                             *)
rewriteRDATANamesNoMX(rr, root, backup, labels) ==
  IF rr.type \in Covered \ {"MX"}
  THEN [rr EXCEPT !.data = IF labels
                           THEN RewriteNameAnywhere(@, root, backup)
                           ELSE RewriteName(@, root, backup)]
  ELSE rr

rewriteRDATANames(rr, root, backup, labels) ==
  IF rr.type \in Covered
  THEN [rr EXCEPT !.data = IF labels
                           THEN RewriteNameAnywhere(@, root, backup)
                           ELSE RewriteName(@, root, backup)]
  ELSE rr

RewriteRR(rr, root, backup, labels) ==
  rewriteRDATANames([rr EXCEPT !.owner = RewriteName(@, root, backup)],
                    root, backup, labels)

RewriteRRs(rrs, root, backup, labels) ==
  [i \in DOMAIN rrs |-> RewriteRR(rrs[i], root, backup, labels)]

(* BackupSOA: MNAME and RNAME are rewritten by suffix whatever the group's *)
(* flag says; the numbers are the root's.                                  *)
BackupSOA(soa, root, backup) ==
  [soa EXCEPT !.owner = backup, !.data = RewriteName(@, root, backup)]

(* FilterBackupRRs.                                                        *)
Kept(rrs) ==
  LET kept[i \in 0..Len(rrs)] ==
        IF i = 0 THEN <<>>
        ELSE IF rrs[i].type \in Uncovered THEN kept[i - 1]
        ELSE Append(kept[i - 1], rrs[i])
  IN kept[Len(rrs)]

Withheld(rrs) ==
  {<<rr.owner, rr.type>> : rr \in {x \in Range(rrs) : x.type \in Uncovered}}
----------------------------------------------------------------------------
(* Mutant: a CNAME at the name is returned without its chain.              *)
ChasedNever(rrs, qtype, z) == rrs

Chased(rrs, qtype, z) ==
  IF qtype # "CNAME" /\ rrs # <<>> /\ rrs[Len(rrs)].type = "CNAME"
  THEN FollowCNAME(z, rrs, qtype) ELSE rrs

Emitted(rrs, z, backup, labels) ==
  Stage(RewriteRRs(Kept(rrs), z.origin, backup, labels), FALSE,
        Withheld(rrs))

(* finalizeBackupRRs: follow, withhold, rewrite.                           *)
finalizeBackupRRs(rrs, qtype, z, backup, labels) ==
  Emitted(Chased(rrs, qtype, z), z, backup, labels)

(* "over" is the backup's own zone, empty when it has no zone file.        *)
ResolveExactNoCNAME(qname, qtype, backup, over, z, labels) ==
  IF qtype \in Overridable /\ Lookup(over, qname, qtype) # <<>>
  THEN Stage(Lookup(over, qname, qtype), FALSE, {})
  ELSE finalizeBackupRRs(
         Lookup(z, RewriteName(qname, backup, z.origin), qtype),
         qtype, z, backup, labels)

ResolveCNAMEFallback(qname, qtype, backup, z, labels) ==
  IF qtype = "CNAME" THEN Miss
  ELSE finalizeBackupRRs(
         Lookup(z, RewriteName(qname, backup, z.origin), "CNAME"),
         qtype, z, backup, labels)

(* synthesizeWildcardRRs: what is withheld is named by its stored owner.   *)
synthesizeWildcardRRs(rrs, qname, qtype, backup, z, labels) ==
  LET owner == RewriteName(qname, backup, z.origin)
      done  == finalizeBackupRRs(WithOwner(Kept(rrs), owner), qtype, z,
                                 backup, labels)
  IN [done EXCEPT !.withheld = @ \cup Withheld(rrs)]

ResolveWildcard(qname, qtype, backup, z, labels) ==
  LET at == RewriteName(qname, backup, z.origin) IN
  synthesizeWildcardRRs(FirstNonEmpty(<<LookupWildcard(z, at, qtype),
                                        LookupWildcard(z, at, "CNAME")>>),
                        qname, qtype, backup, z, labels)
----------------------------------------------------------------------------
(* The three outcomes of a chase: the terminal records or one CNAME under  *)
(* the query name with the chain's smallest TTL, or no data.               *)
CollapsedRRs(c, qname) ==
  CASE c.outcome = "records" ->
         [i \in DOMAIN c.rrs |->
            [c.rrs[i] EXCEPT !.owner = qname, !.ttl = c.ttl]]
    [] c.outcome = "tail" ->
         <<[owner |-> qname, type |-> "CNAME", data |-> c.target,
            ttl |-> c.ttl]>>
    [] c.outcome = "nodata" -> <<>>

(* collapseBackupResult.  The withheld records keep their stored owners.   *)
collapseBackupResult(c, qname, z, backup, labels) ==
  LET rrs == CollapsedRRs([c EXCEPT !.rrs = Kept(@)], qname) IN
  Stage([i \in DOMAIN rrs |->
           rewriteRDATANames(rrs[i], z.origin, backup, labels)],
        rrs = <<>>, Withheld(c.rrs))

(* collapseChainAt, which is ResolveExactCollapse for a CNAME query and    *)
(* ResolveCNAMEFallbackCollapse for any other.                             *)
collapseChainAt(qname, qtype, backup, z, labels) ==
  LET initial == Lookup(z, RewriteName(qname, backup, z.origin), "CNAME") IN
  IF initial = <<>> THEN Miss
  ELSE collapseBackupResult(CollapseCNAME(z, initial, qtype), qname, z,
                            backup, labels)

ResolveWildcardCollapse(qname, qtype, backup, z, labels) ==
  LET at  == RewriteName(qname, backup, z.origin)
      rrs == IF qtype # "CNAME" THEN LookupWildcard(z, at, qtype) ELSE <<>>
      cns == LookupWildcard(z, at, "CNAME")
  IN IF rrs # <<>>
     THEN synthesizeWildcardRRs(rrs, qname, qtype, backup, z, labels)
     ELSE IF cns = <<>> THEN Miss
     ELSE collapseBackupResult(CollapseCNAME(z, cns, qtype), qname, z,
                               backup, labels)
=============================================================================
