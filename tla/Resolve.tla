------------------------------ MODULE Resolve -------------------------------
(***************************************************************************)
(* A root zone, a backup zone aliased to it, and the answers of the query  *)
(* handler (internal/server/handler.go from zone matching on) and of the   *)
(* zone transfer (internal/transfer/axfr.go) for both.  The zone files are *)
(* read record by record; then clients query and secondaries transfer,     *)
(* while API clients put and delete ephemeral TXT records.  A query is one *)
(* step: it reads one immutable snapshot, and looks into the ephemeral     *)
(* store at most once.                                                     *)
(***************************************************************************)
EXTENDS Alias

CONSTANTS
  RootOrigin, BackupOrigin,
  SOA,                 \* the root's SOA record, which BuildState requires
  SoaMinTTL,           \* its MINIMUM field
  RootFile,            \* records a root zone file may hold
  BackupFile,          \* records a backup zone file may hold
  QNames, QTypes,      \* what clients ask for
  Token,               \* the value of an ephemeral TXT record
  TxtNames,            \* names the API is asked to put a record at
  MaxRoot, MaxBackup,  \* bounds: records read from each file
  MaxStore             \* bound: names in the ephemeral store

ASSUME OriginsAssumption ==
  /\ RootOrigin \in Name /\ BackupOrigin \in Name
  /\ ~IsInZone(RootOrigin, BackupOrigin)
  /\ ~IsInZone(BackupOrigin, RootOrigin)

ASSUME SOAAssumption ==
  /\ SOA \in Record /\ SoaMinTTL \in Nat
  /\ SOA.type = "SOA" /\ SOA.owner = RootOrigin

ASSUME InputsAssumption ==
  /\ \A rr \in RootFile \cup BackupFile : rr \in Record
  /\ \A n \in QNames \cup TxtNames : n \in Name
  /\ Token \in Name /\ QTypes \subseteq STRING

VARIABLES
  phase,               \* "load" or "serve"
  read,                \* records read so far, per file
  root, over,          \* the root zone and the backup's override zone
  collapse, labels,    \* collapse_cname_chain, rewrite_rdata_labels
  store,               \* names with a live ephemeral TXT record
  withheldLogged,      \* Server.withheldLogged
  out                  \* the last response, and what it answers

zoneVars == <<read, root, over, collapse, labels>>
vars == <<phase, zoneVars, store, withheldLogged, out>>

Rcodes == {"NOERROR", "NXDOMAIN", "REFUSED"}

NoOut == [kind |-> "none"]

Init ==
  /\ phase = "load"
  /\ read = [root |-> 0, backup |-> 0]
  /\ root = AddRR(EmptyZone(RootOrigin), SOA)
  /\ over = EmptyZone(BackupOrigin)
  /\ collapse \in BOOLEAN
  /\ labels \in BOOLEAN
  /\ store = {}
  /\ withheldLogged = {}
  /\ out = NoOut
----------------------------------------------------------------------------
(* ParseFile: data outside the zone is skipped with a warning.             *)
ParseInto(z, rr) == IF IsInZone(rr.owner, z.origin) THEN AddRR(z, rr) ELSE z

ParseRoot(rr) ==
  /\ phase = "load"
  /\ read.root < MaxRoot
  /\ read' = [read EXCEPT !.root = @ + 1]
  /\ root' = ParseInto(root, rr)
  /\ UNCHANGED <<phase, over, collapse, labels, store, withheldLogged, out>>

ParseBackup(rr) ==
  /\ phase = "load"
  /\ read.backup < MaxBackup
  /\ read' = [read EXCEPT !.backup = @ + 1]
  /\ over' = ParseInto(over, rr)
  /\ UNCHANGED <<phase, root, collapse, labels, store, withheldLogged, out>>

(* Classify: the alias map makes the backup an override zone.              *)
Classify ==
  /\ phase = "load"
  /\ phase' = "serve"
  /\ over' = filterBackupRecords(over)
  /\ read' = [root |-> 0, backup |-> 0]
  /\ UNCHANGED <<root, collapse, labels, store, withheldLogged, out>>
----------------------------------------------------------------------------
(* Stages of handleRootQuery.  "cf" is the collapse flag, "txts" the       *)
(* names in the ephemeral store.                                           *)

(* collapseRootCNAME once the flag is known to be set.                     *)
collapseRootCNAME(qname, qtype, initial) ==
  LET rrs == CollapsedRRs(CollapseCNAME(root, initial, qtype), qname)
  IN Stage(rrs, rrs = <<>>, {})

ApexSOA(qname, qtype, soa) ==
  IF qtype = "SOA" /\ qname = soa.owner THEN Stage(<<soa>>, FALSE, {})
  ELSE Miss

RootExact(qname, qtype, cf) ==
  LET rrs == Lookup(root, qname, qtype) IN
  IF rrs # <<>> /\ qtype = "CNAME" /\ cf
  THEN collapseRootCNAME(qname, qtype, rrs)
  ELSE Stage(rrs, FALSE, {})

lookupEphemeralTXT(qname, qtype, txts) ==
  IF qtype = "TXT" /\ qname \in txts
  THEN Stage(<<[owner |-> qname, type |-> "TXT", data |-> Token,
                ttl |-> 0]>>, FALSE, {})
  ELSE Miss

(* The chain that starts with the given CNAMEs, followed or collapsed.     *)
RootChain(qname, qtype, cnames, cf) ==
  IF qtype = "CNAME" \/ cnames = <<>> THEN Miss
  ELSE IF cf THEN collapseRootCNAME(qname, qtype, cnames)
  ELSE Stage(FollowCNAME(root, WithOwner(cnames, qname), qtype), FALSE, {})

RootCNAMEFallback(qname, qtype, cf) ==
  RootChain(qname, qtype, Lookup(root, qname, "CNAME"), cf)

RootWildcard(qname, qtype, cf) ==
  LET rrs == LookupWildcard(root, qname, qtype) IN
  IF rrs = <<>>
  THEN RootChain(qname, qtype, LookupWildcard(root, qname, "CNAME"), cf)
  ELSE IF qtype = "CNAME" /\ cf THEN collapseRootCNAME(qname, qtype, rrs)
  ELSE Stage(WithOwner(rrs, qname), FALSE, {})

FirstAnswer(stages) ==
  LET hits == {i \in DOMAIN stages : Answered(stages[i])}
  IN IF hits = {} THEN Miss ELSE stages[Min(hits)]

(* Mutant: the CNAME fallback comes before the ephemeral overlay.          *)
RootStageCNAMEFirst(qname, qtype, cf, txts) ==
  FirstAnswer(<<ApexSOA(qname, qtype, SOA),
                RootExact(qname, qtype, cf),
                RootCNAMEFallback(qname, qtype, cf),
                lookupEphemeralTXT(qname, qtype, txts),
                RootWildcard(qname, qtype, cf)>>)

(* handleRootQuery up to its negative reply.                               *)
RootStage(qname, qtype, cf, txts) ==
  FirstAnswer(<<ApexSOA(qname, qtype, SOA),
                RootExact(qname, qtype, cf),
                lookupEphemeralTXT(qname, qtype, txts),
                RootCNAMEFallback(qname, qtype, cf),
                RootWildcard(qname, qtype, cf)>>)
----------------------------------------------------------------------------
BackupExact(qname, qtype, cf) ==
  IF qtype = "CNAME" /\ cf
  THEN collapseChainAt(qname, qtype, BackupOrigin, root, labels)
  ELSE ResolveExactNoCNAME(qname, qtype, BackupOrigin, over, root, labels)

BackupCNAMEFallback(qname, qtype, cf) ==
  IF ~cf THEN ResolveCNAMEFallback(qname, qtype, BackupOrigin, root, labels)
  ELSE IF qtype = "CNAME" THEN Miss
  ELSE collapseChainAt(qname, qtype, BackupOrigin, root, labels)

BackupWildcard(qname, qtype, cf) ==
  IF cf
  THEN ResolveWildcardCollapse(qname, qtype, BackupOrigin, root, labels)
  ELSE ResolveWildcard(qname, qtype, BackupOrigin, root, labels)

backupSOA == BackupSOA(SOA, RootOrigin, BackupOrigin)

(* handleBackupQuery up to its negative reply, in a view that has the root *)
(* zone: the SERVFAIL of a view without it comes before any of this.       *)
BackupStage(qname, qtype, cf, txts) ==
  FirstAnswer(<<ApexSOA(qname, qtype, backupSOA),
                BackupExact(qname, qtype, cf),
                lookupEphemeralTXT(qname, qtype, txts),
                BackupCNAMEFallback(qname, qtype, cf),
                BackupWildcard(qname, qtype, cf)>>)

(* Mutant: a name only the override zone has is forgotten.                 *)
backupZoneHasNameRootOnly(qname) ==
  LET at == RewriteName(qname, BackupOrigin, RootOrigin) IN
  at \in Owners(root) \/ HasWildcard(root, at)

backupZoneHasName(qname) ==
  LET at == RewriteName(qname, BackupOrigin, RootOrigin) IN
  qname \in Owners(over) \/ at \in Owners(root) \/ HasWildcard(root, at)

HasName(qname) ==
  IF IsInZone(qname, BackupOrigin) THEN backupZoneHasName(qname)
  ELSE qname \in Owners(root) \/ HasWildcard(root, qname)
----------------------------------------------------------------------------
Reply(rcode, answer, ns) == [rcode |-> rcode, answer |-> answer, ns |-> ns]

cappedSOA(soa) == [soa EXCEPT !.ttl = Min({@, SoaMinTTL})]

(* Detect picks the zone by longest suffix; the two origins are not        *)
(* nested, so at most one matches.                                         *)
ZoneOf(qname) ==
  {o \in {RootOrigin, BackupOrigin} : IsInZone(qname, o)}

StageOf(qname, qtype, cf, txts) ==
  CASE ZoneOf(qname) = {BackupOrigin} -> BackupStage(qname, qtype, cf, txts)
    [] ZoneOf(qname) = {RootOrigin} -> RootStage(qname, qtype, cf, txts)
    [] OTHER -> Miss

(* replyWithAnswer, negativeReply, or REFUSED outside all zones.           *)
ReplyOf(stage, qname) ==
  IF ZoneOf(qname) = {} THEN Reply("REFUSED", <<>>, <<>>)
  ELSE IF stage.rrs # <<>> THEN Reply("NOERROR", stage.rrs, <<>>)
  ELSE Reply(IF HasName(qname) THEN "NOERROR" ELSE "NXDOMAIN", <<>>,
             <<cappedSOA(IF ZoneOf(qname) = {BackupOrigin} THEN backupSOA
                         ELSE SOA)>>)

Respond(qname, qtype, cf, txts) ==
  ReplyOf(StageOf(qname, qtype, cf, txts), qname)

(* A query that has passed the checks in front of zone matching.           *)
Query(qname, qtype) ==
  /\ phase = "serve"
  /\ out = NoOut
  /\ \E stage \in {StageOf(qname, qtype, collapse, store)} :
       /\ out' = [kind |-> "reply", qname |-> qname, qtype |-> qtype,
                  reply |-> ReplyOf(stage, qname)]
       /\ withheldLogged' = withheldLogged \cup stage.withheld
  /\ UNCHANGED <<phase, zoneVars, store>>

(* The response is on its way and the handler returns.                     *)
Sent ==
  /\ out # NoOut
  /\ out' = NoOut
  /\ UNCHANGED <<phase, zoneVars, store, withheldLogged>>
----------------------------------------------------------------------------
(* PUT and DELETE of an ephemeral record in a served zone.                 *)
PutTXT(qname) ==
  /\ phase = "serve"
  /\ out = NoOut
  /\ IsInZone(qname, RootOrigin) \/ IsInZone(qname, BackupOrigin)
  /\ Cardinality(store) < MaxStore
  /\ store' = store \cup {qname}
  /\ UNCHANGED <<phase, zoneVars, withheldLogged, out>>

DeleteTXT(qname) ==
  /\ phase = "serve"
  /\ out = NoOut
  /\ store' = store \ {qname}
  /\ UNCHANGED <<phase, zoneVars, withheldLogged, out>>
----------------------------------------------------------------------------
(* collectNonSOA.                                                          *)
collectNonSOA(z) ==
  UNION {Range(z.rrs[k]) : k \in {x \in DOMAIN z.rrs : x[2] # "SOA"}}

(* Mutant: the override is looked up under the root's owner name.          *)
AliasRRsetRootOwner(k) ==
  IF k[2] \in Overridable /\ Lookup(over, k[1], k[2]) # <<>>
  THEN Lookup(over, k[1], k[2])
  ELSE RewriteRRs(Kept(root.rrs[k]), RootOrigin, BackupOrigin, labels)

(* What buildAliasRecords emits for one owner and type of the root.        *)
AliasRRset(k) ==
  LET owner == RewriteName(k[1], RootOrigin, BackupOrigin) IN
  IF k[2] \in Overridable /\ Lookup(over, owner, k[2]) # <<>>
  THEN Lookup(over, owner, k[2])
  ELSE RewriteRRs(Kept(root.rrs[k]), RootOrigin, BackupOrigin, labels)

buildAliasRecords ==
  UNION {Range(AliasRRset(k)) : k \in {x \in DOMAIN root.rrs : x[2] # "SOA"}}

(* handleTransfer, HandleAXFR and HandleAliasAXFR.  "allowed" is the       *)
(* verdict of the allow-transfer list and the views.  Any name in a zone   *)
(* asks for that zone.  The order between the two SOAs is left open.       *)
Transfer(qname, allowed, udp) ==
  /\ phase = "serve"
  /\ out = NoOut
  /\ IF allowed /\ ~udp /\ ZoneOf(qname) # {}
     THEN \E origin \in ZoneOf(qname) :
            out' = [kind |-> "xfer", origin |-> origin,
                    soa |-> IF origin = BackupOrigin THEN backupSOA ELSE SOA,
                    records |-> IF origin = BackupOrigin
                                THEN buildAliasRecords
                                ELSE collectNonSOA(root)]
     ELSE out' = [kind |-> "refused"]
  /\ UNCHANGED <<phase, zoneVars, store, withheldLogged>>
----------------------------------------------------------------------------
Next ==
  \/ \E rr \in RootFile : ParseRoot(rr)
  \/ \E rr \in BackupFile : ParseBackup(rr)
  \/ Classify
  \/ \E n \in QNames, t \in QTypes : Query(n, t)
  \/ Sent
  \/ \E n \in TxtNames : PutTXT(n) \/ DeleteTXT(n)
  \/ \E n \in QNames, allowed, udp \in BOOLEAN : Transfer(n, allowed, udp)

Spec == Init /\ [][Next]_vars
----------------------------------------------------------------------------
(* Every RRset is filed under its owner and type, lies in its zone, and    *)
(* holds no record twice (AddRR's invariant, which disregards the TTL);    *)
(* the override zone serves only overridable types.                        *)
ZoneOK(z) ==
  \A k \in DOMAIN z.rrs :
    /\ z.rrs[k] # <<>> /\ IsInZone(k[1], z.origin)
    /\ \A i, j \in DOMAIN z.rrs[k] :
         /\ z.rrs[k][i].owner = k[1] /\ z.rrs[k][i].type = k[2]
         /\ i # j => z.rrs[k][i].data # z.rrs[k][j].data

TypeOK ==
  /\ phase \in {"load", "serve"}
  /\ read \in [{"root", "backup"} -> 0..(MaxRoot + MaxBackup)]
  /\ ZoneOK(root) /\ ZoneOK(over)
  /\ <<RootOrigin, "SOA">> \in DOMAIN root.rrs
  /\ phase = "serve" => \A k \in DOMAIN over.rrs : k[2] \in Overridable
  /\ {collapse, labels} \subseteq BOOLEAN
  /\ store \subseteq TxtNames
  /\ out.kind \in {"none", "reply", "refused", "xfer"}
  /\ out.kind = "reply" => out.reply.rcode \in Rcodes

Replied == out.kind = "reply"

ForBackup == Replied /\ IsInZone(out.qname, BackupOrigin)

AtRoot(name) == RewriteName(name, BackupOrigin, RootOrigin)

Overridden(name, qtype) ==
  qtype \in Overridable /\ Lookup(over, name, qtype) # <<>>

(* The SOA at the apex is rewritten by suffix whatever the group's flag.   *)
MirrorRRs(rrs) ==
  IF rrs = <<SOA>> THEN <<backupSOA>>
  ELSE RewriteRRs(Kept(rrs), RootOrigin, BackupOrigin, labels)

MirrorOf(ref, qname) ==
  [rcode  |-> IF qname \in Owners(over) THEN "NOERROR" ELSE ref.rcode,
   answer |-> MirrorRRs(ref.answer),
   ns     |-> IF Kept(ref.answer) # <<>> THEN <<>>
              ELSE <<cappedSOA(backupSOA)>>]

(* A backup answers as a rewritten copy of its root would: unless its own  *)
(* file or an API client says otherwise for this name and type, the answer *)
(* of handleBackupQuery, through the five Resolve functions, is the one    *)
(* handleRootQuery gives at the corresponding name, less the withheld      *)
(* records, with every name rewritten.  Only a name that the override zone *)
(* alone has turns NXDOMAIN into NODATA.                                   *)
BackupMirrorsRoot ==
  (/\ ForBackup
   /\ ~Overridden(out.qname, out.qtype)
   /\ out.qtype = "TXT" => out.qname \notin store) =>
    out.reply = MirrorOf(Respond(AtRoot(out.qname), out.qtype, collapse, {}),
                         out.qname)
----------------------------------------------------------------------------
(* The convention RewriteNameAnywhere relies on: under label-anywhere      *)
(* rewriting, no stored name embeds the root origin twice, and what        *)
(* replaces it forms no new one with the labels after it: the last label   *)
(* of the backup origin occurs in the root origin at its end only.         *)
SingleMarker ==
  labels => /\ \A i \in 1..(Len(RootOrigin) - 1) :
                 RootOrigin[i] # BackupOrigin[Len(BackupOrigin)]
            /\ \A k \in DOMAIN root.rrs : \A i \in DOMAIN root.rrs[k] :
                 \A a, b \in Occurrences(root.rrs[k][i].data, RootOrigin) :
                   a = b

LeaksRoot(rr) ==
  \/ IsInZone(rr.owner, RootOrigin)
  \/ rr.type \in Covered \cup Uncovered /\ IsInZone(rr.data, RootOrigin)

FromOverride(rr) ==
  rr \in Range(Lookup(over, rr.owner, rr.type))

(* No response for the backup, transfer included, names the root domain:   *)
(* what cannot be rewritten is withheld ("a half-rewritten record never    *)
(* leaks the root origin", classify.go).  Records of the backup's own file *)
(* are the operator's.                                                     *)
NoRootLeak ==
  SingleMarker =>
    /\ ForBackup => \A rr \in Range(out.reply.answer \o out.reply.ns) :
                      LeaksRoot(rr) => FromOverride(rr)
    /\ out.kind = "xfer" /\ out.origin = BackupOrigin =>
         \A rr \in out.records \cup {out.soa} :
           LeaksRoot(rr) => FromOverride(rr)

(* A resolver can walk the answer section: every record is at the query    *)
(* name or at the target of a CNAME before it, in the namespace the client *)
(* asked in, whichever mix of exact, wildcard and rewritten records        *)
(* FollowCNAME put together.                                               *)
ChainConnected ==
  Replied /\ SingleMarker =>
    LET a == out.reply.answer IN
    \A i \in DOMAIN a :
      \/ a[i].owner = out.qname
      \/ \E j \in 1..(i - 1) : a[j].type = "CNAME" /\ a[j].data = a[i].owner

(* The collapsed form of a full chain that ends with the record end.       *)
CollapsedTo(ans, full, end, qname) ==
  LET ttl == MinTTL(end.ttl, full) IN
  /\ \A i \in DOMAIN ans : ans[i].owner = qname
  /\ end.type # "CNAME" =>
       /\ {rr.data : rr \in Range(ans)}
            = {rr.data : rr \in {x \in Range(full) : x.type = end.type}}
       /\ \A i \in DOMAIN ans : ans[i].type = end.type /\ ans[i].ttl = ttl
  /\ end.type = "CNAME" /\ ~IsInZone(end.data, RootOrigin) =>
       ans = <<[end EXCEPT !.owner = qname, !.ttl = ttl]>>

HidesHopsOnly(reply, full, qname) ==
  full # <<>> /\ full[1].type = "CNAME" =>
    reply.rcode = "NOERROR"
      /\ CollapsedTo(reply.answer, full, full[Len(full)], qname)

(* A name has one CNAME (RFC 2181, 10.1), which AddRR does not enforce.    *)
OneCNAME ==
  \A k \in DOMAIN root.rrs : k[2] = "CNAME" => Len(root.rrs[k]) = 1

(* Collapsing a chain hides its hops and nothing else: the answer has the  *)
(* records, or the target outside the zone, at which the full chain of     *)
(* FollowCNAME ends, under the query name and with the smallest TTL of the *)
(* chain; a chain that ends at nothing is NODATA, never NXDOMAIN.  With    *)
(* several CNAMEs at a name the two may part: CollapseCNAME's limit counts *)
(* records, FollowCNAME's counts turns.                                    *)
CollapseAgrees ==
  (Replied /\ collapse /\ out.qtype # "CNAME" /\ OneCNAME
     /\ IsInZone(out.qname, RootOrigin)) =>
    HidesHopsOnly(out.reply,
                  Respond(out.qname, out.qtype, FALSE, store).answer,
                  out.qname)
----------------------------------------------------------------------------
Denies(reply) == reply.answer = <<>> /\ reply.rcode = "NXDOMAIN"

(* NXDOMAIN denies the name, not the type: no other query for it gets      *)
(* records or NODATA, so that a resolver may cache the denial for all      *)
(* types.  negativeReply decides the code in another place than the        *)
(* stages that look for records, and must agree with all of them.  (It     *)
(* does not look into the ephemeral store.)                                *)
NxdomainIsTotal ==
  Replied /\ out.reply.rcode = "NXDOMAIN" /\ out.qname \notin store =>
    \A t \in QTypes : Denies(Respond(out.qname, t, collapse, store))

(* A record put through the API is seen: whatever CNAME, wildcard or       *)
(* collapsed chain covers its name, a TXT query there gets TXT records,    *)
(* and they are the API's unless a zone file has TXT at the very name.     *)
EphemeralVisible ==
  Replied /\ out.qtype = "TXT" /\ out.qname \in store =>
    LET a == out.reply.answer IN
    /\ a # <<>>
    /\ \A i \in DOMAIN a :
         /\ a[i].type = "TXT" /\ a[i].owner = out.qname
         /\ a[i].data = Token \/ Lookup(root, AtRoot(out.qname), "TXT") # <<>>
                              \/ Overridden(out.qname, "TXT")
----------------------------------------------------------------------------
(* A transfer agrees with the answers to queries: for each owner and type  *)
(* of the root, as it is called in the transferred zone, the stream has    *)
(* exactly the records a query gets with collapsing off.                   *)
AxfrAgrees ==
  out.kind = "xfer" =>
    \A k \in {x \in DOMAIN root.rrs : x[2] # "SOA"} :
      LET n == RewriteName(k[1], RootOrigin, out.origin) IN
      {rr \in out.records : rr.owner = n /\ rr.type = k[2]}
        = Range(Respond(n, k[2], FALSE, {}).answer)
=============================================================================
