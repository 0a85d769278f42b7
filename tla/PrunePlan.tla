----------------------------- MODULE PrunePlan ------------------------------
(***************************************************************************)
(* The planning half of "shadowdns prune-backup" (internal/prunebackup):   *)
(* which lines of a backup zone's files it deletes, next to what the       *)
(* server reads from the same files.                                       *)
(*                                                                         *)
(* A file is a sequence of lines                                           *)
(*   [kind |-> "rr", same |-> BOOLEAN, owner |-> labels, type |-> t,       *)
(*    data |-> d]                                                          *)
(*   [kind |-> "include", file |-> f]       [kind |-> "note"]              *)
(* where owner is relative to the zone's origin, "same" is the master-file *)
(* idiom of a line that starts with a blank and inherits its owner, and a  *)
(* note is a blank or a comment.  An included file includes no other.      *)
(* "fs" maps the files to their contents.  A site <<f, i>> is line i of f. *)
(***************************************************************************)
EXTENDS Alias

CONSTANTS BackupOrigin, RootOrigin, NoFile

ASSUME OriginsAssumption == BackupOrigin \in Name /\ RootOrigin \in Name

Line(files) ==
  [kind : {"rr"}, same : BOOLEAN, owner : Name, type : STRING, data : Name]
    \cup [kind : {"include"}, file : files] \cup [kind : {"note"}]

Includes(fs, f) ==
  {fs[f][i].file : i \in {j \in DOMAIN fs[f] : fs[f][j].kind = "include"}}

(* loadZoneTree: f and what it includes.  A file included twice is read    *)
(* once, so its lines occur once.                                          *)
TreeFiles(fs, f) == {f} \cup Includes(fs, f)

RRLines(lines) == {i \in DOMAIN lines : lines[i].kind = "rr"}

Sites(fs, f) ==
  UNION {{<<g, i>> : i \in RRLines(fs[g])} : g \in TreeFiles(fs, f)}

At(fs, s) == fs[s[1]][s[2]]
----------------------------------------------------------------------------
(* parseRRWithContext hands each record to the parser on its own: a line   *)
(* that inherits its owner has none to inherit, and gets the root name.    *)
LexedOwner(line, origin) ==
  IF line.same THEN <<>> ELSE line.owner \o origin

(* The groups of PlanPair and the index of buildRRSetIndex.                *)
RRSet(fs, f, origin, owner, type) ==
  {s \in Sites(fs, f) : /\ LexedOwner(At(fs, s), origin) = owner
                        /\ At(fs, s).type = type}

WithData(fs, sites, d) == {s \in sites : At(fs, s).data = d}

(* Mutant: only the numbers of records are compared.                       *)
rrsetEqualByLength(fs, a, b) == Cardinality(a) = Cardinality(b)

(* rrsetEqual: the same data the same number of times, in any order.       *)
rrsetEqual(fs, a, b) ==
  \A s \in a \cup b : Cardinality(WithData(fs, a, At(fs, s).data))
                        = Cardinality(WithData(fs, b, At(fs, s).data))

classifyWithoutRoot(owner, type, origin) ==
  IF \/ type = "SOA"
     \/ type = "NS" /\ owner = origin
     \/ type \in Overridable
  THEN "retain" ELSE "delete"

classify(fs, backup, root, owner, type, origin) ==
  IF type \in Overridable /\ rrsetEqual(fs, backup, root)
  THEN "delete" ELSE classifyWithoutRoot(owner, type, origin)

(* One turn of PlanPair's loop, for the RRset (owner, type) of the backup. *)
Decision(fs, pair, owner, type) ==
  IF pair.root = NoFile
  THEN classifyWithoutRoot(owner, type, BackupOrigin)
  ELSE classify(fs, RRSet(fs, pair.backup, BackupOrigin, owner, type),
                RRSet(fs, pair.root, RootOrigin,
                      RewriteName(owner, BackupOrigin, RootOrigin), type),
                owner, type, BackupOrigin)

Deletions(fs, pair) ==
  {s \in Sites(fs, pair.backup) :
     Decision(fs, pair, LexedOwner(At(fs, s), BackupOrigin),
              At(fs, s).type) = "delete"}

(* The elements of s at the places in I.                                   *)
Select(s, I) ==
  LET taken[i \in 0..Len(s)] ==
        IF i = 0 THEN <<>>
        ELSE IF i \in I THEN Append(taken[i - 1], s[i])
        ELSE taken[i - 1]
  IN taken[Len(s)]

(* pruneFile: the deleted lines go, and every blank and comment with them. *)
pruneFile(lines, deleted) ==
  Select(lines, {i \in DOMAIN lines : /\ i \notin deleted
                                      /\ lines[i].kind # "note"})

PrunedFiles(fs, deletions) ==
  [f \in {s[1] : s \in deletions} |->
     pruneFile(fs[f], {s[2] : s \in {x \in deletions : x[1] = f}})]

(* PlanPair: the new contents of the files that lose a record.             *)
PlanPair(fs, pair) == PrunedFiles(fs, Deletions(fs, pair))
----------------------------------------------------------------------------
(* The server's reading of a file (zone.ParseFile): a line without owner   *)
(* has the owner of the last line of its file that names one.              *)
ParsedOwner(lines, i, origin) ==
  LET named == {j \in RRLines(lines) : j <= i /\ ~lines[j].same} IN
  IF named = {} THEN <<>> ELSE lines[Max(named)].owner \o origin

ParsedRRs(fs, f, origin) ==
  {rr \in {[owner |-> ParsedOwner(fs[s[1]], s[2], origin), ttl |-> 0,
            type |-> At(fs, s).type, data |-> At(fs, s).data] :
             s \in Sites(fs, f)} : IsInZone(rr.owner, origin)}

(* The elements of S as a sequence.                                        *)
Listed(S) ==
  CHOOSE s \in [1..Cardinality(S) -> S] : Range(s) = S

(* The zone AddRR builds from them, up to the order within an RRset.       *)
ParseFile(fs, f, origin) ==
  LET rrs == ParsedRRs(fs, f, origin) IN
  [origin |-> origin,
   rrs |-> [k \in {<<rr.owner, rr.type>> : rr \in rrs} |->
              Listed({rr \in rrs : <<rr.owner, rr.type>> = k})]]

(* What the backup's clients get for a type a backup may override.  Of any *)
(* other type they get the root's records, whatever the backup's file says.*)
(* "labels" is rewrite_rdata_labels of the backup's alias group, which     *)
(* prune-backup never looks at.                                            *)
Answer(over, z, qname, qtype, labels) ==
  Range(ResolveExactNoCNAME(qname, qtype, BackupOrigin, over, z, labels).rrs)

(* The answer of a view that loads the files; without the root zone it     *)
(* answers SERVFAIL for the backup.                                        *)
BackupAnswer(fs, pair, qname, qtype, labels) ==
  IF pair.root = NoFile THEN {}
  ELSE Answer(filterBackupRecords(ParseFile(fs, pair.backup, BackupOrigin)),
              ParseFile(fs, pair.root, RootOrigin), qname, qtype, labels)

RootRecords(fs, pair) ==
  IF pair.root = NoFile THEN {} ELSE ParsedRRs(fs, pair.root, RootOrigin)
=============================================================================
