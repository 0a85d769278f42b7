---------------------------- MODULE PruneBackup -----------------------------
(***************************************************************************)
(* "shadowdns prune-backup --apply": every (view, backup) pair is planned  *)
(* and its files are replaced one by one, each after a copy was left in    *)
(* <path>.bak (cmd/shadowdns/prune_backup.go, internal/prunebackup).  Any  *)
(* step may fail, which ends the command without a rollback, and the       *)
(* machine may stop at any point; the command may then be run again.       *)
(*                                                                         *)
(* "file" and "bak" are the directory as the processes see it, "log" the   *)
(* directories a power loss may leave: every one since the last fsync of   *)
(* the directory, in the order in which they were made (a journal).  The   *)
(* contents of the new file are on disk before it is renamed.              *)
(***************************************************************************)
EXTENDS PrunePlan

CONSTANTS
  Files,        \* the zone files, as a sequence: the order of slices.Sort
  Contents,     \* what they may hold at first: functions from Paths
  Topologies,   \* the pairs of named.conf, in the order they are processed
  QNames,       \* the names whose answers are compared
  MaxRuns,      \* how often the command is run
  None,         \* no such file
  Torn,         \* part of a copy
  Old           \* a .bak of an earlier time

VARIABLES
  file,    \* the contents of the zone files
  bak,     \* and of their .bak files
  log,     \* what a power loss may leave of the two
  pairs,   \* the pairs of this configuration
  orig,    \* the files before the first run
  pc,      \* where the command is
  apply,   \* --apply
  todo,    \* the pairs left to plan
  plan,    \* the planned contents, by file
  queue,   \* the planned files left to replace
  runs

vars == <<file, bak, log, pairs, orig, pc, apply, todo, plan, queue, runs>>

Paths == Range(Files)

ASSUME FilesAssumption ==
  /\ Files \in Seq(STRING)
  /\ \A i, j \in DOMAIN Files : Files[i] = Files[j] => i = j
  /\ \A c \in Contents : c \in [Paths -> Seq(Line(Paths))]
  /\ \A t \in Topologies :
       t \in Seq([backup : Paths, root : Paths \cup {NoFile}])

Init ==
  /\ file \in Contents
  /\ orig = file
  /\ bak \in {[p \in Paths |-> b] : b \in {None, Old}}
  /\ log = {[file |-> file, bak |-> bak]}
  /\ pairs \in Topologies
  /\ pc = "idle" /\ apply = FALSE /\ runs = 0
  /\ todo = <<>> /\ queue = <<>> /\ plan = [p \in {} |-> <<>>]

(* The file that applyFile works on.                                       *)
path == Head(queue)

(* The directory changed: a power loss leaves it as it was or as it is.    *)
Logged == log' = log \cup {[file |-> file', bak |-> bak']}

Dirs == <<file, bak, log>>
Given == <<pairs, orig>>

(* The command ended: its variables are gone.                              *)
Returned ==
  /\ pc' = "idle" /\ apply' = FALSE
  /\ todo' = <<>> /\ queue' = <<>> /\ plan' = [p \in {} |-> <<>>]
----------------------------------------------------------------------------
(* runPruneBackup.                                                         *)
Start ==
  /\ pc = "idle" /\ runs < MaxRuns
  /\ pc' = "plan" /\ runs' = runs + 1
  /\ apply' \in BOOLEAN
  /\ todo' = pairs
  /\ UNCHANGED <<Dirs, Given, plan, queue>>

Replaces(changes) ==
  /\ plan' = changes
  /\ queue' = Select(Files, {i \in DOMAIN Files :
                              Files[i] \in DOMAIN changes})
  /\ pc' = "apply"

(* A pair with nothing to delete, or a dry run, leads to the next pair.    *)
PlanNext ==
  /\ pc = "plan" /\ todo # <<>>
  /\ todo' = Tail(todo)
  /\ \E changes \in {PlanPair(file, Head(todo))} :
       IF apply /\ DOMAIN changes # {} THEN Replaces(changes)
       ELSE UNCHANGED <<plan, queue, pc>>
  /\ UNCHANGED <<Dirs, Given, apply, runs>>

Finish ==
  /\ pc = "plan" /\ todo = <<>>
  /\ Returned
  /\ UNCHANGED <<Dirs, Given, runs>>

(* ApplyAll reached the end of its files.                                  *)
ApplyAllDone ==
  /\ pc = "apply" /\ queue = <<>>
  /\ pc' = "plan"
  /\ UNCHANGED <<Dirs, Given, apply, todo, plan, queue, runs>>

(* applyFile, steps 0 and 1: the new contents are in a synced temp file.   *)
WriteTemp ==
  /\ pc = "apply" /\ queue # <<>>
  /\ pc' = "backup"
  /\ UNCHANGED <<Dirs, Given, apply, todo, plan, queue, runs>>

(* Mutant: an existing .bak is left alone.                                 *)
RemoveOldBakKeep ==
  /\ pc = "backup"
  /\ pc' = IF bak[path] = None THEN "link" ELSE "rename"
  /\ UNCHANGED <<Dirs, Given, apply, todo, plan, queue, runs>>

(* backupOriginal: an existing .bak is removed, then the original is       *)
(* linked to its name or, where that fails, copied.                        *)
RemoveOldBak ==
  /\ pc = "backup"
  /\ pc' = "link"
  /\ bak' = [bak EXCEPT ![path] = None]
  /\ UNCHANGED <<file, Given, apply, todo, plan, queue, runs>>
  /\ Logged

(* Mutant: the original is renamed to .bak.                                *)
LinkBakRename ==
  /\ pc = "link"
  /\ pc' = "rename"
  /\ bak' = [bak EXCEPT ![path] = file[path]]
  /\ file' = [file EXCEPT ![path] = <<>>]
  /\ UNCHANGED <<Given, apply, todo, plan, queue, runs>>
  /\ Logged

LinkBak ==
  /\ pc = "link"
  /\ pc' = "rename"
  /\ bak' = [bak EXCEPT ![path] = file[path]]
  /\ UNCHANGED <<file, Given, apply, todo, plan, queue, runs>>
  /\ Logged

CopyBegins ==
  /\ pc = "link"
  /\ pc' = "copy"
  /\ bak' = [bak EXCEPT ![path] = Torn]
  /\ UNCHANGED <<file, Given, apply, todo, plan, queue, runs>>
  /\ Logged

CopyEnds ==
  /\ pc = "copy"
  /\ pc' = "rename"
  /\ bak' = [bak EXCEPT ![path] = file[path]]
  /\ UNCHANGED <<file, Given, apply, todo, plan, queue, runs>>
  /\ Logged

(* copyFile removes what it wrote.                                         *)
CopyFails ==
  /\ pc = "copy"
  /\ Returned
  /\ bak' = [bak EXCEPT ![path] = None]
  /\ UNCHANGED <<file, Given, runs>>
  /\ Logged

Rename ==
  /\ pc = "rename"
  /\ pc' = "sync"
  /\ file' = [file EXCEPT ![path] = plan[path]]
  /\ UNCHANGED <<bak, Given, apply, todo, plan, queue, runs>>
  /\ Logged

SyncDir ==
  /\ pc = "sync"
  /\ pc' = "apply"
  /\ queue' = Tail(queue)
  /\ log' = {[file |-> file, bak |-> bak]}
  /\ UNCHANGED <<file, bak, Given, apply, todo, plan, runs>>

(* Every other error return: of PlanPair, and of each step of applyFile.   *)
(* None of them undoes what was done.                                      *)
ReturnError ==
  /\ pc \in {"plan", "apply", "backup", "link", "rename", "sync"}
  /\ Returned
  /\ UNCHANGED <<Dirs, Given, runs>>

(* The process is killed, which leaves the newest state, or the machine    *)
(* loses power, which may leave an older one.                              *)
Crash ==
  /\ Returned
  /\ \E d \in log : file' = d.file /\ bak' = d.bak /\ log' = {d}
  /\ UNCHANGED <<Given, runs>>

Next ==
  \/ Start \/ PlanNext \/ Finish \/ ApplyAllDone \/ WriteTemp
  \/ RemoveOldBak \/ LinkBak \/ CopyBegins \/ CopyEnds \/ CopyFails
  \/ Rename \/ SyncDir \/ ReturnError \/ Crash

Spec == Init /\ [][Next]_vars
----------------------------------------------------------------------------
BackupTrees(fs) == {TreeFiles(fs, pairs[i].backup) : i \in DOMAIN pairs}

RootTree(fs) ==
  UNION {TreeFiles(fs, pairs[i].root) :
           i \in {j \in DOMAIN pairs : pairs[j].root # NoFile}}

(* No file is read for two pairs, or for a backup and for a root.          *)
Disjoint ==
  /\ \A i, j \in DOMAIN pairs :
       i # j => TreeFiles(orig, pairs[i].backup)
                  \cap TreeFiles(orig, pairs[j].backup) = {}
  /\ (UNION BackupTrees(orig)) \cap RootTree(orig) = {}

(* The records of an RRset lie in one file.                                *)
Unsplit ==
  \A i \in DOMAIN pairs : \A s, t \in Sites(orig, pairs[i].backup) :
    /\ LexedOwner(At(orig, s), <<>>) = LexedOwner(At(orig, t), <<>>)
    /\ At(orig, s).type = At(orig, t).type
    => s[1] = t[1]

Planned(p) ==
  {changes[p] : changes \in {c \in {PlanPair(orig, pairs[i]) :
                                      i \in DOMAIN pairs} : p \in DOMAIN c}}

(* Whatever fails, crashes and is run again, a zone file holds its old     *)
(* contents or the complete contents first planned for it: never a part,   *)
(* and never what a later run made of a half-replaced zone.  It takes      *)
(* Disjoint (a file read for two pairs is planned twice) and Unsplit.      *)
(* (applyFile: "a crash at any instant leaves path holding either the      *)
(* original or the complete new content".)                                 *)
EveryFileWhole ==
  Disjoint /\ Unsplit =>
    \A p \in Paths : file[p] \in {orig[p]} \cup Planned(p)

(* The contents from before the first run are in the file or in its .bak:  *)
(* neither a stale .bak nor a torn copy nor a second run after a crash     *)
(* takes their place.  (applyFile: "the caller recovers pre-apply state    *)
(* from .bak".)  It takes Disjoint: a backup file that two views prune     *)
(* against different roots is replaced twice in one plain run, and the     *)
(* second .bak takes the place of the first.                               *)
BackupRestores ==
  Disjoint => \A p \in Paths : orig[p] \in {file[p], bak[p]}

(* What AnswersKept needs of the files besides: every record names its     *)
(* owner.                                                                  *)
Tame ==
  /\ Disjoint
  /\ Unsplit
  /\ \A p \in Paths : \A i \in RRLines(orig[p]) : ~orig[p][i].same

(* A deleted record comes back from the root changed: byte-identical in    *)
(* the two files, its data is rewritten in the backup's answer, by suffix  *)
(* or, with rewrite_rdata_labels, wherever the root's labels occur.        *)
Rewritten(pair, qname, qtype, labels) ==
  \E s \in Deletions(orig, pair) :
    /\ LexedOwner(At(orig, s), BackupOrigin) = qname
    /\ At(orig, s).type = qtype
    /\ rewriteRDATANames(At(orig, s), RootOrigin, BackupOrigin, labels)
         # At(orig, s)

(* Whenever a server loads the files (during the run, after a failure or a *)
(* crash between two files), it answers as before, up to TTLs and the      *)
(* order of records: the root's records are untouched, and of the backup's *)
(* answers only those change whose RRset had a deleted record that the     *)
(* rewriting changes, whether the alias group has rewrite_rdata_labels or  *)
(* not.                                                                    *)
AnswersKept ==
  Tame =>
    \A i \in DOMAIN pairs :
      /\ RootRecords(file, pairs[i]) = RootRecords(orig, pairs[i])
      /\ \A q \in QNames, t \in Overridable, labels \in BOOLEAN :
           \/ BackupAnswer(file, pairs[i], q, t, labels)
                = BackupAnswer(orig, pairs[i], q, t, labels)
           \/ Rewritten(pairs[i], q, t, labels)
=============================================================================
