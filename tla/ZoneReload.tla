----------------------------- MODULE ZoneReload -----------------------------
(***************************************************************************)
(* BuildState during a reload, for one view: which zone files are parsed   *)
(* again and which parsed zones are reused because the file's fingerprint  *)
(* did not change (-reload-verify=hash|size|none).  Every look at the disk *)
(* is a step of its own, so files may change between the stat, the hash,   *)
(* the parse and the parse of an $INCLUDE-d fragment.                      *)
(*                                                                         *)
(* A file's content is an abstract body with a size; xxhash64 is taken to  *)
(* be collision free, so the hash of a body is the body.                   *)
(***************************************************************************)
EXTENDS Naturals

CONSTANTS
  Origins,        \* zone origins, each with a zone file
  Bodies,         \* contents of a zone file
  Size,           \* the size of each
  NoSOA,          \* the bodies without an apex SOA
  Including,      \* the bodies with an $INCLUDE line
  Fragments,      \* contents of the included file
  Modes,          \* the values of -reload-verify considered
  None,           \* absent
  MaxWrites       \* bound: how often files are written

ASSUME BodiesAssumption ==
  /\ Size \in [Bodies -> Nat]
  /\ NoSOA \subseteq Bodies
  /\ Including \subseteq Bodies
  /\ None \notin Bodies \cup Fragments \cup Origins

ASSUME ModesAssumption ==
  /\ Modes \subseteq {"hash", "size", "none"}
  /\ MaxWrites \in Nat

VARIABLES
  \* the disk
  body, mtime,    \* of each zone file
  frag,           \* content of the included file
  writes,
  \* the running process
  mode,           \* opts.ReloadVerify
  served,         \* RootZones and BackupZones
  fprints,        \* ServerState.Fingerprints
  aliases,        \* ServerState.Aliases
  \* BuildState's variables
  pc, todo, cur, fp, text, newServed, newFprints, newAliases,
  \* history
  quiet,          \* no write since the last reload began
  fresh,          \* and that reload succeeded
  disturbed       \* a reload saw a file change, or an included file changed

history   == <<quiet, fresh, disturbed>>
diskVars  == <<body, mtime, frag, writes>>
stateVars == <<served, fprints, aliases>>
buildVars == <<newServed, newFprints, newAliases>>
vars == <<diskVars, mode, stateVars, pc, todo, cur, fp, text, buildVars,
          history>>

ZoneRec == [body : Bodies, frag : Fragments \cup {None}, backup : BOOLEAN]

Fingerprint == [size : Nat, mtime : Nat, hash : Bodies \cup {None}]

NoPrint == [size |-> 0, mtime |-> 0, hash |-> None]

PCs == {"idle", "next", "stat", "hash", "decide", "parse", "include"}
----------------------------------------------------------------------------
(* Mutant: under hash only the size is compared.                           *)
changedSizeOnly(new, prev) ==
  CASE mode = "none" -> TRUE
    [] mode = "size" -> new.size # prev.size \/ new.mtime # prev.mtime
    [] OTHER         -> new.size # prev.size

(* fp.changed(prev, mode).                                                 *)
changed(new, prev) ==
  CASE mode = "none" -> TRUE
    [] mode = "size" -> new.size # prev.size \/ new.mtime # prev.mtime
    [] OTHER         -> new.size # prev.size \/ new.hash # prev.hash

(* zone.Classify: the role is decided by the presence of the origin among  *)
(* the aliases.                                                            *)
Classify(o, b, f, al) == [body |-> b, frag |-> f, backup |-> o \in al]

(* A root zone without an apex SOA is a load error.                        *)
Servable(z) == z.backup \/ z.body \notin NoSOA

(* The startup load parses everything; the files do not change meanwhile.  *)
StartupPrint(o) ==
  IF mode = "none" THEN NoPrint
  ELSE [size |-> Size[body[o]], mtime |-> mtime[o],
        hash |-> IF mode = "hash" THEN body[o] ELSE None]

StartupZone(o) ==
  Classify(o, body[o], IF body[o] \in Including THEN frag ELSE None, aliases)

Init ==
  /\ body \in [Origins -> Bodies]
  /\ mtime = [o \in Origins |-> 0]
  /\ frag \in Fragments
  /\ writes = 0
  /\ mode \in Modes
  /\ aliases \in SUBSET Origins
  /\ \E zs \in SUBSET Origins :
       /\ served = [o \in Origins |-> IF o \in zs THEN StartupZone(o)
                                                  ELSE None]
       /\ fprints = [o \in Origins |-> IF o \in zs THEN StartupPrint(o)
                                                   ELSE None]
       /\ \A o \in zs : Servable(StartupZone(o))
  /\ pc = "idle" /\ todo = {} /\ cur = None /\ fp = NoPrint /\ text = None
  /\ newServed = [o \in Origins |-> None]
  /\ newFprints = [o \in Origins |-> None]
  /\ newAliases = {}
  /\ quiet = TRUE /\ fresh = TRUE /\ disturbed = FALSE
----------------------------------------------------------------------------
(* The operator writes a zone file; its mtime is new.                      *)
WriteZoneFile(o) ==
  /\ writes < MaxWrites
  /\ \E b \in Bodies \ {body[o]} : body' = [body EXCEPT ![o] = b]
  /\ writes' = writes + 1
  /\ mtime' = [mtime EXCEPT ![o] = writes + 1]
  /\ quiet' = FALSE /\ fresh' = FALSE
  /\ disturbed' = (disturbed \/ pc # "idle")
  /\ UNCHANGED <<frag, mode, stateVars, pc, todo, cur, fp, text, buildVars>>

WriteFragment ==
  /\ writes < MaxWrites
  /\ \E f \in Fragments \ {frag} : frag' = f
  /\ writes' = writes + 1
  /\ quiet' = FALSE /\ fresh' = FALSE /\ disturbed' = TRUE
  /\ UNCHANGED <<body, mtime, mode, stateVars, pc, todo, cur, fp, text,
                 buildVars>>
----------------------------------------------------------------------------
(* A reload reads which zones and aliases are configured, then builds the  *)
(* zones one by one.                                                       *)
BeginBuild ==
  /\ pc = "idle" /\ pc' = "next"
  /\ todo' \in SUBSET Origins
  /\ newAliases' \in SUBSET Origins
  /\ newServed' = [o \in Origins |-> None]
  /\ newFprints' = [o \in Origins |-> None]
  /\ quiet' = TRUE /\ fresh' = FALSE
  /\ UNCHANGED <<diskVars, mode, stateVars, cur, fp, text, disturbed>>

NextZone(o) ==
  /\ pc = "next" /\ o \in todo
  /\ pc' = IF mode = "none" THEN "parse" ELSE "stat"
  /\ todo' = todo \ {o}
  /\ cur' = o
  /\ fp' = NoPrint
  /\ UNCHANGED <<diskVars, mode, stateVars, text, buildVars, history>>

BuildFrame == UNCHANGED <<diskVars, mode, stateVars, todo, cur, buildVars,
                          history>>

(* computeFingerprint: os.Stat, then, for hash, open and read.             *)
StatFile ==
  /\ pc = "stat"
  /\ pc' = IF mode = "hash" THEN "hash" ELSE "decide"
  /\ fp' = [size |-> Size[body[cur]], mtime |-> mtime[cur], hash |-> None]
  /\ UNCHANGED text
  /\ BuildFrame

HashFile ==
  /\ pc = "hash" /\ pc' = "decide"
  /\ fp' = [size |-> fp.size, mtime |-> fp.mtime, hash |-> body[cur]]
  /\ UNCHANGED text
  /\ BuildFrame

(* Mutant: the role is not part of the reuse condition.                    *)
SameRoleUnchecked == TRUE

(* loadZone: the previous zone is kept if the origin was and is a backup,  *)
(* or was not and is not, and the fingerprint did not change.              *)
SameRole ==
  (served[cur] # None /\ served[cur].backup) <=> (cur \in newAliases)

Reusable ==
  /\ SameRole
  /\ fprints[cur] # None
  /\ ~changed(fp, fprints[cur])
  /\ served[cur] # None

Install(z) ==
  /\ newServed' = [newServed EXCEPT ![cur] = z]
  /\ newFprints' = [newFprints EXCEPT ![cur] = fp]
  /\ pc' = "next" /\ cur' = None /\ fp' = NoPrint /\ text' = None
  /\ UNCHANGED <<diskVars, mode, stateVars, todo, newAliases, history>>

ReuseZone ==
  /\ pc = "decide"
  /\ Reusable
  /\ Servable(served[cur])
  /\ Install(served[cur])

Reparse ==
  /\ pc = "decide" /\ pc' = "parse"
  /\ ~Reusable
  /\ UNCHANGED <<fp, text>>
  /\ BuildFrame

(* ParseFile reads the zone file.                                          *)
ParseFile ==
  /\ pc = "parse" /\ pc' = "include"
  /\ text' = body[cur]
  /\ UNCHANGED fp
  /\ BuildFrame

Parsed == Classify(cur, text, IF text \in Including THEN frag ELSE None,
                   newAliases)

(* ... and then the fragment it includes; the zone is classified.          *)
FinishParse ==
  /\ pc = "include"
  /\ Servable(Parsed)
  /\ Install(Parsed)

(* Any look at the disk, the parse, the SOA check or, after the last zone, *)
(* the transfer ACL may fail: BuildState returns the error and the state   *)
(* in force stays.                                                         *)
AbortBuild ==
  /\ \/ pc \in {"stat", "hash", "decide", "parse", "include"}
     \/ pc = "next" /\ todo = {}
  /\ pc' = "idle"
  /\ todo' = {} /\ cur' = None /\ fp' = NoPrint /\ text' = None
  /\ newServed' = [o \in Origins |-> None]
  /\ newFprints' = [o \in Origins |-> None]
  /\ newAliases' = {}
  /\ UNCHANGED <<diskVars, mode, stateVars, history>>

SwapState ==
  /\ pc = "next" /\ todo = {} /\ pc' = "idle"
  /\ served' = newServed
  /\ fprints' = newFprints
  /\ aliases' = newAliases
  /\ newServed' = [o \in Origins |-> None]
  /\ newFprints' = [o \in Origins |-> None]
  /\ newAliases' = {}
  /\ fresh' = quiet
  /\ UNCHANGED <<diskVars, mode, todo, cur, fp, text, quiet, disturbed>>

Next ==
  \/ \E o \in Origins : WriteZoneFile(o) \/ NextZone(o)
  \/ WriteFragment \/ BeginBuild \/ StatFile \/ HashFile \/ ReuseZone
  \/ Reparse \/ ParseFile \/ FinishParse \/ AbortBuild \/ SwapState

Spec == Init /\ [][Next]_vars
----------------------------------------------------------------------------
(* The types of the disk, the served state and BuildState's variables.     *)
TypeOK ==
  /\ body \in [Origins -> Bodies]
  /\ mtime \in [Origins -> Nat]
  /\ frag \in Fragments
  /\ writes \in Nat
  /\ mode \in Modes
  /\ served \in [Origins -> ZoneRec \cup {None}]
  /\ fprints \in [Origins -> Fingerprint \cup {None}]
  /\ aliases \in SUBSET Origins
  /\ pc \in PCs
  /\ todo \in SUBSET Origins
  /\ cur \in Origins \cup {None}
  /\ fp \in Fingerprint
  /\ text \in Bodies \cup {None}
  /\ newServed \in [Origins -> ZoneRec \cup {None}]
  /\ newFprints \in [Origins -> Fingerprint \cup {None}]
  /\ newAliases \in SUBSET Origins
  /\ quiet \in BOOLEAN /\ fresh \in BOOLEAN /\ disturbed \in BOOLEAN

(* A zone's role is the one the aliases in force give it, whatever was     *)
(* reused: an origin that moved into or out of the aliases is parsed again.*)
RolesMatchAliases ==
  \A o \in Origins :
    served[o] # None => (served[o].backup <=> o \in aliases)

(* The last reload succeeded, and no file has changed since it began.      *)
(* Then the server has exactly what is on disk.                            *)
ServesDisk ==
  fresh => \A o \in Origins :
             served[o] # None =>
               /\ served[o].body = body[o]
               /\ body[o] \in Including => served[o].frag = frag

(* Reuse is sound: with -reload-verify=none always, and in the other modes *)
(* as long as zone files change only between reloads and included files do *)
(* not change, a reload leaves the server with what is on disk, whatever   *)
(* it reused from however old a state.                                     *)
ReuseIsSound == (mode = "none" \/ ~disturbed) => ServesDisk
=============================================================================
