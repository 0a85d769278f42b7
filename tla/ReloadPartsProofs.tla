------------------------- MODULE ReloadPartsProofs --------------------------
(***************************************************************************)
(* Two parts of reload() in detail: the log sinks next to a rotation       *)
(* (LogReopen), and the zones BuildState reuses (ZoneReload).  They share  *)
(* no state.                                                               *)
(*                                                                         *)
(* Log rotation: both logs follow it, for any number of rotations and      *)
(* reloads.  Neither property is inductive: they speak of the moment when  *)
(* a rotation is handled, and ReopenInv says what holds at each stage      *)
(* before it, on the side of the signal (Stage), of the main log           *)
(* (MainInv), of the reload (SinkOrder) and of the sink the reload holds   *)
(* (QueryInv).                                                             *)
(*                                                                         *)
(* Zone reuse: what BuildState reuses is what it would have parsed, for    *)
(* any set of zones and contents and any number of writes and reloads.     *)
(* ReuseIsSound speaks of the state after a reload; the invariant carries  *)
(* what is needed to reuse a zone from an arbitrarily old state: the       *)
(* fingerprint kept with a served zone still describes it, and while the   *)
(* two agree with the disk the file cannot have changed unnoticed.         *)
(***************************************************************************)
EXTENDS LogReopen, ZoneReload, TLAPS

(* The sink writes to the file its path names, or its failure is reported. *)
Live(s) == fd[s] = rotations \/ s \in reported

(* The signal of the last rotation was received.                           *)
Received == rot = "idle" /\ usr1Ch = 0

(* A rotation that found everything handled is moved, then signalled, then *)
(* received; the goroutine works only on the received signal.              *)
Stage == upc # "idle" => Received

Signalled == rot = "moved" => usr1Ch = 0

(* The main sink is reopened by the goroutine's first step.                *)
MainInv ==
  /\ upc = "main" => usink = Main
  /\ ~crowded =>
       /\ Stage /\ Signalled
       /\ Received /\ upc # "main" => Live(Main)

(* reload() installs the new sink in the logger, then in the record.       *)
SinkOrder ==
  /\ rpc # "idle" => reloads >= 1
  /\ queryLog = IF rpc = "storeLog" THEN reloads - 1 ELSE reloads
  /\ qlState = IF rpc \in {"storeLog", "storeQLState"} THEN reloads - 1
                                                       ELSE reloads

(* The newest query-log sink: a reload that began after the rotation       *)
(* opened it on the new file, and otherwise the goroutine holds it from    *)
(* LoadSink to ReopenQueryLog.                                             *)
QueryInv ==
  ~crowded /\ ~crossed =>
    /\ rpc # "idle" => Live(reloads)
    /\ upc = "reopen" => usink = reloads \/ Live(reloads)
    /\ Received /\ upc \in {"idle", "drain"} => Live(reloads)

(* The inductive invariant.                                                *)
ReopenInv == RotationTypeOK /\ MainInv /\ SinkOrder /\ QueryInv
----------------------------------------------------------------------------
(* The two sinks are open at startup.                                      *)
LEMMA InitReopenInv == RotationInit => ReopenInv
<1> SUFFICES ASSUME RotationInit PROVE ReopenInv
  OBVIOUS
<1>1. RotationTypeOK
  <2>1. crowded \in BOOLEAN /\ crossed \in BOOLEAN
    BY Zenon DEF RotationInit
  <2>2. fd \in [Sinks -> 0..MaxRotations \cup {Closed}]
    BY ReopenAssumption DEF RotationInit
  <2> QED
    BY <2>1, <2>2, ReopenAssumption DEF RotationInit, RotationTypeOK, Sinks
<1>2. fd[Main] = 0 /\ fd[0] = 0
  BY ReopenAssumption DEF RotationInit, Sinks
<1> QED
  BY <1>1, <1>2 DEF RotationInit, ReopenInv, MainInv, Stage, Signalled,
                    Received, SinkOrder, QueryInv, Live

(* Reopen gives a sink the new file or reports it, and touches no other.   *)
LEMMA ReopenMakesLive ==
  ASSUME RotationTypeOK, NEW s \in Sinks, Reopen(s), rotations' = rotations
  PROVE  /\ fd' \in [Sinks -> 0..MaxRotations \cup {Closed}]
         /\ reported' \in SUBSET Sinks
         /\ Live(s)'
         /\ \A t \in Sinks : Live(t) => Live(t)'
<1>1. CASE fd' = [fd EXCEPT ![s] = rotations] /\ reported' = reported
  BY <1>1 DEF RotationTypeOK, Live
<1>2. CASE reported' = reported \cup {s} /\ fd' = fd
  BY <1>2 DEF RotationTypeOK, Live
<1> QED
  BY <1>1, <1>2 DEF Reopen

(* One step of logrotate, of the SIGUSR1 goroutine or of a reload.         *)
LEMMA NextReopenInv == ReopenInv /\ [RotationNext]_reopenVars => ReopenInv'
<1> SUFFICES ASSUME ReopenInv, [RotationNext]_reopenVars
             PROVE  ReopenInv'
  OBVIOUS
<1> USE ReopenAssumption DEF ReopenInv
<1>1. CASE Rotate
  <2>1. RotationTypeOK'
    BY <1>1 DEF Rotate, RotationTypeOK, qlVars, usrVars, relVars
  <2> QED
    BY <2>1, <1>1 DEF Rotate, RotationTypeOK, qlVars, usrVars, relVars,
       Handled, MainInv, Stage, Signalled, Received, SinkOrder, QueryInv, Live
<1>2. CASE PostRotate
  <2>1. RotationTypeOK'
    BY <1>2 DEF PostRotate, RotationTypeOK, qlVars, relVars
  <2> QED
    BY <2>1, <1>2 DEF PostRotate, RotationTypeOK, qlVars, relVars,
       MainInv, Stage, Signalled, Received, SinkOrder, QueryInv, Live
<1>3. CASE ReceiveSigusr1
  <2>1. RotationTypeOK'
    BY <1>3 DEF ReceiveSigusr1, RotationTypeOK, rotVars, qlVars, relVars, Sinks
  <2> QED
    BY <2>1, <1>3 DEF ReceiveSigusr1, RotationTypeOK, rotVars, qlVars, relVars,
       MainInv, Stage, Signalled, Received, SinkOrder, QueryInv, Live
<1>4. CASE ReopenMain
  <2>1. usink = Main /\ Main \in Sinks /\ rotations' = rotations
    BY <1>4 DEF ReopenMain, MainInv, Sinks, rotVars
  <2>2. /\ fd' \in [Sinks -> 0..MaxRotations \cup {Closed}]
        /\ reported' \in SUBSET Sinks
        /\ Live(Main)' /\ \A t \in Sinks : Live(t) => Live(t)'
    BY <2>1, <1>4, ReopenMakesLive DEF ReopenMain
  <2>3. RotationTypeOK'
    BY <2>2, <1>4 DEF ReopenMain, RotationTypeOK, rotVars, qlVars, relVars
  <2>4. reloads \in Sinks
    BY DEF RotationTypeOK, Sinks
  <2> HIDE DEF Live
  <2> QED
    BY <2>2, <2>3, <2>4, <1>4 DEF ReopenMain, RotationTypeOK, rotVars, qlVars,
       relVars, MainInv, Stage, Signalled, Received, SinkOrder, QueryInv
<1>5. CASE LoadSink
  <2>1. RotationTypeOK'
    BY <1>5 DEF LoadSink, RotationTypeOK, rotVars, qlVars, relVars, Sinks
  <2> QED
    BY <2>1, <1>5 DEF LoadSink, RotationTypeOK, rotVars, qlVars, relVars,
       MainInv, Stage, Signalled, Received, SinkOrder, QueryInv, Live
<1>6. CASE ReopenQueryLog
  <2>1. usink \in Sinks /\ reloads \in Sinks /\ Main \in Sinks
        /\ rotations' = rotations
    BY <1>6 DEF ReopenQueryLog, RotationTypeOK, Sinks, rotVars
  <2>2. /\ fd' \in [Sinks -> 0..MaxRotations \cup {Closed}]
        /\ reported' \in SUBSET Sinks
        /\ Live(usink)' /\ \A t \in Sinks : Live(t) => Live(t)'
    BY <2>1, <1>6, ReopenMakesLive DEF ReopenQueryLog
  <2>3. RotationTypeOK'
    BY <2>2, <1>6 DEF ReopenQueryLog, RotationTypeOK, rotVars, qlVars, relVars
  <2>4. upc = "reopen" /\ (~crowded /\ ~crossed) => Live(reloads)'
    BY <2>1, <2>2, <1>6 DEF ReopenQueryLog, QueryInv, Live, relVars
  <2> QED
    BY <2>1, <2>2, <2>3, <2>4, <1>6 DEF ReopenQueryLog, RotationTypeOK,
       rotVars, qlVars, relVars, MainInv, Stage, Signalled, Received, SinkOrder,
       QueryInv
<1>7. CASE DrainSigusr1
  <2>1. RotationTypeOK'
    BY <1>7 DEF DrainSigusr1, RotationTypeOK, rotVars, qlVars, relVars, Sinks
  <2> QED
    BY <2>1, <1>7 DEF DrainSigusr1, RotationTypeOK, rotVars, qlVars, relVars,
       MainInv, Stage, Signalled, Received, SinkOrder, QueryInv, Live
<1>8. CASE OpenNewSink
  <2>1. reloads + 1 \in 0..MaxReloads /\ reloads + 1 \in Sinks
        /\ Main # reloads + 1 /\ Main \in Sinks
    BY <1>8 DEF OpenNewSink, RotationTypeOK, Sinks
  <2>2. RotationTypeOK'
    BY <2>1, <1>8 DEF OpenNewSink, RotationTypeOK, rotVars, qlVars, usrVars
  <2>3. fd'[reloads'] = rotations /\ fd'[Main] = fd[Main]
    BY <2>1, <1>8 DEF OpenNewSink, RotationTypeOK
  <2>4. SinkOrder'
    BY <1>8 DEF OpenNewSink, RotationTypeOK, SinkOrder, qlVars
  <2>5. Live(reloads)' /\ (Live(Main) => Live(Main)')
    BY <2>3, <1>8 DEF OpenNewSink, Live, rotVars
  <2> QED
    BY <2>2, <2>4, <2>5, <1>8 DEF OpenNewSink, rotVars, qlVars, usrVars,
       MainInv, Stage, Signalled, Received, QueryInv
<1>9. CASE StoreQueryLog
  <2>1. RotationTypeOK'
    BY <1>9 DEF StoreQueryLog, RotationTypeOK, rotVars, usrVars
  <2> QED
    BY <2>1, <1>9 DEF StoreQueryLog, RotationTypeOK, rotVars, usrVars,
       MainInv, Stage, Signalled, Received, SinkOrder, QueryInv, Live
<1>10. CASE StoreQLState
  <2>1. RotationTypeOK'
    BY <1>10 DEF StoreQLState, RotationTypeOK, rotVars, usrVars
  <2> QED
    BY <2>1, <1>10 DEF StoreQLState, RotationTypeOK, rotVars, usrVars,
       MainInv, Stage, Signalled, Received, SinkOrder, QueryInv, Live
<1>11. CASE CloseOldSink
  <2>1. /\ reloads \in Nat /\ reloads >= 1 /\ reloads \in Sinks
        /\ reloads - 1 \in Sinks /\ Main # reloads - 1 /\ Main \in Sinks
    BY <1>11 DEF CloseOldSink, RotationTypeOK, SinkOrder, Sinks
  <2>2. RotationTypeOK'
    BY <2>1, <1>11 DEF CloseOldSink, RotationTypeOK, rotVars, qlVars, usrVars
  <2>3. fd'[reloads] = fd[reloads] /\ fd'[Main] = fd[Main]
    BY <2>1, <1>11 DEF CloseOldSink, RotationTypeOK
  <2>4. SinkOrder'
    BY <1>11 DEF CloseOldSink, RotationTypeOK, SinkOrder, qlVars
  <2>5. /\ Live(reloads) => Live(reloads)'
        /\ Live(Main) => Live(Main)'
    BY <2>3, <1>11 DEF CloseOldSink, Live, rotVars
  <2> QED
    BY <2>2, <2>4, <2>5, <1>11 DEF CloseOldSink, rotVars, qlVars, usrVars,
       MainInv, Stage, Signalled, Received, QueryInv
<1>12. CASE UNCHANGED reopenVars
  BY <1>12 DEF reopenVars, rotVars, qlVars, usrVars, relVars, RotationTypeOK,
     MainInv, Stage, Signalled, Received, SinkOrder, QueryInv, Live
<1> QED
  BY <1>1, <1>2, <1>3, <1>4, <1>5, <1>6, <1>7, <1>8, <1>9, <1>10, <1>11,
     <1>12 DEF RotationNext

(* The inductive invariant holds throughout.                               *)
LEMMA ReopenInvariance == RotationSpec => []ReopenInv
<1>1. RotationInit => ReopenInv
  BY InitReopenInv
<1>2. ReopenInv /\ [RotationNext]_reopenVars => ReopenInv'
  BY NextReopenInv
<1> QED
  BY <1>1, <1>2, PTL DEF RotationSpec
----------------------------------------------------------------------------
(* SIGUSR1 moves the main log to the new file for any number of rotations  *)
(* and reloads (the SIGUSR1 goroutine of runSignalHandlers).               *)
THEOREM MainFollows == RotationSpec => []MainFollowsRotation
<1>1. ReopenInv => MainFollowsRotation
  BY DEF ReopenInv, MainInv, MainFollowsRotation, OnLiveFile, Handled,
         Received, Live
<1> QED
  BY <1>1, ReopenInvariance, PTL

(* The query log in force follows too, however often and at whatever       *)
(* moment reloads replaced its sink, except across a rotation that finds a *)
(* new sink opened and not yet installed.                                  *)
THEOREM QueryLogFollows == RotationSpec => []QueryLogFollowsRotation
<1>1. ReopenInv => QueryLogFollowsRotation
  BY DEF ReopenInv, RotationTypeOK, QueryInv, SinkOrder,
         QueryLogFollowsRotation, OnLiveFile, Handled, Received, Live
<1> QED
  BY <1>1, ReopenInvariance, PTL
----------------------------------------------------------------------------
(* A parsed zone that is what the disk holds.                              *)
Matches(z, o) ==
  z.body = body[o] /\ (body[o] \in Including => z.frag = frag)

(* A fingerprint under which the zone may be reused: its hash is the       *)
(* zone's, its time is past, and a file that still has that time still     *)
(* has the zone's body.                                                    *)
Describes(p, z, o) ==
  /\ p \in Fingerprint
  /\ mode = "hash" => p.hash = z.body
  /\ p.mtime <= writes
  /\ p.mtime = mtime[o] => z.body = body[o]
  /\ z.body \in Including => z.frag = frag

(* No write that this run's mode would fail to see.                        *)
Steady == IF mode = "none" THEN quiet ELSE ~disturbed

Busy == pc \in {"stat", "hash", "decide", "parse", "include"}

Roles ==
  /\ \A o \in Origins :
       newServed[o] # None => (newServed[o].backup <=> o \in newAliases)
  /\ RolesMatchAliases

(* Where BuildState is and what it holds there.                            *)
BuildInv ==
  /\ Busy => cur \in Origins
  /\ pc \in {"stat", "hash", "decide"} => mode # "none"
  /\ pc = "include" => text \in Bodies
  /\ pc = "idle" => \A o \in Origins : newServed[o] = None
  /\ \A o \in Origins : mtime[o] <= writes
  /\ fresh => quiet

(* What it holds is on the disk, as long as the disk is left alone.        *)
SteadyInv ==
  Steady =>
    /\ pc = "include" => text = body[cur]
    /\ \A o \in Origins : newServed[o] # None => Matches(newServed[o], o)
    /\ fresh => \A o \in Origins : served[o] # None => Matches(served[o], o)

(* The fingerprints, in the modes that take them.                          *)
PrintInv ==
  mode # "none" /\ ~disturbed =>
    /\ pc \in {"hash", "decide", "parse", "include"} => fp.mtime = mtime[cur]
    /\ pc \in {"decide", "parse", "include"} /\ mode = "hash"
         => fp.hash = body[cur]
    /\ \A o \in Origins :
         /\ newServed[o] # None => Describes(newFprints[o], newServed[o], o)
         /\ served[o] # None => Describes(fprints[o], served[o], o)

(* The inductive invariant.                                                *)
ReuseInv == TypeOK /\ Roles /\ BuildInv /\ SteadyInv /\ PrintInv
----------------------------------------------------------------------------
(* What BuildState installs has the types of a zone and a fingerprint.     *)
LEMMA ClassifyType ==
  ASSUME NEW o \in Origins, NEW b \in Bodies,
         NEW f \in Fragments \cup {None}, NEW al \in SUBSET Origins
  PROVE  /\ Classify(o, b, f, al) \in ZoneRec
         /\ Classify(o, b, f, al).body = b
         /\ Classify(o, b, f, al).frag = f
         /\ Classify(o, b, f, al).backup <=> o \in al
<1>1. (o \in al) \in BOOLEAN
  OBVIOUS
<1>2. Classify(o, b, f, al) \in ZoneRec
  BY <1>1, Zenon DEF Classify, ZoneRec
<1> QED
  BY <1>2 DEF Classify

(* The startup load parses every configured zone.                          *)
LEMMA InitReuseInv == Init => ReuseInv
<1> SUFFICES ASSUME Init PROVE ReuseInv
  OBVIOUS
<1> USE BodiesAssumption, ModesAssumption
<1>1. /\ body \in [Origins -> Bodies] /\ frag \in Fragments
      /\ aliases \in SUBSET Origins /\ mode \in Modes
      /\ mtime = [o \in Origins |-> 0] /\ writes = 0 /\ pc = "idle"
      /\ newServed = [o \in Origins |-> None] /\ fresh /\ quiet
  BY DEF Init
<1>2. PICK zs \in SUBSET Origins :
        /\ served = [o \in Origins |-> IF o \in zs THEN StartupZone(o)
                                                   ELSE None]
        /\ fprints = [o \in Origins |-> IF o \in zs THEN StartupPrint(o)
                                                    ELSE None]
  BY DEF Init
<1>3. ASSUME NEW o \in Origins
      PROVE  /\ StartupZone(o) \in ZoneRec
             /\ StartupZone(o).body = body[o]
             /\ body[o] \in Including => StartupZone(o).frag = frag
             /\ StartupZone(o).backup <=> o \in aliases
  BY <1>1, ClassifyType DEF StartupZone
<1>4. ASSUME NEW o \in Origins
      PROVE  /\ StartupPrint(o) \in Fingerprint
             /\ StartupPrint(o).mtime <= writes
             /\ mode = "hash" => StartupPrint(o).hash = body[o]
  BY <1>1 DEF StartupPrint, Fingerprint, NoPrint
<1>5. NoPrint \in Fingerprint
  BY DEF NoPrint, Fingerprint
<1>6. quiet \in BOOLEAN /\ fresh \in BOOLEAN /\ disturbed \in BOOLEAN
  BY Zenon DEF Init
<1>7. TypeOK
  <2>1. /\ served \in [Origins -> ZoneRec \cup {None}]
        /\ fprints \in [Origins -> Fingerprint \cup {None}]
    BY <1>2, <1>3, <1>4
  <2> QED
    BY <2>1, <1>1, <1>5, <1>6 DEF Init, TypeOK, PCs
<1>8. Roles
  BY <1>1, <1>2, <1>3 DEF Roles, RolesMatchAliases
<1>9. BuildInv
  BY <1>1 DEF BuildInv, Busy
<1>10. SteadyInv
  BY <1>1, <1>2, <1>3 DEF SteadyInv, Matches
<1>11. PrintInv
  BY <1>1, <1>2, <1>3, <1>4 DEF PrintInv, Describes
<1> QED
  BY <1>7, <1>8, <1>9, <1>10, <1>11 DEF ReuseInv

(* Install, of a zone that has the role asked for and, as long as the disk *)
(* was left alone, is on it.                                               *)
LEMMA InstallKeeps ==
  ASSUME ReuseInv, Busy, pc \in {"decide", "include"},
         NEW z \in ZoneRec, Install(z),
         z.backup <=> cur \in newAliases,
         Steady => Matches(z, cur)
  PROVE  ReuseInv'
<1> USE BodiesAssumption, ModesAssumption DEF ReuseInv
<1>1. /\ cur \in Origins
      /\ newServed' = [newServed EXCEPT ![cur] = z]
      /\ newFprints' = [newFprints EXCEPT ![cur] = fp]
      /\ pc' = "next" /\ cur' = None /\ fp' = NoPrint /\ text' = None
      /\ UNCHANGED <<body, mtime, frag, writes, mode, served, fprints, aliases,
                     todo, newAliases, quiet, fresh, disturbed>>
  BY DEF Install, diskVars, stateVars, history, BuildInv
<1>2. TypeOK'
  BY <1>1 DEF TypeOK, NoPrint, Fingerprint, PCs
<1>3. Roles'
  BY <1>1 DEF Roles, RolesMatchAliases, TypeOK
<1>4. BuildInv'
  BY <1>1 DEF BuildInv, Busy
<1>5. SteadyInv'
  BY <1>1 DEF SteadyInv, Steady, Matches, TypeOK
<1>6. PrintInv'
  <2> SUFFICES ASSUME mode # "none", ~disturbed, NEW o \in Origins
               PROVE  /\ newServed'[o] # None
                           => Describes(newFprints[o], newServed[o], o)'
                      /\ served[o] # None
                           => Describes(fprints[o], served[o], o)'
    BY <1>1 DEF PrintInv
  <2>1. CASE o = cur
    <3>1. newServed'[o] = z /\ newFprints'[o] = fp
      BY <1>1, <2>1 DEF TypeOK
    <3>2. fp \in Fingerprint /\ fp.mtime = mtime[cur]
          /\ (mode = "hash" => fp.hash = body[cur])
      BY DEF TypeOK, PrintInv
    <3>3. Matches(z, cur) /\ mtime[cur] <= writes
      BY <1>1 DEF Steady, BuildInv
    <3> QED
      BY <1>1, <2>1, <3>1, <3>2, <3>3 DEF Matches, Describes, PrintInv
  <2>2. CASE o # cur
    <3>1. newServed'[o] = newServed[o] /\ newFprints'[o] = newFprints[o]
      BY <1>1, <2>2 DEF TypeOK
    <3> QED
      BY <1>1, <3>1 DEF Describes, PrintInv
  <2> QED
    BY <2>1, <2>2
<1> QED
  BY <1>2, <1>3, <1>4, <1>5, <1>6

(* loadZone's condition: a zone whose fingerprint did not change is the    *)
(* one on the disk.                                                        *)
LEMMA ReusableMatches ==
  ASSUME ReuseInv, pc = "decide", Reusable, ~disturbed
  PROVE  Matches(served[cur], cur)
<1>1. cur \in Origins /\ mode \in {"hash", "size"}
  BY ModesAssumption DEF ReuseInv, BuildInv, Busy, TypeOK
<1>2. Describes(fprints[cur], served[cur], cur)
  BY <1>1 DEF ReuseInv, PrintInv, Reusable
<1>3. fp.mtime = mtime[cur] /\ (mode = "hash" => fp.hash = body[cur])
  BY <1>1 DEF ReuseInv, PrintInv
<1>4. IF mode = "size" THEN fp.mtime = fprints[cur].mtime
                       ELSE fp.hash = fprints[cur].hash
  BY <1>1 DEF Reusable, changed
<1> QED
  BY <1>1, <1>2, <1>3, <1>4 DEF Describes, Matches

(* The steps that only look at the disk.                                   *)
LEMMA LookKeeps ==
  ASSUME ReuseInv, StatFile \/ HashFile \/ Reparse \/ ParseFile
  PROVE  ReuseInv'
<1> USE BodiesAssumption, ModesAssumption DEF ReuseInv
<1>1. /\ cur \in Origins /\ body[cur] \in Bodies /\ mtime[cur] \in Nat
      /\ Size[body[cur]] \in Nat
      /\ UNCHANGED <<body, mtime, frag, writes, mode, served, fprints, aliases,
                     todo, cur, newServed, newFprints, newAliases, quiet,
                     fresh, disturbed>>
  BY DEF StatFile, HashFile, Reparse, ParseFile, BuildFrame, diskVars,
         stateVars, buildVars, history, BuildInv, Busy, TypeOK
<1>2. /\ TypeOK'
      /\ pc' \in {"hash", "decide", "parse", "include"}
      /\ pc' \in {"hash", "decide"} => mode # "none"
      /\ pc' = "include" => text' = body[cur]
  <2>1. CASE StatFile
    BY <2>1, <1>1 DEF StatFile, TypeOK, Fingerprint, PCs, BuildInv
  <2>2. CASE HashFile
    BY <2>2, <1>1 DEF HashFile, TypeOK, Fingerprint, PCs, BuildInv
  <2>3. CASE Reparse
    BY <2>3, <1>1 DEF Reparse, TypeOK, PCs
  <2>4. CASE ParseFile
    BY <2>4, <1>1 DEF ParseFile, TypeOK, PCs
  <2> QED
    BY <2>1, <2>2, <2>3, <2>4
<1>3. Roles'
  BY <1>1 DEF Roles, RolesMatchAliases
<1>4. BuildInv'
  BY <1>1, <1>2 DEF BuildInv, Busy
<1>5. SteadyInv'
  BY <1>1, <1>2 DEF SteadyInv, Steady, Matches
<1>6. mode # "none" /\ ~disturbed =>
        /\ fp'.mtime = mtime[cur]
        /\ pc' \in {"decide", "parse", "include"} /\ mode = "hash"
             => fp'.hash = body[cur]
  <2>1. CASE StatFile
    BY <2>1, <1>1 DEF StatFile
  <2>2. CASE HashFile
    BY <2>2, <1>1 DEF HashFile, PrintInv
  <2>3. CASE Reparse
    BY <2>3, <1>1 DEF Reparse, PrintInv
  <2>4. CASE ParseFile
    BY <2>4, <1>1 DEF ParseFile, PrintInv
  <2> QED
    BY <2>1, <2>2, <2>3, <2>4
<1>7. PrintInv'
  BY <1>1, <1>2, <1>6 DEF PrintInv, Describes
<1> QED
  BY <1>2, <1>3, <1>4, <1>5, <1>7

(* One step of a writer or of BuildState.                                  *)
LEMMA NextReuseInv == ReuseInv /\ [Next]_vars => ReuseInv'
<1> SUFFICES ASSUME ReuseInv, [Next]_vars
             PROVE  ReuseInv'
  OBVIOUS
<1> USE BodiesAssumption, ModesAssumption DEF ReuseInv
<1>1. ASSUME NEW o \in Origins, WriteZoneFile(o)
      PROVE  ReuseInv'
  <2>1. PICK b \in Bodies : body' = [body EXCEPT ![o] = b]
    BY <1>1 DEF WriteZoneFile
  <2>2. /\ writes \in Nat /\ writes' = writes + 1
        /\ mtime' = [mtime EXCEPT ![o] = writes + 1]
        /\ ~quiet' /\ ~fresh'
        /\ quiet' \in BOOLEAN /\ fresh' \in BOOLEAN
        /\ ~disturbed' => ~disturbed /\ pc = "idle"
        /\ UNCHANGED <<frag, mode, served, fprints, aliases, pc, todo, cur, fp,
                       text, newServed, newFprints, newAliases>>
    BY <1>1 DEF WriteZoneFile, TypeOK, stateVars, buildVars
  <2>3. disturbed' \in BOOLEAN
    BY <1>1, Zenon DEF WriteZoneFile
  <2>4. TypeOK'
    BY <2>1, <2>2, <2>3 DEF TypeOK
  <2>5. Roles'
    BY <2>2 DEF Roles, RolesMatchAliases
  <2>6. BuildInv'
    BY <2>2 DEF BuildInv, Busy, TypeOK
  <2>7. SteadyInv'
    BY <2>2 DEF SteadyInv, Steady, BuildInv
  <2>8. PrintInv'
    <3> SUFFICES ASSUME mode # "none", ~disturbed'
                 PROVE  \A x \in Origins :
                          served[x] # None
                            => Describes(fprints[x], served[x], x)'
      BY <2>2 DEF PrintInv, BuildInv
    <3> SUFFICES ASSUME NEW x \in Origins, served[x] # None
                 PROVE  Describes(fprints[x], served[x], x)'
      OBVIOUS
    <3>1. Describes(fprints[x], served[x], x)
      BY <2>2 DEF PrintInv
    <3>2. fprints[x].mtime \in Nat
      BY <3>1 DEF Describes, Fingerprint
    <3>3. IF x = o THEN mtime'[x] = writes + 1
          ELSE mtime'[x] = mtime[x] /\ body'[x] = body[x]
      BY <2>1, <2>2 DEF TypeOK
    <3> QED
      BY <2>2, <3>1, <3>2, <3>3 DEF Describes
  <2> QED
    BY <2>4, <2>5, <2>6, <2>7, <2>8
<1>2. CASE WriteFragment
  <2>1. /\ writes \in Nat /\ writes' = writes + 1 /\ frag' \in Fragments
        /\ ~quiet' /\ ~fresh' /\ disturbed'
        /\ UNCHANGED <<body, mtime, mode, served, fprints, aliases, pc, todo,
                       cur, fp, text, newServed, newFprints, newAliases>>
    BY <1>2 DEF WriteFragment, TypeOK, stateVars, buildVars
  <2>2. quiet' \in BOOLEAN /\ fresh' \in BOOLEAN /\ disturbed' \in BOOLEAN
    BY <1>2, Zenon DEF WriteFragment
  <2>3. TypeOK'
    BY <2>1, <2>2 DEF TypeOK
  <2> QED
    BY <2>1, <2>3 DEF Roles, RolesMatchAliases, BuildInv, Busy, SteadyInv,
                      Steady, PrintInv, TypeOK
<1>3. CASE BeginBuild
  <2>1. /\ pc = "idle" /\ pc' = "next"
        /\ todo' \in SUBSET Origins /\ newAliases' \in SUBSET Origins
        /\ newServed' = [o \in Origins |-> None]
        /\ newFprints' = [o \in Origins |-> None]
        /\ quiet' /\ ~fresh'
        /\ UNCHANGED <<body, mtime, frag, writes, mode, served, fprints,
                       aliases, cur, fp, text, disturbed>>
    BY <1>3 DEF BeginBuild, diskVars, stateVars
  <2>2. quiet' \in BOOLEAN /\ fresh' \in BOOLEAN
    BY <1>3, Zenon DEF BeginBuild
  <2>3. TypeOK'
    BY <2>1, <2>2 DEF TypeOK, PCs
  <2>4. PrintInv'
    BY <2>1 DEF PrintInv, Describes
  <2> QED
    BY <2>1, <2>3, <2>4 DEF Roles, RolesMatchAliases, BuildInv, Busy,
                            SteadyInv, Steady
<1>4. ASSUME NEW o \in Origins, NextZone(o)
      PROVE  ReuseInv'
  <2>1. /\ pc' = IF mode = "none" THEN "parse" ELSE "stat"
        /\ todo' = todo \ {o} /\ cur' = o /\ fp' = NoPrint
        /\ UNCHANGED <<body, mtime, frag, writes, mode, served, fprints,
                       aliases, text, newServed, newFprints, newAliases,
                       quiet, fresh, disturbed>>
    BY <1>4 DEF NextZone, diskVars, stateVars, buildVars, history
  <2>2. TypeOK'
    BY <2>1 DEF TypeOK, NoPrint, Fingerprint, PCs
  <2>3. PrintInv'
    BY <2>1 DEF PrintInv, Describes
  <2> QED
    BY <2>1, <2>2, <2>3 DEF Roles, RolesMatchAliases, BuildInv, Busy,
                            SteadyInv, Steady, Matches
<1>5. CASE StatFile \/ HashFile \/ Reparse \/ ParseFile
  BY <1>5, LookKeeps
<1>6. CASE ReuseZone
  <2>1. /\ pc = "decide" /\ Reusable /\ Install(served[cur])
        /\ cur \in Origins /\ served[cur] \in ZoneRec /\ mode # "none"
    BY <1>6 DEF ReuseZone, Reusable, BuildInv, Busy, TypeOK
  <2>2. served[cur].backup <=> cur \in newAliases
    BY <2>1 DEF Reusable, SameRole
  <2>3. Steady => Matches(served[cur], cur)
    BY <2>1, ReusableMatches DEF Steady
  <2> QED
    BY <2>1, <2>2, <2>3, InstallKeeps DEF Busy
<1>7. CASE FinishParse
  <2>1. /\ pc = "include" /\ Install(Parsed) /\ cur \in Origins
        /\ text \in Bodies /\ frag \in Fragments
        /\ newAliases \in SUBSET Origins
    BY <1>7 DEF FinishParse, BuildInv, Busy, TypeOK
  <2>2. /\ Parsed \in ZoneRec /\ Parsed.body = text
        /\ text \in Including => Parsed.frag = frag
        /\ Parsed.backup <=> cur \in newAliases
    BY <2>1, ClassifyType DEF Parsed
  <2>3. Steady => Matches(Parsed, cur)
    BY <2>1, <2>2 DEF SteadyInv, Matches
  <2> QED
    BY <2>1, <2>2, <2>3, InstallKeeps DEF Busy
<1>8. CASE AbortBuild
  <2>1. /\ pc' = "idle" /\ todo' = {} /\ cur' = None /\ fp' = NoPrint
        /\ text' = None /\ newAliases' = {}
        /\ newServed' = [o \in Origins |-> None]
        /\ newFprints' = [o \in Origins |-> None]
        /\ UNCHANGED <<body, mtime, frag, writes, mode, served, fprints,
                       aliases, quiet, fresh, disturbed>>
    BY <1>8 DEF AbortBuild, diskVars, stateVars, history
  <2>2. TypeOK'
    BY <2>1 DEF TypeOK, NoPrint, Fingerprint, PCs
  <2>3. PrintInv'
    BY <2>1 DEF PrintInv, Describes
  <2> QED
    BY <2>1, <2>2, <2>3 DEF Roles, RolesMatchAliases, BuildInv, Busy,
                            SteadyInv, Steady, Matches
<1>9. CASE SwapState
  <2>1. /\ pc' = "idle" /\ served' = newServed /\ fprints' = newFprints
        /\ aliases' = newAliases /\ newAliases' = {} /\ fresh' = quiet
        /\ newServed' = [o \in Origins |-> None]
        /\ newFprints' = [o \in Origins |-> None]
        /\ UNCHANGED <<body, mtime, frag, writes, mode, todo, cur, fp, text,
                       quiet, disturbed>>
    BY <1>9 DEF SwapState, diskVars
  <2>2. TypeOK'
    BY <2>1 DEF TypeOK, PCs
  <2>3. PrintInv'
    BY <2>1 DEF PrintInv, Describes
  <2>4. SteadyInv'
    BY <2>1 DEF SteadyInv, Steady, Matches
  <2> QED
    BY <2>1, <2>2, <2>3, <2>4 DEF Roles, RolesMatchAliases, BuildInv, Busy
<1>10. CASE UNCHANGED vars
  BY <1>10 DEF vars, diskVars, stateVars, buildVars, history, TypeOK, Roles,
     RolesMatchAliases, BuildInv, Busy, SteadyInv, Steady, Matches, PrintInv,
     Describes
<1> QED
  BY <1>1, <1>2, <1>3, <1>4, <1>5, <1>6, <1>7, <1>8, <1>9, <1>10 DEF Next

(* The inductive invariant holds throughout.                               *)
LEMMA ReuseInvariance == Spec => []ReuseInv
<1>1. Init => ReuseInv
  BY InitReuseInv
<1>2. ReuseInv /\ [Next]_vars => ReuseInv'
  BY NextReuseInv
<1> QED
  BY <1>1, <1>2, PTL DEF Spec
----------------------------------------------------------------------------
(* A zone that was reused has the role the aliases in force give it        *)
(* (loadZone's role condition), for any configuration history.             *)
THEOREM RolesFollowAliases == Spec => []RolesMatchAliases
<1>1. ReuseInv => RolesMatchAliases
  BY DEF ReuseInv, Roles
<1> QED
  BY <1>1, ReuseInvariance, PTL

(* After a reload the server has what is on the disk, whatever it reused   *)
(* from however old a state: always under none, and under hash and size    *)
(* while files change only between reloads (loadZone, fp.changed).         *)
THEOREM ReuseSoundness == Spec => []ReuseIsSound
<1>1. ReuseInv => ReuseIsSound
  <2> SUFFICES ASSUME ReuseInv, mode = "none" \/ ~disturbed, fresh,
                      NEW o \in Origins, served[o] # None
               PROVE  /\ served[o].body = body[o]
                      /\ body[o] \in Including => served[o].frag = frag
    BY DEF ReuseIsSound, ServesDisk
  <2>1. Steady
    BY DEF ReuseInv, BuildInv, Steady
  <2> QED
    BY <2>1 DEF ReuseInv, SteadyInv, Matches
<1> QED
  BY <1>1, ReuseInvariance, PTL
=============================================================================
