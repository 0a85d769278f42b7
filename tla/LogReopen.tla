----------------------------- MODULE LogReopen ------------------------------
(***************************************************************************)
(* Log rotation: logrotate moves the log files away, creates new ones and  *)
(* sends SIGUSR1; the daemon reopens its sinks, while a SIGHUP reload may  *)
(* be replacing the query-log sink.                                        *)
(*                                                                         *)
(* Every rotation gives each log path a new file, so the file a path names *)
(* is the number of rotations so far, and a descriptor is the number of    *)
(* rotations when it was opened.                                           *)
(***************************************************************************)
EXTENDS Naturals

CONSTANTS
  Main,          \* the sink of --log-file
  Closed,        \* the descriptor of a closed sink
  MaxRotations,  \* bound: rotations
  MaxReloads     \* bound: reloads that change the query log

ASSUME ReopenAssumption ==
  /\ MaxRotations \in Nat /\ MaxReloads \in Nat
  /\ Main \notin Nat /\ Closed \notin Nat

Sinks == {Main} \cup 0..MaxReloads

VARIABLES
  rotations,     \* rotations so far
  rot,           \* logrotate: "idle", or "moved" and not yet signalled
  fd,            \* ReopenSink.f of each sink
  qlState,       \* the sink of queryLogState
  queryLog,      \* the sink Server.QueryLog writes to
  usr1Ch,        \* signals in sigusr1Ch, whose capacity is 1
  upc, usink,    \* the SIGUSR1 goroutine
  rpc, reloads,  \* the query-log part of reload(); the reloads begun
  reported,      \* sinks whose last Reopen failed and was logged
  crowded,       \* the last rotation came before the previous was handled
  crossed        \* the last rotation came while a reload held a new sink

rotVars == <<rotations, rot, crowded, crossed>>
qlVars  == <<qlState, queryLog>>
usrVars == <<usr1Ch, upc, usink>>
relVars == <<rpc, reloads>>
reopenVars == <<rotVars, fd, qlVars, usrVars, relVars, reported>>

(* run() opened both sinks at startup.                                     *)
RotationInit ==
  /\ rotations = 0 /\ rot = "idle"
  /\ fd = [s \in Sinks |-> IF s \in {Main, 0} THEN 0 ELSE Closed]
  /\ qlState = 0 /\ queryLog = 0
  /\ usr1Ch = 0 /\ upc = "idle" /\ usink = Main
  /\ rpc = "idle" /\ reloads = 0
  /\ reported = {}
  /\ crowded = FALSE /\ crossed = FALSE
----------------------------------------------------------------------------
(* Every rotation so far has been signalled and its signal consumed.       *)
Handled == rot = "idle" /\ usr1Ch = 0 /\ upc = "idle"

(* logrotate: rename and create, then the postrotate script.  The signal   *)
(* is lost when the channel is full.                                       *)
Rotate ==
  /\ rotations < MaxRotations
  /\ rot = "idle" /\ rot' = "moved"
  /\ rotations' = rotations + 1
  /\ crowded' = ~Handled
  /\ crossed' = (rpc # "idle")
  /\ reported' = {}
  /\ UNCHANGED <<fd, qlVars, usrVars, relVars>>

PostRotate ==
  /\ rot = "moved" /\ rot' = "idle"
  /\ usr1Ch' = 1
  /\ UNCHANGED <<rotations, crowded, crossed, fd, qlVars, upc, usink, relVars,
                 reported>>
----------------------------------------------------------------------------
(* The SIGUSR1 goroutine.                                                  *)

ReceiveSigusr1 ==
  /\ upc = "idle" /\ upc' = "main"
  /\ usr1Ch = 1
  /\ usr1Ch' = 0
  /\ usink' = Main
  /\ UNCHANGED <<rotVars, fd, qlVars, relVars, reported>>

(* Mutant: a failed open is not reported.                                  *)
ReopenSilently(s) ==
  \/ /\ fd[s] # Closed
     /\ fd' = [fd EXCEPT ![s] = rotations]
     /\ UNCHANGED reported
  \/ UNCHANGED <<fd, reported>>

(* ReopenSink.Reopen: the new descriptor; or, if the sink is closed or the *)
(* open fails, no change and an error the caller logs.                     *)
Reopen(s) ==
  \/ /\ fd[s] # Closed
     /\ fd' = [fd EXCEPT ![s] = rotations]
     /\ UNCHANGED reported
  \/ /\ reported' = reported \cup {s}
     /\ UNCHANGED fd

ReopenMain ==
  /\ upc = "main" /\ upc' = "load"
  /\ Reopen(usink)
  /\ UNCHANGED <<rotVars, qlVars, usr1Ch, usink, relVars>>

(* Mutant: the query-log sink is the one opened at startup.                *)
LoadSinkOfStartup ==
  /\ upc = "load" /\ upc' = "reopen"
  /\ usink' = 0
  /\ UNCHANGED <<rotVars, fd, qlVars, usr1Ch, relVars, reported>>

LoadSink ==
  /\ upc = "load" /\ upc' = "reopen"
  /\ usink' = qlState
  /\ UNCHANGED <<rotVars, fd, qlVars, usr1Ch, relVars, reported>>

ReopenQueryLog ==
  /\ upc = "reopen" /\ upc' = "drain"
  /\ Reopen(usink)
  /\ UNCHANGED <<rotVars, qlVars, usr1Ch, usink, relVars>>

(* Mutant: the drain receives without a default case.                      *)
DrainSigusr1Blocks ==
  /\ upc = "drain" /\ upc' = "idle"
  /\ usr1Ch = 1
  /\ usr1Ch' = 0
  /\ usink' = Main
  /\ UNCHANGED <<rotVars, fd, qlVars, relVars, reported>>

DrainSigusr1 ==
  /\ upc = "drain" /\ upc' = "idle"
  /\ usr1Ch' = 0
  /\ usink' = Main
  /\ UNCHANGED <<rotVars, fd, qlVars, relVars, reported>>
----------------------------------------------------------------------------
(* reload(), when the query-log configuration changed: open the new sink,  *)
(* store logger and record, close the old sink.                            *)

OpenNewSink ==
  /\ reloads < MaxReloads
  /\ rpc = "idle" /\ rpc' = "storeLog"
  /\ reloads' = reloads + 1
  /\ fd' = [fd EXCEPT ![reloads + 1] = rotations]
  /\ UNCHANGED <<rotVars, qlVars, usrVars, reported>>

StoreQueryLog ==
  /\ rpc = "storeLog" /\ rpc' = "storeQLState"
  /\ queryLog' = reloads
  /\ UNCHANGED <<rotVars, fd, qlState, usrVars, reloads, reported>>

StoreQLState ==
  /\ rpc = "storeQLState" /\ rpc' = "closeOld"
  /\ qlState' = reloads
  /\ UNCHANGED <<rotVars, fd, queryLog, usrVars, reloads, reported>>

(* Sinks are numbered in the order they are installed.                     *)
CloseOldSink ==
  /\ rpc = "closeOld" /\ rpc' = "idle"
  /\ fd' = [fd EXCEPT ![reloads - 1] = Closed]
  /\ UNCHANGED <<rotVars, qlVars, usrVars, reloads, reported>>

RotationNext ==
  \/ Rotate \/ PostRotate
  \/ ReceiveSigusr1 \/ ReopenMain \/ LoadSink \/ ReopenQueryLog
  \/ DrainSigusr1
  \/ OpenNewSink \/ StoreQueryLog \/ StoreQLState \/ CloseOldSink

(* logrotate runs its postrotate script, the goroutines run; operators may *)
(* stop rotating and reloading.                                            *)
RotationFairness ==
  /\ WF_reopenVars(PostRotate)
  /\ WF_reopenVars(ReceiveSigusr1 \/ ReopenMain \/ LoadSink \/ ReopenQueryLog
               \/ DrainSigusr1)
  /\ WF_reopenVars(StoreQueryLog \/ StoreQLState \/ CloseOldSink)

RotationSpec == RotationInit /\ [][RotationNext]_reopenVars /\ RotationFairness
----------------------------------------------------------------------------
(* The types; qlState and queryLog are query-log sinks, never the main one.*)
RotationTypeOK ==
  /\ rotations \in 0..MaxRotations
  /\ rot \in {"idle", "moved"}
  /\ fd \in [Sinks -> 0..MaxRotations \cup {Closed}]
  /\ qlState \in 0..MaxReloads /\ queryLog \in 0..MaxReloads
  /\ usr1Ch \in 0..1
  /\ upc \in {"idle", "main", "load", "reopen", "drain"}
  /\ usink \in Sinks
  /\ rpc \in {"idle", "storeLog", "storeQLState", "closeOld"}
  /\ reloads \in 0..MaxReloads
  /\ reported \in SUBSET Sinks
  /\ crowded \in BOOLEAN /\ crossed \in BOOLEAN

(* When every rotation is handled the sink writes to the file its path     *)
(* names now, unless its Reopen failed and was reported.                   *)
OnLiveFile(s) == Handled => (fd[s] = rotations \/ s \in reported)

(* SIGUSR1 moves the main log to the new file, whatever reload does, if    *)
(* the rotation before it was handled when the rotation came.              *)
MainFollowsRotation == ~crowded => OnLiveFile(Main)

(* The query log in force is the one SIGUSR1 moved, however often reloads  *)
(* replaced it, before and while the rotation was handled: the only hole   *)
(* is a rotation that finds a new sink opened and not yet installed.       *)
QueryLogFollowsRotation ==
  (rpc = "idle" /\ ~crowded /\ ~crossed) => OnLiveFile(queryLog)

(* Every rotation comes to be handled.                                     *)
RotationHandled == (rot = "moved") ~> Handled
=============================================================================
