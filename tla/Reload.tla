------------------------------- MODULE Reload -------------------------------
(***************************************************************************)
(* The SIGHUP reload of a running ShadowDNS process, interleaved with the  *)
(* goroutines that share its state: DNS query handlers, the ephemeral TXT  *)
(* API, the SIGUSR1 reopener, the garbage collector and the shutdown       *)
(* sequence of run().                                                      *)
(*                                                                         *)
(* A reload attempt has a number; everything the attempt creates (server   *)
(* state, GeoIP handles, rate limiter, query-log sink) is named by it, and *)
(* 0 names what startup created.  One step of this module is one operation *)
(* on a shared variable: an atomic pointer load or store, a channel        *)
(* operation, a mutex-protected method, or the fallible loading step       *)
(* between two of those.                                                   *)
(***************************************************************************)
EXTENDS Naturals

CONSTANTS
  Queries,      \* ServeDNS goroutines
  Puts,         \* PUT /v1/txt requests being handled
  Zones,        \* zone origins an operator may configure
  QLConfigs,    \* query-log configurations (the non-nil ones)
  Contents,     \* what the configuration files may say
  Signals,      \* the signals the environment sends
  None,         \* a nil pointer
  MaxAttempts   \* bound: how many reloads are attempted

(* What named.conf and shadowdns.yaml say, as far as reload() tells it     *)
(* apart: the origins to serve, whether geoip-directory is set, and the    *)
(* query-log block.                                                        *)
FileContent == [zones : SUBSET Zones, geo : BOOLEAN,
                ql : QLConfigs \cup {None}]

Ptr == Nat \cup {None}

(* The part of ServerState the other goroutines read.  "gen" is the        *)
(* attempt that built it, "geo" the handles its Matcher holds.             *)
StateRec == [gen : Nat, geo : Ptr, cfg : Contents]

ASSUME ContentsAssumption == Contents \subseteq FileContent

ASSUME SignalsAssumption == Signals \subseteq {"HUP", "USR1", "TERM"}

ASSUME NoneAssumption ==
  /\ None \notin QLConfigs
  /\ None \notin Nat
  /\ None \notin StateRec

ASSUME BoundAssumption == MaxAttempts \in Nat

VARIABLES
  unread,       \* no attempt has read the files since the last SIGHUP
  \* shared by the goroutines
  state,        \* Server.state
  limiter,      \* Server.RateLimiter
  queryLog,     \* Server.QueryLog: the sink the stored Logger writes to
  qlState,      \* the queryLogState record
  geo,          \* geoipRuntime
  notified,     \* the generation NOTIFY was last dispatched for
  eph,          \* Server.EphemeralStore
  withheld,     \* Server.withheldLogged
  hupCh,        \* signals in sighupCh, whose capacity is 1
  usr1Ch,       \* signals in sigusr1Ch, whose capacity is 1
  ctxDone,      \* the parent context is cancelled
  \* resources
  mapped,       \* GeoIP generations whose mmdb memory is mapped
  openSinks,    \* query-log sinks whose file is open
  \* the goroutines
  rpc, attempt, \* SIGHUP: where it is, how many reloads it has begun
  cfg, newGeo, cand, newLim, curQL, newSink,  \* the locals of reload()
  upc, usink,   \* SIGUSR1
  mpc,          \* run()
  qpc, qLim, qSt, qLog,  \* query handlers and what each has loaded
  put           \* API handlers: the origin checked and not yet stored

pubVars   == <<state, limiter, queryLog, qlState, geo, notified>>
storeVars == <<eph, withheld>>
sigVars   == <<hupCh, usr1Ch, ctxDone>>
resVars   == <<mapped, openSinks>>
locals    == <<cfg, newGeo, cand, newLim, curQL, newSink>>
relVars   == <<rpc, attempt, locals>>
usrVars   == <<upc, usink>>
qryVars   == <<qpc, qLim, qSt, qLog>>

vars == <<unread, pubVars, storeVars, sigVars, resVars, relVars, usrVars,
          mpc, qryVars, put>>
----------------------------------------------------------------------------
QLRec == [cfg : QLConfigs \cup {None}, sink : Ptr]

(* A TXT record; "at" is the generation current when it was stored.        *)
EphRec == [zone : Zones, at : Nat]

ReloadPCs == {"idle", "loadConf", "loadShadow", "loadGeo", "build",
              "newLimiter", "openLog", "swap", "clearWithheld",
              "storeLimiter", "storeLog", "storeQLState", "closeOld",
              "setGeo", "clearEph", "notify", "abort", "drain", "exit"}

QueryPCs == {"idle", "started", "loaded", "resolved", "logging", "answer"}

(* run() up to the start of the signal goroutines, the startup load having *)
(* succeeded: state, limiter, query log and GeoIP handles are generation 0.*)
Init ==
  /\ unread = FALSE
  /\ \E c \in Contents :
       /\ state = [gen |-> 0, geo |-> IF c.geo THEN 0 ELSE None, cfg |-> c]
       /\ queryLog = IF c.ql = None THEN None ELSE 0
       /\ qlState = [cfg |-> c.ql, sink |-> queryLog]
  /\ limiter = 0
  /\ geo = state.geo
  /\ notified = 0
  /\ eph = {} /\ withheld = {}
  /\ hupCh = 0 /\ usr1Ch = 0 /\ ctxDone = FALSE
  /\ mapped = {geo} \ {None}
  /\ openSinks = {queryLog} \ {None}
  /\ rpc = "idle" /\ attempt = 0
  /\ cfg = None /\ newGeo = None /\ cand = None /\ newLim = None
  /\ curQL = None /\ newSink = None
  /\ upc = "idle" /\ usink = None
  /\ mpc = "serving"
  /\ qpc = [q \in Queries |-> "idle"]
  /\ qLim = [q \in Queries |-> None]
  /\ qSt = [q \in Queries |-> None]
  /\ qLog = [q \in Queries |-> None]
  /\ put = [p \in Puts |-> None]
----------------------------------------------------------------------------
(* The environment.  The configuration files may change at any time, so    *)
(* each reading of them below may find any content.                        *)

(* signal.Notify delivers into a channel of capacity one and never blocks: *)
(* a signal that finds the channel full is dropped.                        *)
SendSighup ==
  /\ "HUP" \in Signals
  /\ mpc \in {"serving", "stopSignals"}
  /\ hupCh' = 1
  /\ unread' = TRUE
  /\ UNCHANGED <<pubVars, storeVars, usr1Ch, ctxDone, resVars, relVars,
                 usrVars, mpc, qryVars, put>>

SendSigusr1 ==
  /\ "USR1" \in Signals
  /\ mpc \in {"serving", "stopSignals"}
  /\ usr1Ch' = 1
  /\ UNCHANGED <<unread, pubVars, storeVars, hupCh, ctxDone, resVars,
                 relVars, usrVars, mpc, qryVars, put>>
----------------------------------------------------------------------------
(* The SIGHUP goroutine of runSignalHandlers, and reload().                *)

(* Mutant: the goroutines watch run()'s context only.                      *)
SigDoneParentOnly == ctxDone

(* sigCtx, a child of run()'s context that the shutdown function cancels.  *)
SigDone == ctxDone \/ mpc \in {"join", "defers", "exited"}

RStep(from, to) == rpc = from /\ rpc' = to

(* reload() returns: its local variables are gone.                         *)
Return ==
  /\ cfg' = None /\ newGeo' = None /\ cand' = None
  /\ newLim' = None /\ curQL' = None /\ newSink' = None

SighupExit ==
  /\ RStep("idle", "exit")
  /\ SigDone
  /\ UNCHANGED <<unread, pubVars, storeVars, sigVars, resVars, attempt, locals,
                 usrVars, mpc, qryVars, put>>

ReceiveSighup ==
  /\ attempt < MaxAttempts
  /\ RStep("idle", "loadConf")
  /\ hupCh = 1
  /\ hupCh' = 0
  /\ attempt' = attempt + 1
  /\ UNCHANGED <<unread, pubVars, storeVars, usr1Ch, ctxDone, resVars, locals,
                 usrVars, mpc, qryVars, put>>

(* The loading steps change no shared variable.  One that fails returns    *)
(* its error, and the deferred function of reload() runs next.             *)
LoadFrame == UNCHANGED <<pubVars, storeVars, sigVars, attempt, usrVars,
                         mpc, qryVars, put>>

Fail(from) ==
  /\ RStep(from, "abort")
  /\ UNCHANGED <<locals, resVars>>

LoadNamedConf ==
  /\ \/ /\ RStep("loadConf", "loadShadow")
        /\ cfg' \in Contents
        /\ UNCHANGED <<newGeo, cand, newLim, curQL, newSink, resVars>>
     \/ Fail("loadConf")
  /\ unread' = FALSE
  /\ LoadFrame

LoadShadowCfg ==
  /\ \/ RStep("loadShadow", "loadGeo") /\ UNCHANGED <<locals, resVars>>
     \/ Fail("loadShadow")
  /\ UNCHANGED unread
  /\ LoadFrame

(* view.LoadGeoIP returns both handles or neither, so a generation stands  *)
(* for the pair.  Without geoip-directory the handles are nil, or, when a  *)
(* view has a geo rule, the reload fails.                                  *)
LoadGeoIP ==
  /\ \/ /\ RStep("loadGeo", "build")
        /\ cfg.geo
        /\ newGeo' = attempt
        /\ mapped' = mapped \cup {attempt}
        /\ UNCHANGED <<cfg, cand, newLim, curQL, newSink, openSinks>>
     \/ /\ RStep("loadGeo", "build")
        /\ ~cfg.geo
        /\ UNCHANGED <<locals, resVars>>
     \/ Fail("loadGeo")
  /\ UNCHANGED unread
  /\ LoadFrame

BuildState ==
  /\ \/ /\ RStep("build", "newLimiter")
        /\ cand' = [gen |-> attempt, geo |-> newGeo, cfg |-> cfg]
        /\ UNCHANGED <<cfg, newGeo, newLim, curQL, newSink, resVars>>
     \/ Fail("build")
  /\ UNCHANGED unread
  /\ LoadFrame

NewLimiterLocals ==
  /\ RStep("newLimiter", "openLog")
  /\ newLim' = attempt
  /\ curQL' = qlState
  /\ UNCHANGED <<cfg, newGeo, cand, newSink>>

(* Mutant: the state is swapped before the query log is opened.            *)
NewLimiterSwapsEarly ==
  /\ NewLimiterLocals
  /\ state' = cand
  /\ UNCHANGED <<unread, limiter, queryLog, qlState, geo, notified,
                 storeVars, sigVars, resVars, attempt, usrVars, mpc, qryVars,
                 put>>

(* Mutant: the limiter is installed when it is made, before the state.     *)
NewLimiterInstalls ==
  /\ NewLimiterLocals
  /\ limiter' = attempt
  /\ UNCHANGED <<unread, state, queryLog, qlState, geo, notified, storeVars,
                 sigVars, resVars, attempt, usrVars, mpc, qryVars, put>>

(* Mutant: the new limiter is not kept.                                    *)
NewLimiterLost ==
  /\ RStep("newLimiter", "openLog")
  /\ curQL' = qlState
  /\ UNCHANGED <<unread, cfg, newGeo, cand, newLim, newSink, resVars>>
  /\ LoadFrame

(* Only this goroutine writes qlState, so its load is no step of its own.  *)
NewLimiter ==
  /\ \/ /\ RStep("newLimiter", "openLog")
        /\ newLim' = attempt
        /\ curQL' = qlState
        /\ UNCHANGED <<cfg, newGeo, cand, newSink, resVars>>
     \/ Fail("newLimiter")
  /\ UNCHANGED unread
  /\ LoadFrame

QLChanged == curQL.cfg # cfg.ql

NeedSink == QLChanged /\ cfg.ql # None

OpenQueryLog ==
  /\ \/ /\ RStep("openLog", "swap")
        /\ NeedSink
        /\ newSink' = attempt
        /\ openSinks' = openSinks \cup {attempt}
        /\ UNCHANGED <<cfg, newGeo, cand, newLim, curQL, mapped>>
     \/ /\ RStep("openLog", "swap")
        /\ ~NeedSink
        /\ UNCHANGED <<locals, resVars>>
     \/ Fail("openLog") /\ NeedSink
  /\ UNCHANGED unread
  /\ LoadFrame

(* SwapState is a pointer store followed by withheldLogged.Clear: two      *)
(* steps, since handlers run between them.                                 *)
SwapState ==
  /\ RStep("swap", "clearWithheld")
  /\ state' = cand
  /\ UNCHANGED <<unread, limiter, queryLog, qlState, geo, notified,
                 storeVars, sigVars, resVars, attempt, locals, usrVars, mpc,
                 qryVars, put>>

ClearWithheld ==
  /\ RStep("clearWithheld", "storeLimiter")
  /\ withheld' = {}
  /\ UNCHANGED <<unread, pubVars, eph, sigVars, resVars, attempt, locals,
                 usrVars, mpc, qryVars, put>>

StoreLimiter ==
  /\ RStep("storeLimiter", IF QLChanged THEN "storeLog" ELSE "setGeo")
  /\ limiter' = newLim
  /\ UNCHANGED <<unread, state, queryLog, qlState, geo, notified, storeVars,
                 sigVars, resVars, attempt, locals, usrVars, mpc, qryVars, put>>

(* Mutant: the superseded sink is closed as soon as the logger is stored.  *)
StoreQueryLogCloses ==
  /\ RStep("storeLog", "storeQLState")
  /\ queryLog' = newSink
  /\ openSinks' = openSinks \ {curQL.sink}
  /\ UNCHANGED <<unread, state, limiter, qlState, geo, notified, storeVars,
                 sigVars, mapped, attempt, locals, usrVars, mpc, qryVars, put>>

StoreQueryLog ==
  /\ RStep("storeLog", "storeQLState")
  /\ queryLog' = newSink
  /\ UNCHANGED <<unread, state, limiter, qlState, geo, notified, storeVars,
                 sigVars, resVars, attempt, locals, usrVars, mpc, qryVars, put>>

StoreQLState ==
  /\ RStep("storeQLState", "closeOld")
  /\ qlState' = [cfg |-> cfg.ql, sink |-> newSink]
  /\ UNCHANGED <<unread, state, limiter, queryLog, geo, notified, storeVars,
                 sigVars, resVars, attempt, locals, usrVars, mpc, qryVars, put>>

CloseOldSink ==
  /\ RStep("closeOld", "setGeo")
  /\ openSinks' = openSinks \ {curQL.sink}
  /\ UNCHANGED <<unread, pubVars, storeVars, sigVars, mapped, attempt, locals,
                 usrVars, mpc, qryVars, put>>

(* Mutant: the superseded handles are closed.                              *)
SetGeoCloses ==
  /\ RStep("setGeo", "clearEph")
  /\ geo' = newGeo
  /\ mapped' = mapped \ {geo}
  /\ UNCHANGED <<unread, state, limiter, queryLog, qlState, notified,
                 storeVars, sigVars, openSinks, attempt, locals, usrVars, mpc,
                 qryVars, put>>

(* The superseded handles are dropped, not closed.                         *)
SetGeo ==
  /\ RStep("setGeo", "clearEph")
  /\ geo' = newGeo
  /\ UNCHANGED <<unread, state, limiter, queryLog, qlState, notified,
                 storeVars, sigVars, resVars, attempt, locals, usrVars, mpc,
                 qryVars, put>>

(* Mutant: the ephemeral store survives the reload.                        *)
ClearEphemeralForgotten ==
  /\ RStep("clearEph", "notify")
  /\ UNCHANGED <<unread, pubVars, storeVars, sigVars, resVars, attempt,
                 locals, usrVars, mpc, qryVars, put>>

ClearEphemeral ==
  /\ RStep("clearEph", "notify")
  /\ eph' = {}
  /\ UNCHANGED <<unread, pubVars, withheld, sigVars, resVars, attempt, locals,
                 usrVars, mpc, qryVars, put>>

(* maybeDispatchNotifies: one fire-and-forget goroutine per secondary, if  *)
(* NOTIFY is enabled.  The drift checks that follow only log.              *)
DispatchNotifies ==
  /\ RStep("notify", "drain")
  /\ notified' \in {notified, cand.gen}
  /\ Return
  /\ UNCHANGED <<unread, state, limiter, queryLog, qlState, geo, storeVars,
                 sigVars, resVars, attempt, usrVars, mpc, qryVars, put>>

(* The deferred release of the handles a failed attempt opened.            *)
AbortReload ==
  /\ RStep("abort", "drain")
  /\ mapped' = mapped \ {newGeo}
  /\ Return
  /\ UNCHANGED <<unread, pubVars, storeVars, sigVars, openSinks, attempt,
                 usrVars, mpc, qryVars, put>>

(* Mutant: the drain receives without a default case.                      *)
DrainSighupBlocks ==
  /\ RStep("drain", "idle")
  /\ hupCh = 1
  /\ hupCh' = 0
  /\ UNCHANGED <<unread, pubVars, storeVars, usr1Ch, ctxDone, resVars,
                 attempt, locals, usrVars, mpc, qryVars, put>>

(* A signal that arrived while the reload ran is taken out of the channel. *)
DrainSighup ==
  /\ RStep("drain", "idle")
  /\ hupCh' = 0
  /\ UNCHANGED <<unread, pubVars, storeVars, usr1Ch, ctxDone, resVars,
                 attempt, locals, usrVars, mpc, qryVars, put>>

ReloadNext ==
  \/ LoadNamedConf \/ LoadShadowCfg \/ LoadGeoIP \/ BuildState \/ NewLimiter
  \/ OpenQueryLog \/ SwapState \/ ClearWithheld \/ StoreLimiter
  \/ StoreQueryLog \/ StoreQLState \/ CloseOldSink \/ SetGeo
  \/ ClearEphemeral \/ DispatchNotifies \/ AbortReload \/ DrainSighup
----------------------------------------------------------------------------
(* The SIGUSR1 goroutine: reopenLogSinks loads the active sink, then       *)
(* reopens it.                                                             *)

UsrFrame == UNCHANGED <<unread, pubVars, storeVars, hupCh, ctxDone, mapped,
                        relVars, mpc, qryVars, put>>

ReceiveSigusr1 ==
  /\ upc = "idle" /\ upc' = "load"
  /\ usr1Ch = 1
  /\ usr1Ch' = 0
  /\ UNCHANGED <<usink, openSinks>>
  /\ UsrFrame

LoadSink ==
  /\ upc = "load"
  /\ upc' = IF qlState.sink = None THEN "drain" ELSE "reopen"
  /\ usink' = qlState.sink
  /\ UNCHANGED <<usr1Ch, openSinks>>
  /\ UsrFrame

(* Mutant: a closed sink is opened again.                                  *)
ReopenResurrects(sink, open) == open \cup {sink}

(* ReopenSink.Reopen, one critical section.  Close is terminal: reopening  *)
(* a closed sink opens nothing, and an open one stays open, on a new file  *)
(* or, when the open fails, on the old one.                                *)
Reopen(sink, open) == open

ReopenQueryLog ==
  /\ upc = "reopen" /\ upc' = "drain"
  /\ openSinks' = Reopen(usink, openSinks)
  /\ usink' = None
  /\ UNCHANGED usr1Ch
  /\ UsrFrame

DrainSigusr1 ==
  /\ upc = "drain" /\ upc' = "idle"
  /\ usr1Ch' = 0
  /\ UNCHANGED <<usink, openSinks>>
  /\ UsrFrame

Sigusr1Exit ==
  /\ upc = "idle" /\ upc' = "exit"
  /\ SigDone
  /\ UNCHANGED <<usink, usr1Ch, openSinks>>
  /\ UsrFrame
----------------------------------------------------------------------------
(* run() from srv.Serve on.  Serve returns because the context was         *)
(* cancelled, or because a listener died while the context is still alive. *)

MainFrame == UNCHANGED <<unread, pubVars, storeVars, hupCh, usr1Ch, mapped,
                         relVars, usrVars, qryVars, put>>

(* SIGTERM or SIGINT.                                                      *)
CancelContext ==
  /\ "TERM" \in Signals
  /\ mpc = "serving" /\ ~ctxDone
  /\ ctxDone' = TRUE
  /\ UNCHANGED <<mpc, openSinks>>
  /\ MainFrame

ServeReturns ==
  /\ mpc = "serving" /\ mpc' = "stopSignals"
  /\ UNCHANGED <<ctxDone, openSinks>>
  /\ MainFrame

(* signal.Stop twice: no signal is delivered after this.                   *)
StopSignals ==
  /\ mpc = "stopSignals" /\ mpc' = "cancel"
  /\ UNCHANGED <<ctxDone, openSinks>>
  /\ MainFrame

CancelSignals ==
  /\ mpc = "cancel" /\ mpc' = "join"
  /\ UNCHANGED <<ctxDone, openSinks>>
  /\ MainFrame

(* Mutant: only the SIGUSR1 goroutine is waited for.                       *)
JoinOneOnly ==
  /\ mpc = "join" /\ mpc' = "defers"
  /\ upc = "exit"
  /\ UNCHANGED <<ctxDone, openSinks>>
  /\ MainFrame

(* wg.Wait: an in-flight reload is waited out.                             *)
Join ==
  /\ mpc = "join" /\ mpc' = "defers"
  /\ rpc = "exit" /\ upc = "exit"
  /\ UNCHANGED <<ctxDone, openSinks>>
  /\ MainFrame

(* The last deferred function of run(): close the active query-log sink.   *)
CloseActiveSink ==
  /\ mpc = "defers" /\ mpc' = "exited"
  /\ openSinks' = openSinks \ {qlState.sink}
  /\ UNCHANGED ctxDone
  /\ MainFrame

MainShutdown == StopSignals \/ CancelSignals \/ Join \/ CloseActiveSink
----------------------------------------------------------------------------
(* ServeDNS.  The rate limiter, the state snapshot and the query logger    *)
(* are three separate atomic loads, in this order.  A DoH handler may      *)
(* outlive run(), so a handler steps whatever mpc is.                      *)

QFrame == UNCHANGED <<unread, pubVars, eph, sigVars, resVars, relVars,
                      usrVars, mpc, put>>

QStep(q, from, to) == qpc[q] = from /\ qpc' = [qpc EXCEPT ![q] = to]

QDone(q, from) ==
  /\ QStep(q, from, "idle")
  /\ qLim' = [qLim EXCEPT ![q] = None]
  /\ qSt' = [qSt EXCEPT ![q] = None]
  /\ qLog' = [qLog EXCEPT ![q] = None]

QueryStart(q) ==
  /\ mpc # "exited"
  /\ QStep(q, "idle", "started")
  /\ qLim' = [qLim EXCEPT ![q] = limiter]
  /\ UNCHANGED <<qSt, qLog, withheld>>
  /\ QFrame

(* The replies that need no state: NOTIMP, FORMERR, BADVERS, CHAOS.        *)
QueryRefuseEarly(q) ==
  /\ QDone(q, "started")
  /\ UNCHANGED withheld
  /\ QFrame

QueryLoadState(q) ==
  /\ QStep(q, "started", "loaded")
  /\ qSt' = [qSt EXCEPT ![q] = state]
  /\ UNCHANGED <<qLim, qLog, withheld>>
  /\ QFrame

(* Matcher.Resolve reads the mmdb memory of the snapshot's handles; no     *)
(* view matching, or a transfer the ACL denies, ends the query.            *)
QueryResolveView(q) ==
  /\ \/ QStep(q, "loaded", "resolved") /\ UNCHANGED <<qLim, qSt, qLog>>
     \/ QDone(q, "loaded")
  /\ UNCHANGED withheld
  /\ QFrame

QueryLoadLog(q) ==
  /\ QStep(q, "resolved", IF queryLog = None THEN "answer" ELSE "logging")
  /\ qLog' = [qLog EXCEPT ![q] = queryLog]
  /\ UNCHANGED <<qLim, qSt, withheld>>
  /\ QFrame

(* ReopenSink.Write: on a closed sink the line is lost, nothing else.      *)
QueryWriteLog(q) ==
  /\ QStep(q, "logging", "answer")
  /\ UNCHANGED <<qLim, qSt, qLog, withheld>>
  /\ QFrame

(* The answer comes from the snapshot.  A backup zone may withhold a       *)
(* record, which logWithheld reports once per key; a key is abstracted to  *)
(* the origin it names.                                                    *)
QueryAnswer(q) ==
  /\ QDone(q, "answer")
  /\ \/ UNCHANGED withheld
     \/ \E z \in qSt[q].cfg.zones : withheld' = withheld \cup {z}
  /\ QFrame

Handler(q) ==
  \/ QueryStart(q) \/ QueryRefuseEarly(q) \/ QueryLoadState(q)
  \/ QueryResolveView(q) \/ QueryLoadLog(q) \/ QueryWriteLog(q)
  \/ QueryAnswer(q)
----------------------------------------------------------------------------
(* The ephemeral API.  handlePut checks the name against the origins of    *)
(* the current state, and stores it in a later step.                       *)

PFrame == UNCHANGED <<unread, pubVars, withheld, sigVars, resVars, relVars,
                      usrVars, mpc, qryVars>>

PutCheck(p) ==
  /\ put[p] = None
  /\ \E z \in state.cfg.zones : put' = [put EXCEPT ![p] = z]
  /\ UNCHANGED eph
  /\ PFrame

PutStore(p) ==
  /\ put[p] # None
  /\ put' = [put EXCEPT ![p] = None]
  /\ eph' = {e \in eph : e.zone # put[p]}
              \cup {[zone |-> put[p], at |-> state.gen]}
  /\ PFrame

(* handleDelete, and the expiry sweep.                                     *)
DeleteRecord(z) ==
  /\ \E e \in eph : e.zone = z
  /\ eph' = {e \in eph : e.zone # z}
  /\ UNCHANGED put
  /\ PFrame
----------------------------------------------------------------------------
(* The runtime cleanup of the mmdb reader (external): a generation nothing *)
(* refers to any more is unmapped.                                         *)

Reachable == {geo, state.geo, newGeo}
               \cup {qSt[q].geo : q \in {r \in Queries : qSt[r] # None}}

ReclaimGeo ==
  /\ \E g \in mapped \ Reachable : mapped' = mapped \ {g}
  /\ UNCHANGED <<unread, pubVars, storeVars, sigVars, openSinks, relVars,
                 usrVars, mpc, qryVars, put>>
----------------------------------------------------------------------------
Next ==
  \/ SendSighup \/ SendSigusr1
  \/ ReceiveSighup \/ ReloadNext \/ SighupExit
  \/ ReceiveSigusr1 \/ LoadSink \/ ReopenQueryLog \/ DrainSigusr1
  \/ Sigusr1Exit
  \/ CancelContext \/ ServeReturns \/ MainShutdown
  \/ \E q \in Queries : Handler(q)
  \/ \E p \in Puts : PutCheck(p) \/ PutStore(p)
  \/ \E z \in Zones : DeleteRecord(z)
  \/ ReclaimGeo

Spec == Init /\ [][Next]_vars

(* The Go scheduler runs every runnable goroutine, and the loading steps   *)
(* are finite file reads.  A select that has both a signal and the         *)
(* cancelled context ready picks either one; after signal.Stop at most one *)
(* more signal is pending, so weak fairness of leaving the loop suffices.  *)
(* Nothing is assumed of operators and clients.                            *)
Fairness ==
  /\ WF_vars(ReloadNext)
  /\ WF_vars(LoadSink \/ ReopenQueryLog \/ DrainSigusr1)
  /\ WF_vars(SighupExit) /\ WF_vars(Sigusr1Exit)
  /\ WF_vars(MainShutdown)

FairSpec == Spec /\ Fairness
----------------------------------------------------------------------------
(* The types of the shared variables and of each goroutine's locals.       *)
TypeOK ==
  /\ unread \in BOOLEAN
  /\ state \in StateRec
  /\ limiter \in Nat
  /\ queryLog \in Ptr
  /\ qlState \in QLRec
  /\ geo \in Ptr
  /\ notified \in Nat
  /\ eph \in SUBSET EphRec
  /\ withheld \in SUBSET Zones
  /\ hupCh \in 0..1 /\ usr1Ch \in 0..1 /\ ctxDone \in BOOLEAN
  /\ mapped \in SUBSET Nat
  /\ openSinks \in SUBSET Nat
  /\ rpc \in ReloadPCs
  /\ attempt \in Nat
  /\ cfg \in Contents \cup {None}
  /\ newGeo \in Ptr
  /\ cand \in StateRec \cup {None}
  /\ newLim \in Ptr
  /\ curQL \in QLRec \cup {None}
  /\ newSink \in Ptr
  /\ upc \in {"idle", "load", "reopen", "drain", "exit"}
  /\ usink \in Ptr
  /\ mpc \in {"serving", "stopSignals", "cancel", "join", "defers", "exited"}
  /\ qpc \in [Queries -> QueryPCs]
  /\ qLim \in [Queries -> Ptr]
  /\ qSt \in [Queries -> StateRec \cup {None}]
  /\ qLog \in [Queries -> Ptr]
  /\ put \in [Puts -> Zones \cup {None}]

(* A reload is all or nothing: whenever no reload is running, successful   *)
(* or failed, the state, the limiter, the GeoIP handles and the query log  *)
(* in force all come from one configuration, the state's.                  *)
Coherent ==
  rpc \in {"idle", "exit"} =>
    /\ limiter = state.gen
    /\ geo = state.geo
    /\ queryLog = qlState.sink
    /\ qlState.cfg = state.cfg.ql

(* No use after munmap: the handles of the published state, and of every   *)
(* snapshot a handler still resolves views with, are mapped.               *)
GeoAlive ==
  /\ state.geo \in mapped \cup {None}
  /\ \A q \in Queries :
       qpc[q] \notin {"idle", "started"} =>
         qSt[q].geo \in mapped \cup {None}

(* The logger handlers load, and the sink SIGUSR1 reopens, are open until  *)
(* run() closes the active sink: the superseded sink is closed last.       *)
ActiveSinkOpen ==
  mpc # "exited" => {queryLog, qlState.sink} \subseteq openSinks \cup {None}

(* No descriptor leak: an open sink is the active one, or one the running  *)
(* reload still has to install or to close.  After run() nothing is open.  *)
NoSinkLeak ==
  /\ openSinks \subseteq
       {qlState.sink}
         \cup (IF rpc \in {"swap", "clearWithheld", "storeLimiter",
                           "storeLog", "storeQLState"}
                THEN {newSink} ELSE {})
         \cup (IF rpc = "closeOld" THEN {curQL.sink} ELSE {})
  /\ mpc = "exited" => openSinks = {}

(* A handler may answer from a newer state than its limiter, never from an *)
(* older one: reload publishes the state before the limiter, and ServeDNS  *)
(* loads the limiter before the state.                                     *)
LimiterNotNewer ==
  \A q \in Queries :
    qpc[q] \notin {"idle", "started"} => qLim[q] <= qSt[q].gen

(* A secondary told by NOTIFY to transfer finds the announced generation,  *)
(* or a later one, already served: NOTIFY follows the swap.                *)
NotifyAfterPublish == notified <= state.gen

(* Ephemeral records do not survive a reload: after it, every record was   *)
(* stored under the state now served.                                      *)
EphemeralCleared ==
  rpc \in {"idle", "exit"} => \A e \in eph : e.at = state.gen

(* The join in run() orders every write of a reload before the deferred    *)
(* cleanup: once the join is passed, nothing is published any more.        *)
NoPublishAfterJoin ==
  [][(mpc \in {"defers", "exited"}) => UNCHANGED pubVars]_vars

(* Shutdown is not blocked for ever by the two signal goroutines, whether  *)
(* the context was cancelled or a listener died under a live context.      *)
ShutdownTerminates == (mpc = "stopSignals") ~> (mpc = "exited")

(* Every reload, failed ones included, gets back to waiting for a signal.  *)
ReloadTerminates == (rpc = "loadConf") ~> (rpc = "idle")

(* docs/operations/reloading.md: every SIGHUP invokes the configuration    *)
(* loader again.  So when the reload goroutine waits and no signal is      *)
(* pending, some attempt has read the files after the last SIGHUP.         *)
EverySighupLoads ==
  (rpc = "idle" /\ hupCh = 0) => ~unread
=============================================================================
