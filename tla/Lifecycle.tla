------------------------------ MODULE Lifecycle -----------------------------
(***************************************************************************)
(* run() of cmd/shadowdns/main.go from start to exit, with the listeners   *)
(* of internal/server/listener.go, the deferred clean-up in its order, the *)
(* signal goroutine and the PID file that the reload command reads.        *)
(* Several processes of the program share the machine's sockets and the    *)
(* PID file; each may be killed at any time.                               *)
(*                                                                         *)
(* What reload() does is Reload's subject, how the DoH server stops is     *)
(* DoHServer's: here a reload is in progress or not, and a service that is *)
(* told to stop stops.                                                     *)
(***************************************************************************)
EXTENDS Naturals, Sequences

CONSTANTS
  Procs,       \* process IDs
  Addrs,       \* the sequence of resolved listen addresses
  None,        \* no process: a free socket, no PID file
  Foreign,     \* another program
  Taken,       \* the sockets it holds
  Configured,  \* the optional servers that are configured
  Empty,       \* a PID file that was truncated and not yet written
  MaxHangups   \* SIGHUPs sent

ASSUME ProcsAssumption == {None, Foreign, Empty} \cap Procs = {}

(* ResolveListenAddrs reports an empty list as an error.                   *)
ASSUME AddrsAssumption ==
  Len(Addrs) \in Nat \ {0} /\ DOMAIN Addrs = 1 .. Len(Addrs)

VARIABLES
  proc,        \* the memory of each process
  sock,        \* the holder of each socket
  pidFile,
  cmd,         \* the PID the reload command has read, or None
  hangups

vars == <<proc, sock, pidFile, cmd, hangups>>

Services == {"api", "metrics", "doh"}

ASSUME ServicesAssumption == Configured \subseteq Services

Sockets  == {Addrs[i] : i \in DOMAIN Addrs} \X {"udp", "tcp"}

New == [pc |-> "idle", term |-> FALSE, at |-> 1, listeners |-> {},
        serving |-> {}, failed |-> FALSE, notified |-> FALSE, hup |-> FALSE,
        sigDone |-> FALSE, reload |-> "none", wrote |-> FALSE,
        sink |-> "none", up |-> {}, alone |-> TRUE]

Init ==
  /\ proc = [p \in Procs |-> New]
  /\ sock = [so \in Sockets |-> IF so \in Taken THEN Foreign ELSE None]
  /\ pidFile = None /\ cmd = None /\ hangups = 0

Running(p) == proc[p].pc \notin {"idle", "exited", "killed"}
(* p's sockets are bound, or were until it began to stop.                  *)
Bound(p)   == Running(p) /\ proc[p].listeners # {}
Free(so)   == sock[so] = None
----------------------------------------------------------------------------
Launch(p) ==
  /\ proc[p].pc = "idle"
  /\ proc' = [proc EXCEPT ![p].pc = "load"]
  /\ UNCHANGED <<sock, pidFile, cmd, hangups>>

(* Everything up to the query log's sink.                                  *)
LoadFails(p) ==
  /\ proc[p].pc = "load"
  /\ proc' = [proc EXCEPT ![p].pc = "exited"]
  /\ UNCHANGED <<sock, pidFile, cmd, hangups>>

(* Mutant: the removal of the PID file is deferred from the start.         *)
LoadOnlyRemovesPid(p) ==
  /\ proc[p].pc = "load"
  /\ proc' = [proc EXCEPT ![p].sink = "open", ![p].pc = "sink"]
  /\ pidFile' = None
  /\ UNCHANGED <<sock, cmd, hangups>>

(* The sink is open, and the addresses do not resolve or the run is dry.   *)
LoadOnly(p) ==
  /\ proc[p].pc = "load"
  /\ proc' = [proc EXCEPT ![p].sink = "open", ![p].pc = "sink"]
  /\ UNCHANGED <<sock, pidFile, cmd, hangups>>

(* The sink is open and the optional servers are started; the metrics      *)
(* server may fail to get its listener.  A server that ends by itself      *)
(* later is not told apart from one that is still up.                      *)
Load(p) ==
  /\ proc[p].pc = "load"
  /\ \E missing \in {{}, {"metrics"}} :
       proc' = [proc EXCEPT ![p].sink = "open", ![p].pc = "udp",
                            ![p].up = Configured \ missing]
  /\ UNCHANGED <<sock, pidFile, cmd, hangups>>
----------------------------------------------------------------------------
(* BindMany goes on to the next address; after the last, run() goes on     *)
(* when some pair was bound and returns an error otherwise.                *)
BoundSoFar(p, ls) ==
  IF proc[p].at < Len(Addrs)
  THEN proc' = [proc EXCEPT ![p].at = @ + 1, ![p].pc = "udp",
                            ![p].listeners = ls]
  ELSE IF ls = {}
  THEN proc' = [proc EXCEPT ![p].pc = "doh"]
  ELSE proc' = [q \in Procs |->
                  IF q = p
                  THEN [proc[p] EXCEPT
                          !.listeners = ls, !.pc = "pid",
                          !.alone = \A r \in Procs \ {p} : ~Bound(r)]
                  ELSE [proc[q] EXCEPT !.alone = FALSE]]

(* bindPair: the UDP half.                                                 *)
BindUDP(p) ==
  /\ proc[p].pc = "udp"
  /\ LET so == <<Addrs[proc[p].at], "udp">>
     IN IF Free(so)
        THEN /\ sock' = [sock EXCEPT ![so] = p]
             /\ proc' = [proc EXCEPT ![p].pc = "tcp"]
        ELSE UNCHANGED sock /\ BoundSoFar(p, proc[p].listeners)
  /\ UNCHANGED <<pidFile, cmd, hangups>>

(* Mutant: the UDP half stays open when the TCP half fails.                *)
BindTCPLeak(p) ==
  /\ proc[p].pc = "tcp"
  /\ LET a == Addrs[proc[p].at]
     IN IF Free(<<a, "tcp">>)
        THEN /\ sock' = [sock EXCEPT ![<<a, "tcp">>] = p]
             /\ BoundSoFar(p, proc[p].listeners \cup {a})
        ELSE /\ UNCHANGED sock
             /\ BoundSoFar(p, proc[p].listeners)
  /\ UNCHANGED <<pidFile, cmd, hangups>>

(* The TCP half; when it fails, the UDP half is closed.                    *)
BindTCP(p) ==
  /\ proc[p].pc = "tcp"
  /\ LET a == Addrs[proc[p].at]
     IN IF Free(<<a, "tcp">>)
        THEN /\ sock' = [sock EXCEPT ![<<a, "tcp">>] = p]
             /\ BoundSoFar(p, proc[p].listeners \cup {a})
        ELSE /\ sock' = [sock EXCEPT ![<<a, "udp">>] = None]
             /\ BoundSoFar(p, proc[p].listeners)
  /\ UNCHANGED <<pidFile, cmd, hangups>>
----------------------------------------------------------------------------
(* os.WriteFile truncates the file, then writes it; no file is configured, *)
(* or either step fails, and run() goes on.                                *)
TruncatePid(p) ==
  /\ proc[p].pc = "pid"
  /\ \/ /\ pidFile' = Empty
        /\ proc' = [proc EXCEPT ![p].pc = "write"]
     \/ /\ proc' = [proc EXCEPT ![p].pc = "signals"]
        /\ UNCHANGED pidFile
  /\ UNCHANGED <<sock, cmd, hangups>>

WritePid(p) ==
  /\ proc[p].pc = "write"
  /\ \/ /\ pidFile' = p
        /\ proc' = [proc EXCEPT ![p].wrote = TRUE, ![p].pc = "signals"]
     \/ /\ proc' = [proc EXCEPT ![p].pc = "signals"]
        /\ UNCHANGED pidFile
  /\ UNCHANGED <<sock, cmd, hangups>>

(* runSignalHandlers, then Serve starts a goroutine for each half.         *)
InstallHandlers(p) ==
  /\ proc[p].pc = "signals"
  /\ proc' = [proc EXCEPT ![p].notified = TRUE, ![p].reload = "idle",
                          ![p].serving = @ \cup (proc[p].listeners
                                                 \X {"udp", "tcp"}),
                          ![p].pc = "serve"]
  /\ UNCHANGED <<sock, pidFile, cmd, hangups>>
----------------------------------------------------------------------------
(* ActivateAndServe of one half returns an error, which goes to errCh.     *)
ListenerDies(p, so) ==
  /\ proc[p].pc = "serve" /\ so \in proc[p].serving
  /\ sock' = [sock EXCEPT ![so] = None]
  /\ proc' = [proc EXCEPT ![p].serving = @ \ {so}, ![p].failed = TRUE]
  /\ UNCHANGED <<pidFile, cmd, hangups>>

(* The select of Serve.                                                    *)
ServeEnds(p) ==
  /\ proc[p].pc = "serve"
  /\ proc[p].term \/ proc[p].failed
  /\ proc' = [proc EXCEPT ![p].pc = "close"]
  /\ UNCHANGED <<sock, pidFile, cmd, hangups>>

(* shutdownListeners closes the halves concurrently.                       *)
CloseListener(p, so) ==
  /\ proc[p].pc = "close" /\ so \in proc[p].serving
  /\ sock' = [sock EXCEPT ![so] = None]
  /\ proc' = [proc EXCEPT ![p].serving = @ \ {so}]
  /\ UNCHANGED <<pidFile, cmd, hangups>>

(* wg.Wait, and Serve returns; shutdownSignals: signal.Stop and cancel.    *)
ServeReturns(p) ==
  /\ proc[p].pc = "close" /\ proc[p].serving = {}
  /\ proc' = [proc EXCEPT ![p].notified = FALSE, ![p].sigDone = TRUE,
                          ![p].pc = "join"]
  /\ UNCHANGED <<sock, pidFile, cmd, hangups>>

(* wg.Wait: a reload in progress comes to its end first.                   *)
JoinSignals(p) ==
  /\ proc[p].pc = "join" /\ proc[p].reload = "ended"
  /\ proc' = [proc EXCEPT ![p].pc = "remove"]
  /\ UNCHANGED <<sock, pidFile, cmd, hangups>>
----------------------------------------------------------------------------
(* The deferred calls, last registered first.  The PID file is removed by  *)
(* its path, whatever it holds.                                            *)
RemovePid(p) ==
  /\ proc[p].pc = "remove"
  /\ pidFile' = IF proc[p].wrote THEN None ELSE pidFile
  /\ proc' = [proc EXCEPT ![p].pc = "doh"]
  /\ UNCHANGED <<sock, cmd, hangups>>

After == [doh |-> "metrics", metrics |-> "api", api |-> "sink"]

(* Mutant: the API and DoH servers only follow the process's context.      *)
StopServiceByContext(p, s) ==
  /\ proc[p].pc = s
  /\ s \in proc[p].up => s = "metrics" \/ proc[p].term
  /\ proc' = [proc EXCEPT ![p].up = @ \ {s}, ![p].pc = After[s]]
  /\ UNCHANGED <<sock, pidFile, cmd, hangups>>

(* The server's own context is cancelled and its end waited for; the       *)
(* metrics server is drained.                                              *)
StopService(p, s) ==
  /\ proc[p].pc = s
  /\ proc' = [proc EXCEPT ![p].up = @ \ {s}, ![p].pc = After[s]]
  /\ UNCHANGED <<sock, pidFile, cmd, hangups>>

(* run() returns, and its memory is gone.                                  *)
CloseSink(p) ==
  /\ proc[p].pc = "sink"
  /\ proc' = [proc EXCEPT ![p] =
                [New EXCEPT !.pc = "exited",
                            !.sink = IF proc[p].sink = "open" THEN "closed" ELSE "none",
                            !.up = proc[p].up, !.reload = proc[p].reload]]
  /\ UNCHANGED <<sock, pidFile, cmd, hangups>>
----------------------------------------------------------------------------
(* The SIGHUP goroutine: it empties the channel after a reload, and        *)
(* chooses freely when its context is done as well.                        *)
ReloadBegins(p) ==
  /\ Running(p) /\ proc[p].reload = "idle" /\ proc[p].hup
  /\ proc' = [proc EXCEPT ![p].reload = "busy", ![p].hup = FALSE]
  /\ UNCHANGED <<sock, pidFile, cmd, hangups>>

(* A reload may open a query log's sink or retire the one there is.        *)
ReloadEnds(p) ==
  /\ Running(p) /\ proc[p].reload = "busy"
  /\ \E ql \in {"none", "open"} :
       proc' = [proc EXCEPT ![p].reload = "idle", ![p].hup = FALSE,
                            ![p].sink = ql]
  /\ UNCHANGED <<sock, pidFile, cmd, hangups>>

SignalsEnd(p) ==
  /\ Running(p) /\ proc[p].reload = "idle"
  /\ proc[p].term \/ proc[p].sigDone
  /\ proc' = [proc EXCEPT ![p].reload = "ended"]
  /\ UNCHANGED <<sock, pidFile, cmd, hangups>>
----------------------------------------------------------------------------
(* SIGINT or SIGTERM, through signal.NotifyContext.                        *)
Terminate(p) ==
  /\ Running(p) /\ ~proc[p].term
  /\ proc' = [proc EXCEPT ![p].term = TRUE]
  /\ UNCHANGED <<sock, pidFile, cmd, hangups>>

(* The kernel closes the sockets of a process that dies.                   *)
Killed(p) ==
  /\ proc' = [proc EXCEPT ![p] = [New EXCEPT !.pc = "killed"]]
  /\ sock' = [so \in Sockets |-> IF sock[so] = p THEN None ELSE sock[so]]

Crash(p) ==
  /\ Running(p) /\ Killed(p)
  /\ UNCHANGED <<pidFile, cmd, hangups>>

(* SIGHUP without a handler ends a Go program.                             *)
Hangup(p) ==
  IF proc[p].notified
  THEN proc' = [proc EXCEPT ![p].hup = TRUE] /\ UNCHANGED sock
  ELSE Killed(p)

(* The reload command reads the PID file and sends the signal, which fails *)
(* when the process is gone.                                               *)
ReadPid ==
  /\ cmd = None /\ pidFile \in Procs /\ hangups < MaxHangups
  /\ cmd' = pidFile /\ hangups' = hangups + 1
  /\ UNCHANGED <<proc, sock, pidFile>>

SendHangup ==
  /\ cmd # None /\ cmd' = None
  /\ IF Running(cmd) THEN Hangup(cmd) ELSE UNCHANGED <<proc, sock>>
  /\ UNCHANGED <<pidFile, hangups>>
----------------------------------------------------------------------------
Main(p) ==
  \/ LoadFails(p) \/ LoadOnly(p) \/ Load(p) \/ BindUDP(p) \/ BindTCP(p)
  \/ TruncatePid(p) \/ WritePid(p) \/ InstallHandlers(p)
  \/ ServeEnds(p) \/ ServeReturns(p) \/ JoinSignals(p)
  \/ RemovePid(p) \/ CloseSink(p)
  \/ \E s \in Services : StopService(p, s)

Signals(p) == ReloadBegins(p) \/ ReloadEnds(p) \/ SignalsEnd(p)

Next ==
  \/ \E p \in Procs :
       \/ Launch(p) \/ Main(p) \/ Signals(p) \/ Terminate(p) \/ Crash(p)
       \/ \E so \in Sockets : ListenerDies(p, so) \/ CloseListener(p, so)
  \/ ReadPid \/ SendHangup

(* A goroutine that can go on goes on: a reload comes to its end, and a    *)
(* server that is told to stop stops within its shutdown timeout.          *)
Fairness ==
  \A p \in Procs :
    /\ WF_vars(Main(p))
    /\ WF_vars(ReloadEnds(p)) /\ WF_vars(SignalsEnd(p))
    /\ WF_vars(\E so \in Sockets : CloseListener(p, so))

Spec == Init /\ [][Next]_vars /\ Fairness
----------------------------------------------------------------------------
PidNamesServer ==
  \A p \in Procs :
    proc[p].pc = "serve" /\ proc[p].wrote /\ proc[p].alone => pidFile = p

PidMeansReady ==
  \A p \in Procs :
    pidFile = p /\ Running(p) =>
      /\ proc[p].pc \in {"signals", "serve"} =>
           \/ proc[p].failed
           \/ \E a \in proc[p].listeners :
                \A so \in {a} \X {"udp", "tcp"} : sock[so] = p
      /\ proc[p].notified
           \/ proc[p].pc \in {"signals", "join", "remove"}

(* The PID file names a serving process that wrote it for as long as no    *)
(* other process of the program holds a listener, or has closed its own    *)
(* and not exited yet: a stale file of a killed process is replaced, and a *)
(* second start that can bind nothing leaves the file alone (a predecessor *)
(* on its way out removes its successor's file, hence "alone").  And a     *)
(* file that names a running process promises its listeners ("Bind         *)
(* listeners before writing the PID file so the port is guaranteed to be   *)
(* available when the PID file appears on disk") and a SIGHUP handler; the *)
(* handler is missing only just after the file was written and from        *)
(* signal.Stop until the file is removed, where a reload command kills the *)
(* process.                                                                *)
PidFileTruth == PidNamesServer /\ PidMeansReady

(* When run() returns, on every path, the process has closed its sockets   *)
(* and its query log, its servers have ended and no reload is in progress. *)
NothingLeftBehind ==
  \A p \in Procs :
    proc[p].pc = "exited" =>
      /\ \A so \in Sockets : sock[so] # p
      /\ proc[p].sink # "open"
      /\ proc[p].up = {}
      /\ proc[p].reload \in {"none", "ended"}
      /\ pidFile # p

(* SIGTERM, or the death of one listener while the context is alive, ends  *)
(* the process.                                                            *)
StopsWhenTold ==
  \A p \in Procs :
    Running(p) /\ (proc[p].term \/ proc[p].failed) ~> ~Running(p)
=============================================================================
