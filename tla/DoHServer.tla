----------------------------- MODULE DoHServer ------------------------------
(***************************************************************************)
(* doh.Server.runWith: the HTTP-01 listener, the HTTPS listener and the    *)
(* certificate loop, and how they stop together (internal/doh/server.go,   *)
(* internal/httpserver).  Processes are killed and started again, and the  *)
(* machine may lose power.                                                 *)
(*                                                                         *)
(* A goroutine that can take a step takes it before time passes; what may  *)
(* take time are the steps of an attempt to obtain a certificate and the   *)
(* draining of connections.                                                *)
(***************************************************************************)
EXTENDS CertManager

CONSTANTS
  ShutdownTimeout,    \* httpserver.ShutdownTimeout
  Horizon,            \* the last moment at which anything goes wrong
  MaxStarts           \* how often the process is started

ASSUME ShutdownAssumption == ShutdownTimeout \in Nat \ {0}

VARIABLES
  stop,      \* the context of the process is done
  main,      \* where runWith is
  lst,       \* the two httpserver.Serve goroutines
  drainBy,   \* the deadlines of their drains
  errCh,     \* the number of results in their channel
  got,       \* the number of results collected
  deadline,  \* the timer of the renewal wait
  ended,     \* when runWith called cancel (for ShutdownBounded only)
  lost,      \* power losses that undid the rename of the key file
  starts

srvMem == <<stop, main, lst, drainBy, errCh, got, deadline, ended>>
vars   == <<cmVars, srvMem, lost, starts>>

Listeners == {"challenge", "https"}

Init ==
  /\ CMInit
  /\ stop = FALSE /\ main = "select"
  /\ lst = [l \in Listeners |-> "starting"]
  /\ drainBy = [l \in Listeners |-> 0]
  /\ errCh = 0 /\ got = 0 /\ deadline = 0 /\ ended = 0
  /\ lost = 0 /\ starts = 1

Up == main # "down"

(* The listeners' side of the certificate loop.                            *)
Loop ==
  /\ Up
  /\ \/ WaitOver \/ WaitCancelled \/ Check \/ LoadKey \/ PersistKey
     \/ Register \/ Present \/ Validate(lst["challenge"] = "serving")
     \/ Store \/ ObtainFails
  /\ UNCHANGED <<srvMem, lost, starts>>
----------------------------------------------------------------------------
Bind(l) ==
  /\ Up /\ lst[l] = "starting"
  /\ lst' = [lst EXCEPT ![l] = "serving"]
  /\ UNCHANGED <<cmVars, stop, main, drainBy, errCh, got, deadline, ended,
                 lost, starts>>

(* Mutant: room for one result only.                                       *)
errChCapOne == 1

(* The capacity of errCh.                                                  *)
errChCap == 2

(* A goroutine sends to errCh, which blocks it as long as errCh is full.   *)
Send == errCh < errChCap /\ errCh' = errCh + 1

(* The listener's address is taken, or it fails later.                     *)
ServeFails(l) ==
  /\ Up /\ lst[l] \in {"starting", "serving"} /\ now <= Horizon
  /\ lst' = [lst EXCEPT ![l] = "ended"]
  /\ Send
  /\ UNCHANGED <<cmVars, stop, main, drainBy, got, deadline, ended, lost,
                 starts>>

(* Serve sees the cancelled context and drains.                            *)
DrainBegins(l) ==
  /\ Up /\ cancelled /\ lst[l] \in {"starting", "serving"}
  /\ lst' = [lst EXCEPT ![l] = "draining"]
  /\ drainBy' = [drainBy EXCEPT ![l] = now + ShutdownTimeout]
  /\ UNCHANGED <<cmVars, stop, main, errCh, got, deadline, ended, lost,
                 starts>>

(* The last connection is idle, or the drain's deadline passed.            *)
DrainEnds(l) ==
  /\ Up /\ lst[l] = "draining"
  /\ lst' = [lst EXCEPT ![l] = "ended"]
  /\ Send
  /\ drainBy' = [drainBy EXCEPT ![l] = 0]
  /\ UNCHANGED <<cmVars, stop, main, got, deadline, ended, lost, starts>>
----------------------------------------------------------------------------
(* The process is told to stop.  runCtx is a child of its context, so the  *)
(* listeners and the certificate loop see it as soon as runWith does.      *)
Stop ==
  /\ Up /\ ~stop /\ now <= Horizon
  /\ stop' = TRUE /\ cancelled' = TRUE
  /\ UNCHANGED <<now, memory, disk, minted, accounts, main, lst, drainBy,
                 errCh, got, deadline, ended, lost, starts>>

(* The select: the stop, or a result taken from the channel.               *)
Select ==
  /\ main = "select"
  /\ \/ stop /\ main' = "cancel" /\ UNCHANGED errCh
     \/ errCh > 0 /\ main' = "resend" /\ errCh' = errCh - 1
  /\ UNCHANGED <<cmVars, stop, lst, drainBy, got, deadline, ended, lost,
                 starts>>

(* The result goes back to the channel, for the collector below.           *)
Resend ==
  /\ main = "resend"
  /\ Send
  /\ main' = "cancel"
  /\ UNCHANGED <<cmVars, stop, lst, drainBy, got, deadline, ended, lost,
                 starts>>

Cancel ==
  /\ main = "cancel"
  /\ cancelled' = TRUE
  /\ deadline' = now + ShutdownTimeout /\ ended' = now
  /\ main' = "collect"
  /\ UNCHANGED <<now, memory, disk, minted, accounts, stop, lst, drainBy,
                 errCh, got, lost, starts>>

(* Mutant: the deadline starts when the listeners are done.                *)
CollectSequential ==
  /\ main = "collect" /\ errCh > 0
  /\ errCh' = errCh - 1 /\ got' = got + 1
  /\ main' = IF got' = 2 THEN "renew" ELSE "collect"
  /\ deadline' = now + ShutdownTimeout
  /\ UNCHANGED <<cmVars, stop, lst, drainBy, ended, lost, starts>>

Collect ==
  /\ main = "collect" /\ errCh > 0
  /\ errCh' = errCh - 1 /\ got' = got + 1
  /\ main' = IF got' = 2 THEN "renew" ELSE "collect"
  /\ UNCHANGED <<cmVars, stop, lst, drainBy, deadline, ended, lost,
                 starts>>

RenewWait ==
  /\ main = "renew"
  /\ pc = "ended" \/ now >= deadline
  /\ main' = "returned"
  /\ UNCHANGED <<cmVars, stop, lst, drainBy, errCh, got, deadline, ended,
                 lost, starts>>
----------------------------------------------------------------------------
Fresh ==
  /\ stop' = FALSE
  /\ lst' = [l \in Listeners |-> "starting"]
  /\ drainBy' = [l \in Listeners |-> 0]
  /\ errCh' = 0 /\ got' = 0 /\ deadline' = 0 /\ ended' = 0

(* A kill leaves the file system as it is; a power loss may leave what it  *)
(* was before the key was renamed into place.                              *)
Crash ==
  /\ Up /\ now <= Horizon
  /\ main' = "down"
  /\ \E k \in keyLog :
       /\ keyFile' = k /\ keyLog' = {k}
       /\ lost' = lost + IF k # keyFile THEN 1 ELSE 0
  /\ Gone
  /\ Fresh
  /\ UNCHANGED <<now, readable, minted, accounts, starts>>

(* The process exits once runWith returned, and is started again.          *)
Restart ==
  /\ main \in {"down", "returned"} /\ starts < MaxStarts
  /\ Started
  /\ Fresh /\ main' = "select"
  /\ starts' = starts + 1
  /\ UNCHANGED <<now, disk, minted, accounts, lost>>

Disturb ==
  /\ now <= Horizon
  /\ DisturbKeyFile
  /\ UNCHANGED <<srvMem, lost, starts>>

(* A goroutine of runWith or of a listener has a step to take.             *)
ServerDue ==
  \/ main = "select" /\ (stop \/ errCh > 0)
  \/ main = "resend" /\ errCh < errChCap
  \/ main = "cancel"
  \/ main = "collect" /\ errCh > 0
  \/ main = "renew" /\ (pc = "ended" \/ now >= deadline)
  \/ \E l \in Listeners :
       \/ lst[l] = "starting"
       \/ lst[l] = "serving" /\ cancelled
       \/ lst[l] = "draining" /\ now >= drainBy[l] /\ errCh < errChCap

Tick ==
  /\ now < Horizon + 2 * ShutdownTimeout
  /\ Up => ~LoopDue /\ ~ServerDue
  /\ now' = now + 1
  /\ busy' = busy + IF Up /\ Obtaining /\ cert # None THEN 1 ELSE 0
  /\ UNCHANGED <<cancelled, pc, wake, cert, fails, cached, loaded, token,
                 disk, minted, accounts, srvMem, lost, starts>>

Step(l) == Bind(l) \/ DrainBegins(l) \/ DrainEnds(l)

Next ==
  \/ Loop
  \/ \E l \in Listeners : Bind(l) \/ ServeFails(l) \/ DrainBegins(l)
                          \/ DrainEnds(l)
  \/ Stop \/ Select \/ Resend \/ Cancel \/ Collect \/ RenewWait
  \/ Crash \/ Restart \/ Disturb \/ Tick

(* The goroutines of the server run and time passes; nothing is assumed of *)
(* the attempts to obtain a certificate, which may hang for ever.          *)
Fairness ==
  /\ WF_vars(Tick)
  /\ WF_vars(Select) /\ WF_vars(Resend) /\ WF_vars(Cancel)
  /\ WF_vars(Collect) /\ WF_vars(RenewWait)
  /\ WF_vars(Up /\ (WaitOver \/ WaitCancelled \/ Check)
             /\ UNCHANGED <<srvMem, lost, starts>>)
  /\ \A l \in Listeners : WF_vars(Step(l))

Spec == Init /\ [][Next]_vars /\ Fairness
----------------------------------------------------------------------------
(* One ACME account is all this installation ever creates, through failed  *)
(* attempts, lost answers, kills and restarts and an unreadable key file:  *)
(* a second one takes a power loss that undid the rename of a new key      *)
(* (loadOrCreateAccountKey: "so a transient problem cannot be mistaken for *)
(* 'missing' and silently churn ACME accounts").                           *)
OneAccount == Cardinality(accounts) <= 1 + lost

(* runWith returns within one ShutdownTimeout of its cancellation, however *)
(* the drains of the two listeners and a hung attempt at a certificate     *)
(* overlap ("keeping the worst-case graceful shutdown within a single      *)
(* httpserver.ShutdownTimeout budget rather than summing").                *)
ShutdownBounded ==
  main \in {"collect", "renew"} => now <= ended + ShutdownTimeout

(* A stop request, or the failure of one listener, ends runWith, even when *)
(* an attempt at a certificate never returns and whenever the two results  *)
(* reach the channel (unless the process is killed first): "errCh has      *)
(* capacity 2 [...], so the re-send never blocks".                         *)
RunReturns ==
  (main = "select" /\ (stop \/ \E l \in Listeners : lst[l] = "ended"))
    ~> main \in {"returned", "down"}
=============================================================================
