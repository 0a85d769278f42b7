-------------------------------- MODULE Notify ------------------------------
(***************************************************************************)
(* NOTIFY after a start or a reload: dispatchNotifies of main.go starts a  *)
(* goroutine for each zone, name server and glue address, and each of them *)
(* sends, waits and sends again (internal/transfer/notify.go) under one    *)
(* deadline.  Goroutines of several dispatches run side by side.           *)
(*                                                                         *)
(* Time is the age of each goroutine in seconds.  The exchange itself is   *)
(* external (dns.Exchange): it takes at most ExchangeTimeout and ignores   *)
(* the context.                                                            *)
(***************************************************************************)
EXTENDS Integers, Sequences

CONSTANTS
  Loads,            \* the root zones of each dispatch, with their views
  Backoff,          \* transfer.DefaultBackoff
  Deadline,         \* notifyDeadline
  ExchangeTimeout   \* of the dns package's default client

ASSUME NotifyAssumption ==
  /\ Backoff \in Seq(Nat) /\ Deadline \in Nat /\ ExchangeTimeout \in Nat
  /\ \A d \in DOMAIN Loads : \A z \in Loads[d] : \A g \in z.glue :
       g = [host |-> g.host, ip |-> g.ip]

(* Exchanges that time out, with the waits between them, stay within the   *)
(* deadline until the last wait: b[j] is the longest it takes to come to   *)
(* the end of wait j.  With the constants of the code, 0, 3 and 7 of 10    *)
(* seconds; the last wait may end at 13.                                   *)
ASSUME BudgetAssumption ==
  \E b \in [0 .. Len(Backoff) - 1 -> 0 .. Deadline - 1] :
    \A j \in DOMAIN b :
      b[j] = IF j = 0 THEN 0 ELSE b[j - 1] + ExchangeTimeout + Backoff[j]

VARIABLES
  todo,        \* what each dispatch has not come to
  seen,        \* the keys it has seen
  sends,       \* its goroutines, by key
  cancelled    \* the dispatches whose context is done

notifyVars == <<todo, seen, sends, cancelled>>
----------------------------------------------------------------------------
(* The name servers of the zone that are not its primary, and their        *)
(* addresses in the zone's own records.                                    *)
NotifyTargets(z) == z.ns \ {z.mname}
resolveInZoneGlue(z, host) == {g.ip : g \in {g \in z.glue : g.host = host}}

(* What the loops of dispatchNotifies go through, in any order; a target   *)
(* without glue gives nothing.                                             *)
Items(z) ==
  UNION {{[view |-> z.view, origin |-> z.origin, host |-> h, ip |-> ip] :
            ip \in resolveInZoneGlue(z, h)} : h \in NotifyTargets(z)}

(* Mutant: zones are not told apart.                                       *)
KeyOfHost(i) == <<i.host, i.ip>>

(* The key of the cross-view de-duplication.                               *)
Key(i) == <<i.origin, i.host, i.ip>>

Dispatches == DOMAIN Loads
Keys == {<<i.origin, i.host, i.ip>> :
           i \in UNION {Items(z) : z \in UNION {Loads[d] : d \in Dispatches}}}

Idle == [pc |-> "off", starts |-> 0, attempts |-> 0, age |-> 0,
         cut |-> FALSE]

NotifyInit ==
  /\ todo = [d \in Dispatches |->
               IF d = 1 THEN UNION {Items(z) : z \in Loads[1]} ELSE {}]
  /\ seen = [d \in Dispatches |-> {}]
  /\ sends = [d \in Dispatches |-> [k \in Keys |-> Idle]]
  /\ cancelled = {}
----------------------------------------------------------------------------
(* A reload dispatches when the dispatch before it has gone through its    *)
(* zones; goroutines of that one may still run.  A last reload may come    *)
(* after its context is done.                                              *)
Reload(d) ==
  /\ d > 1 /\ todo[d - 1] = {}
  /\ todo[d] = {} /\ seen[d] = {}
  /\ todo' = [todo EXCEPT ![d] = UNION {Items(z) : z \in Loads[d]}]
  /\ UNCHANGED <<seen, sends, cancelled>>

dispatchNotifies(d, i) ==
  /\ i \in todo[d]
  /\ todo' = [todo EXCEPT ![d] = @ \ {i}]
  /\ seen' = [seen EXCEPT ![d] = @ \cup {Key(i)}]
  /\ sends' = IF Key(i) \in seen[d] THEN sends
              ELSE [sends EXCEPT
                      ![d][<<i.origin, i.host, i.ip>>].pc = "check",
                      ![d][<<i.origin, i.host, i.ip>>].starts = @ + 1]
  /\ UNCHANGED cancelled
----------------------------------------------------------------------------
(* The loop of sendNotifyWithBackoff.  Its context is done when the        *)
(* deadline has come or the dispatch's context is cancelled.               *)
Done(d, k) == d \in cancelled \/ sends[d][k].age >= Deadline

(* The goroutine ends; cut says that a cancelled context ended it.         *)
Ends(d, k) ==
  sends' = [sends EXCEPT ![d][k].pc = "ended",
                         ![d][k].cut = d \in cancelled]

Check(d, k) ==
  /\ sends[d][k].pc = "check"
  /\ IF Done(d, k) THEN Ends(d, k)
     ELSE sends' = [sends EXCEPT ![d][k].pc = "exchange",
                                 ![d][k].attempts = @ + 1]
  /\ UNCHANGED <<todo, seen, cancelled>>

(* dns.Exchange: any reply is a success.                                   *)
Reply(d, k) ==
  /\ sends[d][k].pc = "exchange"
  /\ \E t \in 0..ExchangeTimeout :
       sends' = [sends EXCEPT ![d][k].pc = "answered", ![d][k].age = @ + t]
  /\ UNCHANGED <<todo, seen, cancelled>>

(* No reply in time, or an error at once; after the last attempt the       *)
(* goroutine gives up.                                                     *)
NoReply(d, k) ==
  /\ sends[d][k].pc = "exchange"
  /\ \E t \in 0..ExchangeTimeout :
       sends' = [sends EXCEPT
                   ![d][k].pc = IF sends[d][k].attempts <= Len(Backoff)
                                THEN "wait" ELSE "ended",
                   ![d][k].age = @ + t]
  /\ UNCHANGED <<todo, seen, cancelled>>

(* Mutant: the wait is a sleep, and only the loop's head sees the context. *)
WaitOverSleep(d, k) ==
  /\ sends[d][k].pc = "wait"
  /\ sends' = [sends EXCEPT
                 ![d][k].age = @ + Backoff[sends[d][k].attempts],
                 ![d][k].pc = "check"]
  /\ UNCHANGED <<todo, seen, cancelled>>

(* The select between the timer and the context: the timer wins when it is *)
(* due by the deadline.                                                    *)
WaitOver(d, k) ==
  /\ sends[d][k].pc = "wait"
  /\ sends[d][k].age + Backoff[sends[d][k].attempts] <= Deadline
  /\ sends' = [sends EXCEPT
                 ![d][k].age = @ + Backoff[sends[d][k].attempts],
                 ![d][k].pc = "check"]
  /\ UNCHANGED <<todo, seen, cancelled>>

WaitCut(d, k) ==
  /\ sends[d][k].pc = "wait"
  /\ \/ d \in cancelled /\ Ends(d, k)
     \/ /\ sends[d][k].age + Backoff[sends[d][k].attempts] >= Deadline
        /\ sends' = [sends EXCEPT
                       ![d][k].pc = "ended", ![d][k].cut = d \in cancelled,
                       ![d][k].age = IF @ > Deadline THEN @ ELSE Deadline]
  /\ UNCHANGED <<todo, seen, cancelled>>

(* SIGTERM ends every context; the death of a listener only the one that   *)
(* runSignalHandlers gives to reloads.                                     *)
Shutdown ==
  /\ cancelled = {}
  /\ cancelled' \in {Dispatches, Dispatches \ {1}}
  /\ UNCHANGED <<todo, seen, sends>>

NotifyNext ==
  \/ \E d \in Dispatches :
       \/ Reload(d)
       \/ \E i \in todo[d] : dispatchNotifies(d, i)
       \/ \E k \in Keys : \/ Check(d, k) \/ Reply(d, k) \/ NoReply(d, k)
                          \/ WaitOver(d, k) \/ WaitCut(d, k)
  \/ Shutdown

NotifySpec == NotifyInit /\ [][NotifyNext]_notifyVars
----------------------------------------------------------------------------
(* A dispatch that went through its zones has started one goroutine for    *)
(* each zone and each glue address of each of its secondaries, however     *)
(* many views the zone is in and however many zones share a name server,   *)
(* and no other (openspec/specs/zone-transfer: "at most one NOTIFY send    *)
(* sequence (including retries) per startup or reload event").             *)
NotifiedOnce ==
  \A d \in Dispatches : \A k \in Keys :
    todo[d] = {} /\ seen[d] # {} =>
      sends[d][k].starts =
        IF \E z \in Loads[d] :
             /\ k[1] = z.origin /\ k[2] \in z.ns /\ k[2] # z.mname
             /\ [host |-> k[2], ip |-> k[3]] \in z.glue
        THEN 1 ELSE 0

GivesUpLate ==
  \A d \in Dispatches : \A k \in Keys :
    LET g == sends[d][k]
    IN g.pc = "ended" /\ ~g.cut =>
         \/ g.attempts = Len(Backoff) + 1
         \/ g.attempts = Len(Backoff) /\ g.age >= Deadline

SendBounded ==
  \A d \in Dispatches : \A k \in Keys :
    sends[d][k].age <= Deadline + ExchangeTimeout

(* The one deadline for all attempts is neither too short nor too long.  A *)
(* goroutine that was not cancelled gives up only after every attempt or   *)
(* at the deadline, which never costs more than the last retry; and "a     *)
(* hung NS target cannot leak a goroutine": none outlives its deadline by  *)
(* more than one exchange.                                                 *)
RetryBudget == GivesUpLate /\ SendBounded
=============================================================================
