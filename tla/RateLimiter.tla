---------------------------- MODULE RateLimiter -----------------------------
(***************************************************************************)
(* Limiter.Decide and its account table, for one client block.  A handler  *)
(* reads the clock once and then charges two accounts, the category's and  *)
(* the aggregate, in two critical sections; other handlers, with earlier   *)
(* or later clock readings, charge in between.                             *)
(*                                                                         *)
(* A shard's map and its linked list always change together, so a shard is *)
(* the sequence of its keys, most recently used first.  Time is in         *)
(* seconds.  A slip counter is kept modulo the cadence, so its wrap at     *)
(* 2^32 is left out.                                                       *)
(***************************************************************************)
EXTENDS Integers, Sequences

CONSTANTS
  Names,       \* (category, imputed name) pairs of responses
  All,         \* the key of the aggregate account
  Rate,        \* credits per second of each account; 0 is unlimited
  Window,      \* seconds
  Slip,        \* every Slip-th over-limit response is truncated; 0 is none
  LogOnly,     \* every response is delivered
  Cap,         \* accounts a shard holds
  Shard,       \* the shard of each key
  Handlers,    \* ServeDNS goroutines
  None,        \* no account
  MaxClock     \* bound: how far the clock runs

Keys == Names \cup {All}

ASSUME LimiterAssumption ==
  /\ Rate \in [Keys -> Nat]
  /\ Window \in Nat \ {0} /\ Cap \in Nat \ {0} /\ MaxClock \in Nat
  /\ Slip \in Nat /\ LogOnly \in BOOLEAN
  /\ All \notin Names

(* "from" and "within" belong to an observer: since "from" the account has *)
(* found "within" responses to be within the limit.                        *)
Account == [credit : Int, lastRefill : Nat, slip : Nat,
            from : Nat, within : Nat]

ASSUME NoneAssumption == None \notin Account

VARIABLES
  clock,
  acct,        \* the account of each key, or None
  lru,         \* the keys of each shard
  pc, name, now, catOver, catSlip,   \* the handlers: Decide's variables
  action       \* what the last Decide returned

tableVars == <<acct, lru>>
hdlVars == <<pc, name, now, catOver, catSlip, action>>
vars == <<clock, tableVars, hdlVars>>

Init ==
  /\ clock = 0
  /\ acct = [k \in Keys |-> None]
  /\ lru = [s \in {Shard[k] : k \in Keys} |-> <<>>]
  /\ pc = [h \in Handlers |-> "idle"]
  /\ name = [h \in Handlers |-> All]
  /\ now = [h \in Handlers |-> 0]
  /\ catOver = [h \in Handlers |-> FALSE]
  /\ catSlip = [h \in Handlers |-> 0]
  /\ action = "allow"
----------------------------------------------------------------------------
Ceiling(k) == Rate[k] * Window

Cadence == IF Slip = 0 THEN 1 ELSE Slip

AtMost(x, bound) == IF x > bound THEN bound ELSE x
AtLeast(x, bound) == IF x < bound THEN bound ELSE x

(* Mutant: an idle account saves up credit without bound.                  *)
RefilledUncapped(k, t) ==
  IF acct[k] = None THEN Ceiling(k)
  ELSE IF t > acct[k].lastRefill
       THEN acct[k].credit + (t - acct[k].lastRefill) * Rate[k]
       ELSE acct[k].credit

(* creditAccount.charge: a fresh account is full; an earlier clock reading *)
(* refills nothing and leaves lastRefill.                                  *)
Refilled(k, t) ==
  IF acct[k] = None THEN Ceiling(k)
  ELSE IF t > acct[k].lastRefill
       THEN AtMost(acct[k].credit + (t - acct[k].lastRefill) * Rate[k],
                   Ceiling(k))
       ELSE acct[k].credit

(* Mutant: the balance has no floor.                                       *)
DebitedUnfloored(k, t) == Refilled(k, t) - 1

Debited(k, t) == AtLeast(Refilled(k, t) - 1, -Ceiling(k))

Over(k, t) == Debited(k, t) < 0

Charged(k, t) ==
  LET hit   == IF Over(k, t) THEN 0 ELSE 1
      miss  == 1 - hit
      a     == acct[k]
  IN  IF a = None
      THEN [credit |-> Debited(k, t), lastRefill |-> t,
            slip |-> miss % Cadence,
            from |-> t, within |-> hit]
      ELSE [credit |-> Debited(k, t),
            lastRefill |-> AtLeast(a.lastRefill, t),
            slip |-> (a.slip + miss) % Cadence,
            from |-> a.from, within |-> a.within + hit]

(* The list without the element of a known key.                            *)
Others(s, k) ==
  LET at == CHOOSE i \in 1 .. Len(s) : s[i] = k
  IN  SubSeq(s, 1, at - 1) \o SubSeq(s, at + 1, Len(s))

(* Mutant: a full shard keeps its tail in the list.                        *)
TouchedForgets(k) ==
  LET s == lru[Shard[k]]
  IN  <<k>> \o IF acct[k] # None THEN Others(s, k) ELSE s

(* touch: a known key moves to the front; a new one is put there, after    *)
(* the tail was evicted if the shard is full.                              *)
Touched(k) ==
  LET s == lru[Shard[k]]
  IN  <<k>> \o (IF acct[k] # None THEN Others(s, k)
                ELSE IF Len(s) >= Cap THEN SubSeq(s, 1, Len(s) - 1)
                ELSE s)

Evicted(k) ==
  LET s == lru[Shard[k]]
  IN  IF acct[k] = None /\ Len(s) >= Cap THEN {s[Len(s)]} ELSE {}

(* table.charge, under the lock of the shard.                              *)
Charge(k, t) ==
  /\ lru' = [lru EXCEPT ![Shard[k]] = Touched(k)]
  /\ acct' = [x \in Keys |-> IF x = k THEN Charged(k, t)
                             ELSE IF x \in Evicted(k) THEN None
                             ELSE acct[x]]
----------------------------------------------------------------------------
Tick ==
  /\ clock < MaxClock
  /\ clock' = clock + 1
  /\ UNCHANGED <<tableVars, hdlVars>>

(* A response to a client that is not exempt.                              *)
Decide(h) ==
  /\ pc[h] = "idle" /\ pc' = [pc EXCEPT ![h] = "category"]
  /\ \E n \in Names : name' = [name EXCEPT ![h] = n]
  /\ now' = [now EXCEPT ![h] = clock]
  /\ UNCHANGED <<clock, tableVars, catOver, catSlip, action>>

ChargeCategory(h) ==
  /\ pc[h] = "category" /\ pc' = [pc EXCEPT ![h] = "all"]
  /\ IF Rate[name[h]] = 0
     THEN UNCHANGED <<tableVars, catOver, catSlip>>
     ELSE /\ Charge(name[h], now[h])
          /\ catOver' = [catOver EXCEPT ![h] = Over(name[h], now[h])]
          /\ catSlip' = [catSlip EXCEPT ![h] = Charged(name[h], now[h]).slip]
  /\ UNCHANGED <<clock, name, now, action>>

(* slipAction; the first over-limit response of an account is truncated.   *)
slipAction(count) ==
  IF Slip > 0 /\ count = 1 % Cadence THEN "slip" ELSE "drop"

(* What Decide returns; the category's account sets the pace when both     *)
(* accounts are over their limit.                                          *)
Verdict(h, allOver, allSlip) ==
  IF (~catOver[h] /\ ~allOver) \/ LogOnly
  THEN "allow"
  ELSE slipAction(IF catOver[h] THEN catSlip[h] ELSE allSlip)

(* The aggregate account is charged whatever the category's said.          *)
ChargeAll(h) ==
  /\ pc[h] = "all" /\ pc' = [pc EXCEPT ![h] = "idle"]
  /\ IF Rate[All] = 0
     THEN /\ action' = Verdict(h, FALSE, 0)
          /\ UNCHANGED tableVars
     ELSE /\ Charge(All, now[h])
          /\ action' = Verdict(h, Over(All, now[h]), Charged(All, now[h]).slip)
  /\ name' = [name EXCEPT ![h] = All]
  /\ now' = [now EXCEPT ![h] = 0]
  /\ catOver' = [catOver EXCEPT ![h] = FALSE]
  /\ catSlip' = [catSlip EXCEPT ![h] = 0]
  /\ UNCHANGED clock

(* The observer starts to count from the account's last refill.            *)
StartWindow(k) ==
  /\ acct[k] # None
  /\ acct' = [acct EXCEPT ![k].from = acct[k].lastRefill, ![k].within = 0]
  /\ UNCHANGED <<clock, lru, hdlVars>>

Next ==
  \/ Tick
  \/ \E h \in Handlers : Decide(h) \/ ChargeCategory(h) \/ ChargeAll(h)
  \/ \E k \in Keys : StartWindow(k)

Spec == Init /\ [][Next]_vars
----------------------------------------------------------------------------
(* The account table and Decide's variables have their types.              *)
TypeOK ==
  /\ clock \in 0 .. MaxClock
  /\ acct \in [Keys -> Account \cup {None}]
  /\ DOMAIN lru = {Shard[k] : k \in Keys}
  /\ \A s \in DOMAIN lru : lru[s] \in Seq(Keys)
  /\ pc \in [Handlers -> {"idle", "category", "all"}]
  /\ name \in [Handlers -> Keys]
  /\ now \in [Handlers -> 0 .. MaxClock]
  /\ catOver \in [Handlers -> BOOLEAN]
  /\ catSlip \in [Handlers -> Nat]
  /\ action \in {"allow", "drop", "slip"}

(* However handlers with earlier and later clock readings interleave, the  *)
(* responses that an account found within the limit since any moment of    *)
(* its life are at most a full window's credit and the credit regenerated  *)
(* since (charge: cap, floor, and no refill from an earlier reading).      *)
RateBound ==
  \A k \in Keys : acct[k] # None =>
    acct[k].within
      <= Ceiling(k) + Rate[k] * (acct[k].lastRefill - acct[k].from)

(* The floor of charge: however long a flood lasted, an account that was   *)
(* left alone for more than a window finds the next response within the    *)
(* limit.                                                                  *)
RecoversInWindow ==
  \A k \in Keys :
    acct[k] # None /\ Rate[k] > 0 /\ clock - acct[k].lastRefill > Window
      => ~Over(k, clock)

(* touch and evictTail: no shard exceeds its capacity, and its list holds  *)
(* exactly the keys that have an account, each once.                       *)
TableSound ==
  \A s \in DOMAIN lru :
    /\ Len(lru[s]) <= Cap
    /\ {lru[s][i] : i \in 1 .. Len(lru[s])}
         = {k \in Keys : Shard[k] = s /\ acct[k] # None}
    /\ \A i, j \in 1 .. Len(lru[s]) : lru[s][i] = lru[s][j] => i = j
=============================================================================
