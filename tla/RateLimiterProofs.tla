------------------------- MODULE RateLimiterProofs --------------------------
(***************************************************************************)
(* The bound on what an account lets through and the bound on its recovery *)
(* time, for every set of names and handlers, every rate, window and table *)
(* size.  Neither is inductive: an account that may have hoarded credit    *)
(* could let too much through later.  AccountSound adds what the account   *)
(* still holds to what it let through, and bounds the balance on both      *)
(* sides.                                                                  *)
(***************************************************************************)
EXTENDS RateLimiter, SequenceTheorems, TLAPS

AccountSound(k, a) ==
  /\ a.credit <= Ceiling(k)
  /\ -Ceiling(k) <= a.credit
  /\ a.from <= a.lastRefill
  /\ a.within + AtLeast(a.credit, 0)
       <= Ceiling(k) + Rate[k] * (a.lastRefill - a.from)

(* The inductive invariant.                                                *)
LimiterInv ==
  /\ clock \in Nat
  /\ acct \in [Keys -> Account \cup {None}]
  /\ name \in [Handlers -> Keys]
  /\ now \in [Handlers -> Nat]
  /\ \A k \in Keys : acct[k] # None => AccountSound(k, acct[k])
----------------------------------------------------------------------------
(* rate*window is a natural number, and positive for a limited account.    *)
LEMMA CeilingNat ==
  ASSUME NEW k \in Keys
  PROVE  /\ Rate[k] \in Nat
         /\ Ceiling(k) \in Nat
         /\ Rate[k] > 0 => Ceiling(k) >= 1
<1>1. Rate[k] \in Nat /\ Window \in Nat /\ Window >= 1
  BY LimiterAssumption
<1>2. \A r, w \in Nat : r * w \in Nat /\ (r > 0 /\ w >= 1 => r * w >= 1)
  <2> SUFFICES ASSUME NEW r \in Nat, NEW w \in Nat
               PROVE  r * w \in Nat /\ (r > 0 /\ w >= 1 => r * w >= 1)
    OBVIOUS
  <2>1. r * w \in Nat
    OBVIOUS
  <2>2. ASSUME r > 0, w >= 1  PROVE r * w >= 1
    BY <2>2
  <2> QED
    BY <2>1, <2>2
<1> QED
  BY <1>1, <1>2 DEF Ceiling

(* Regenerating credit over a and then over b regenerates it over a + b.   *)
LEMMA Distributes ==
  \A r, a, b \in Int : r * (a + b) = r * a + r * b
OBVIOUS

(* creditAccount.charge keeps an account sound whatever clock reading the  *)
(* handler comes with.                                                     *)
LEMMA ChargedSound ==
  ASSUME NEW k \in Keys, NEW t \in Nat, Rate[k] > 0, LimiterInv
  PROVE  Charged(k, t) \in Account /\ AccountSound(k, Charged(k, t))
<1> DEFINE a == acct[k]
           r == Rate[k]
           C == Ceiling(k)
<1>1. r \in Nat /\ r > 0 /\ C \in Nat /\ C >= 1
  BY CeilingNat
<1>2. Cadence \in Nat \ {0}
  BY LimiterAssumption DEF Cadence
<1>3. CASE a = None
  <2>1. Debited(k, t) = C - 1 /\ ~Over(k, t)
    BY <1>1, <1>3 DEF Debited, Refilled, Over, AtLeast
  <2>2. Charged(k, t) = [credit |-> C - 1, lastRefill |-> t,
                         slip |-> 0 % Cadence, from |-> t, within |-> 1]
    BY <2>1, <1>3 DEF Charged
  <2>3. 0 % Cadence \in Nat
    BY <1>2
  <2>4. Charged(k, t) \in Account
    BY <2>2, <2>3, <1>1 DEF Account
  <2>5. r * (t - t) = 0
    BY <1>1
  <2> QED
    BY <2>2, <2>4, <2>5, <1>1 DEF AccountSound, AtLeast
<1>4. CASE a # None
  <2>1. a \in Account /\ AccountSound(k, a)
    BY <1>4 DEF LimiterInv
  <2>2. /\ a.credit \in Int /\ a.lastRefill \in Nat /\ a.slip \in Nat
        /\ a.from \in Nat /\ a.within \in Nat
    BY <2>1 DEF Account
  <2> DEFINE L == AtLeast(a.lastRefill, t)
             x == Refilled(k, t)
             g == r * (L - a.lastRefill)
  <2>3. L \in Nat /\ L >= a.lastRefill /\ L >= t
    BY <2>2 DEF AtLeast
  <2>4. g \in Nat
    BY <2>2, <2>3, <1>1
  <2>5. x \in Int /\ x <= C /\ x <= a.credit + g /\ -C <= x
    <3>1. CASE t > a.lastRefill
      <4>1. L = t
        BY <3>1, <2>2 DEF AtLeast
      <4>2. x = AtMost(a.credit + (t - a.lastRefill) * r, C)
        BY <3>1, <1>4 DEF Refilled
      <4>3. (t - a.lastRefill) * r = g
        BY <4>1, <2>2, <1>1
      <4> HIDE DEF g, x, L, C
      <4> QED
        BY <4>2, <4>3, <2>1, <2>2, <2>4, <1>1 DEF AtMost, AccountSound, C
    <3>2. CASE ~(t > a.lastRefill)
      <4>1. x = a.credit
        BY <3>2, <1>4 DEF Refilled
      <4> HIDE DEF g, x
      <4> QED
        BY <4>1, <2>1, <2>2, <2>4, <1>1 DEF AccountSound
    <3> QED
      BY <3>1, <3>2
  <2> DEFINE d == Debited(k, t)
  <2>6. d \in Int /\ -C <= d /\ d <= C /\ d <= x
        /\ (d >= 0 => d = x - 1)
    <3> HIDE DEF x
    <3> QED
      BY <2>5, <1>1 DEF Debited, AtLeast, x
  <2>7. a.within + AtLeast(a.credit, 0) + g <= C + r * (L - a.from)
    <3>1. r * (L - a.from) = r * (a.lastRefill - a.from) + g
      <4>1. L - a.from = (a.lastRefill - a.from) + (L - a.lastRefill)
        BY <2>2, <2>3
      <4>2. a.lastRefill - a.from \in Int /\ L - a.lastRefill \in Int
        BY <2>2, <2>3
      <4> QED
        BY <4>1, <4>2, Distributes, <1>1
    <3>2. a.within + AtLeast(a.credit, 0)
            <= C + r * (a.lastRefill - a.from)
      BY <2>1 DEF AccountSound
    <3>3. r * (a.lastRefill - a.from) \in Int /\ AtLeast(a.credit, 0) \in Int
      BY <2>2, <1>1 DEF AtLeast
    <3> DEFINE p == r * (a.lastRefill - a.from)
               q == r * (L - a.from)
    <3> HIDE DEF p, q, g, L, r, C
    <3> QED
      BY <3>1, <3>2, <3>3, <2>2, <2>4, <1>1 DEF p, q
  <2>8. a.from <= L
    BY <2>1, <2>2, <2>3 DEF AccountSound
  <2> DEFINE hit == IF Over(k, t) THEN 0 ELSE 1
             b == Charged(k, t)
  <2>9. /\ b.credit = d /\ b.lastRefill = L /\ b.from = a.from
        /\ b.within = a.within + hit
        /\ b = [credit |-> d, lastRefill |-> L,
                slip |-> (a.slip + (1 - hit)) % Cadence,
                from |-> a.from, within |-> a.within + hit]
    BY <1>4 DEF Charged
  <2>10. b \in Account
    <3>1. hit \in {0, 1}
      OBVIOUS
    <3>2. (a.slip + (1 - hit)) % Cadence \in Nat
      BY <3>1, <2>2, <1>2
    <3> HIDE DEF hit, d, L, b
    <3> QED
      BY <3>1, <3>2, <2>9, <2>2, <2>3, <2>6 DEF Account
  <2>11. hit + AtLeast(d, 0) <= AtLeast(a.credit, 0) + g
    <3>1. Over(k, t) <=> d < 0
      BY DEF Over
    <3> HIDE DEF d, x, g
    <3> QED
      BY <3>1, <2>2, <2>4, <2>5, <2>6 DEF AtLeast
  <2>12. a.within + hit + AtLeast(d, 0) <= C + r * (L - a.from)
    <3>1. hit \in {0, 1} /\ AtLeast(d, 0) \in Int /\ AtLeast(a.credit, 0) \in Int
      <4> HIDE DEF d
      <4> QED
        BY <2>2, <2>6 DEF AtLeast
    <3>2. r * (L - a.from) \in Int
      BY <2>2, <2>3, <1>1
    <3> DEFINE q == r * (L - a.from)
               u == AtLeast(d, 0)
               v == AtLeast(a.credit, 0)
    <3>3. /\ hit + u <= v + g /\ a.within + v + g <= C + q
          /\ u \in Int /\ v \in Int /\ q \in Int
      BY <2>7, <2>11, <3>1, <3>2
    <3>4. a.within + hit + u <= C + q
      <4> HIDE DEF q, u, v, g, hit, C
      <4> QED
        BY <3>1, <3>3, <2>2, <2>4, <1>1
    <3> QED
      BY <3>4
  <2>13. AccountSound(k, b)
    <3> HIDE DEF hit, d, L, b
    <3> QED
      BY <2>6, <2>8, <2>9, <2>12 DEF AccountSound
  <2> QED
    BY <2>10, <2>13
<1> QED
  BY <1>3, <1>4

(* No account exists before the first response.                            *)
LEMMA InitLimiterInv == Init => LimiterInv
BY DEF Init, LimiterInv, Keys

(* table.charge, which touches the charged account and the evicted one.    *)
LEMMA ChargeKeepsAccounts ==
  ASSUME LimiterInv, NEW k \in Keys, NEW t \in Nat, Rate[k] > 0, Charge(k, t)
  PROVE  /\ acct' \in [Keys -> Account \cup {None}]
         /\ \A x \in Keys : acct'[x] # None => AccountSound(x, acct'[x])
<1>1. Charged(k, t) \in Account /\ AccountSound(k, Charged(k, t))
  BY ChargedSound
<1>2. acct' = [x \in Keys |-> IF x = k THEN Charged(k, t)
                              ELSE IF x \in Evicted(k) THEN None
                              ELSE acct[x]]
  BY DEF Charge
<1>3. acct \in [Keys -> Account \cup {None}]
  BY DEF LimiterInv
<1>4. ASSUME NEW x \in Keys
      PROVE  /\ acct'[x] \in Account \cup {None}
             /\ acct'[x] # None => AccountSound(x, acct'[x])
  BY <1>1, <1>2, <1>3 DEF LimiterInv
<1> QED
  BY <1>2, <1>4

(* Every step of a handler, of the clock and of the observer.              *)
LEMMA NextLimiterInv == LimiterInv /\ [Next]_vars => LimiterInv'
<1> SUFFICES ASSUME LimiterInv, [Next]_vars
             PROVE  LimiterInv'
  OBVIOUS
<1>1. CASE Tick
  BY <1>1 DEF Tick, LimiterInv, tableVars, hdlVars, AccountSound, Ceiling
<1>2. ASSUME NEW h \in Handlers, Decide(h)
      PROVE  LimiterInv'
  BY <1>2 DEF Decide, LimiterInv, tableVars, AccountSound, Ceiling, Keys
<1>3. ASSUME NEW h \in Handlers, ChargeCategory(h)
      PROVE  LimiterInv'
  <2>1. clock' = clock /\ name' = name /\ now' = now
    BY <1>3 DEF ChargeCategory
  <2>2. CASE Rate[name[h]] = 0
    BY <1>3, <2>1, <2>2 DEF ChargeCategory, LimiterInv, tableVars,
                            AccountSound, Ceiling
  <2>3. CASE Rate[name[h]] # 0
    <3>1. name[h] \in Keys /\ now[h] \in Nat
      BY DEF LimiterInv
    <3>2. Rate[name[h]] > 0
      BY <3>1, <2>3, CeilingNat
    <3>3. Charge(name[h], now[h])
      BY <1>3, <2>3 DEF ChargeCategory
    <3>4. /\ acct' \in [Keys -> Account \cup {None}]
          /\ \A x \in Keys : acct'[x] # None => AccountSound(x, acct'[x])
      BY <3>1, <3>2, <3>3, ChargeKeepsAccounts
    <3> QED
      BY <2>1, <3>4 DEF LimiterInv, AccountSound, Ceiling
  <2> QED
    BY <2>2, <2>3
<1>4. ASSUME NEW h \in Handlers, ChargeAll(h)
      PROVE  LimiterInv'
  <2>1. /\ clock' = clock
        /\ name' \in [Handlers -> Keys] /\ now' \in [Handlers -> Nat]
    BY <1>4 DEF ChargeAll, LimiterInv, Keys
  <2>2. CASE Rate[All] = 0
    BY <1>4, <2>1, <2>2 DEF ChargeAll, LimiterInv, tableVars,
                            AccountSound, Ceiling
  <2>3. CASE Rate[All] # 0
    <3>1. All \in Keys /\ now[h] \in Nat
      BY DEF LimiterInv, Keys
    <3>2. Rate[All] > 0
      BY <3>1, <2>3, CeilingNat
    <3>3. Charge(All, now[h])
      BY <1>4, <2>3 DEF ChargeAll
    <3>4. /\ acct' \in [Keys -> Account \cup {None}]
          /\ \A x \in Keys : acct'[x] # None => AccountSound(x, acct'[x])
      BY <3>1, <3>2, <3>3, ChargeKeepsAccounts
    <3> QED
      BY <2>1, <3>4 DEF LimiterInv, AccountSound, Ceiling
  <2> QED
    BY <2>2, <2>3
<1>5. ASSUME NEW k \in Keys, StartWindow(k)
      PROVE  LimiterInv'
  <2> DEFINE a == acct[k]
             b == [a EXCEPT !.from = a.lastRefill, !.within = 0]
  <2>1. a \in Account /\ AccountSound(k, a)
    BY <1>5 DEF StartWindow, LimiterInv
  <2>2. /\ a.credit \in Int /\ a.lastRefill \in Nat /\ a.slip \in Nat
        /\ a.from \in Nat /\ a.within \in Nat
    BY <2>1 DEF Account
  <2>3. acct' = [acct EXCEPT ![k] = b]
    BY <1>5 DEF StartWindow, LimiterInv
  <2>4. b \in Account /\ b.credit = a.credit /\ b.lastRefill = a.lastRefill
        /\ b.from = a.lastRefill /\ b.within = 0
    BY <2>1, <2>2 DEF Account
  <2>5. AccountSound(k, b)
    <3>1. Rate[k] \in Nat /\ Ceiling(k) \in Nat
      BY CeilingNat
    <3>2. Rate[k] * (a.lastRefill - a.lastRefill) = 0
      BY <3>1, <2>2
    <3> HIDE DEF b
    <3> QED
      BY <2>1, <2>2, <2>4, <3>1, <3>2 DEF AccountSound, AtLeast
  <2>6. \A x \in Keys : acct'[x] # None => AccountSound(x, acct'[x])
    <3> HIDE DEF b
    <3> QED
      BY <2>3, <2>5 DEF LimiterInv
  <2>7. clock' = clock /\ name' = name /\ now' = now
    BY <1>5 DEF StartWindow, hdlVars
  <2>8. acct' \in [Keys -> Account \cup {None}]
    <3> HIDE DEF b
    <3> QED
      BY <2>3, <2>4 DEF LimiterInv
  <2> QED
    BY <2>6, <2>7, <2>8 DEF LimiterInv, AccountSound, Ceiling
<1>6. CASE UNCHANGED vars
  BY <1>6 DEF vars, tableVars, hdlVars, LimiterInv, AccountSound, Ceiling
<1> QED
  BY <1>1, <1>2, <1>3, <1>4, <1>5, <1>6 DEF Next

(* The inductive invariant holds throughout.                               *)
LEMMA LimiterInvariance == Spec => []LimiterInv
<1>1. Init => LimiterInv
  BY InitLimiterInv
<1>2. LimiterInv /\ [Next]_vars => LimiterInv'
  BY NextLimiterInv
<1> QED
  BY <1>1, <1>2, PTL DEF Spec
----------------------------------------------------------------------------
(* No interleaving of handlers, whatever their clock readings, lets an     *)
(* account find more than window*rate + rate*elapsed responses within the  *)
(* limit (creditAccount.charge).                                           *)
THEOREM RateBoundHolds == Spec => []RateBound
<1>1. LimiterInv => RateBound
  <2> SUFFICES ASSUME LimiterInv, NEW k \in Keys, acct[k] # None
               PROVE  acct[k].within <= Ceiling(k)
                        + Rate[k] * (acct[k].lastRefill - acct[k].from)
    BY DEF RateBound
  <2>1. acct[k] \in Account /\ AccountSound(k, acct[k])
    BY DEF LimiterInv
  <2>2. /\ acct[k].credit \in Int /\ acct[k].within \in Nat
        /\ acct[k].lastRefill \in Nat /\ acct[k].from \in Nat
    BY <2>1 DEF Account
  <2>3. Rate[k] \in Nat /\ Ceiling(k) \in Nat
    BY CeilingNat
  <2>4. AtLeast(acct[k].credit, 0) >= 0 /\ AtLeast(acct[k].credit, 0) \in Int
    BY <2>2 DEF AtLeast
  <2> QED
    BY <2>1, <2>2, <2>3, <2>4 DEF AccountSound
<1> QED
  BY <1>1, LimiterInvariance, PTL

(* However long a flood lasted, an account left alone for more than a      *)
(* window is within its limit again (the floor of creditAccount.charge).   *)
THEOREM RecoveryHolds == Spec => []RecoversInWindow
<1>1. LimiterInv => RecoversInWindow
  <2> SUFFICES ASSUME LimiterInv, NEW k \in Keys, acct[k] # None,
                      Rate[k] > 0, clock - acct[k].lastRefill > Window
               PROVE  ~Over(k, clock)
    BY DEF RecoversInWindow
  <2>1. acct[k] \in Account /\ AccountSound(k, acct[k])
    BY DEF LimiterInv
  <2>2. acct[k].credit \in Int /\ acct[k].lastRefill \in Nat /\ clock \in Nat
    BY <2>1 DEF Account, LimiterInv
  <2>3. Rate[k] \in Nat /\ Ceiling(k) \in Nat /\ Ceiling(k) >= 1
        /\ Window \in Nat
    BY CeilingNat, LimiterAssumption
  <2> DEFINE e == clock - acct[k].lastRefill
             g == e * Rate[k]
  <2>4. e \in Nat /\ e >= Window + 1
    BY <2>2, <2>3
  <2>5. g \in Int /\ g >= Ceiling(k) + 1
    <3>1. \A r, w, n \in Nat : r > 0 /\ n >= w + 1 => n * r >= r * w + 1
      <4> SUFFICES ASSUME NEW r \in Nat, NEW w \in Nat, NEW n \in Nat,
                          r > 0, n >= w + 1
                   PROVE  n * r >= r * w + 1
        OBVIOUS
      <4>1. (n - w) * r = n * r - r * w
        OBVIOUS
      <4>2. (n - w) * r >= 1
        OBVIOUS
      <4>3. n * r \in Int /\ r * w \in Int
        OBVIOUS
      <4> QED
        BY <4>1, <4>2, <4>3
    <3>2. e * Rate[k] >= Rate[k] * Window + 1
      BY <3>1, <2>3, <2>4
    <3>3. g \in Int
      BY <2>3, <2>4
    <3> QED
      BY <3>2, <3>3 DEF Ceiling
  <2>6. Refilled(k, clock) = AtMost(acct[k].credit + g, Ceiling(k))
    BY <2>2, <2>3, <2>4 DEF Refilled
  <2>7. acct[k].credit >= -Ceiling(k)
    BY <2>1, <2>2, <2>3 DEF AccountSound
  <2>8. Refilled(k, clock) \in Int /\ Refilled(k, clock) >= 1
    <3> HIDE DEF g, e
    <3> QED
      BY <2>2, <2>3, <2>5, <2>6, <2>7 DEF AtMost
  <2> QED
    BY <2>3, <2>8 DEF Over, Debited, AtLeast
<1> QED
  BY <1>1, LimiterInvariance, PTL
----------------------------------------------------------------------------
(* The account table.  TableInv adds the types of the lists to TableSound; *)
(* that a charged account is one, and not None, is LimiterInv's part.      *)
Elements(s) == {s[i] : i \in 1 .. Len(s)}

Injective(s) == \A i, j \in 1 .. Len(s) : s[i] = s[j] => i = j

Listed(s) == {k \in Keys : Shard[k] = s /\ acct[k] # None}

TableInv ==
  /\ DOMAIN lru = {Shard[k] : k \in Keys}
  /\ \A s \in DOMAIN lru :
       /\ lru[s] \in Seq(Keys)
       /\ Len(lru[s]) <= Cap
       /\ Elements(lru[s]) = Listed(s)
       /\ Injective(lru[s])

(* A list with a new first element.                                        *)
LEMMA PushFront ==
  ASSUME NEW s \in Seq(Keys), NEW k \in Keys, Injective(s), k \notin Elements(s)
  PROVE  /\ <<k>> \o s \in Seq(Keys)
         /\ Len(<<k>> \o s) = Len(s) + 1
         /\ Elements(<<k>> \o s) = Elements(s) \cup {k}
         /\ Injective(<<k>> \o s)
<1> DEFINE t == <<k>> \o s
<1>1. /\ t \in Seq(Keys) /\ Len(t) = Len(s) + 1 /\ Len(s) \in Nat
      /\ t[1] = k
      /\ \A i \in 2 .. Len(s) + 1 : t[i] = s[i - 1]
  OBVIOUS
<1> HIDE DEF t
<1>2. \A i \in 1 .. Len(s) : t[i + 1] = s[i]
  BY <1>1
<1>3. Elements(t) = Elements(s) \cup {k}
  <2>1. ASSUME NEW x \in Elements(t) PROVE x \in Elements(s) \cup {k}
    <3>1. PICK i \in 1 .. Len(t) : x = t[i]
      BY DEF Elements
    <3>2. i = 1 \/ (i \in 2 .. Len(s) + 1 /\ i - 1 \in 1 .. Len(s))
      BY <1>1
    <3> QED
      BY <1>1, <3>1, <3>2 DEF Elements
  <2>2. ASSUME NEW x \in Elements(s) PROVE x \in Elements(t)
    <3>1. PICK i \in 1 .. Len(s) : x = s[i]
      BY DEF Elements
    <3>2. i + 1 \in 1 .. Len(t)
      BY <1>1
    <3> QED
      BY <1>2, <3>1, <3>2 DEF Elements
  <2>3. k \in Elements(t)
    BY <1>1 DEF Elements
  <2> QED
    BY <2>1, <2>2, <2>3
<1>4. Injective(t)
  <2> SUFFICES ASSUME NEW i \in 1 .. Len(t), NEW j \in 1 .. Len(t), t[i] = t[j]
               PROVE  i = j
    BY DEF Injective
  <2>1. \A n \in 1 .. Len(t) :
          n = 1 \/ (n - 1 \in 1 .. Len(s) /\ t[n] = s[n - 1])
    BY <1>1
  <2>2. \A n \in 1 .. Len(s) : s[n] # k
    BY DEF Elements
  <2>3. CASE i = 1 \/ j = 1
    BY <1>1, <2>1, <2>2, <2>3
  <2>4. CASE i # 1 /\ j # 1
    <3>1. s[i - 1] = s[j - 1] /\ i - 1 \in 1 .. Len(s) /\ j - 1 \in 1 .. Len(s)
      BY <2>1, <2>4
    <3>2. i - 1 = j - 1
      BY <3>1 DEF Injective
    <3> QED
      BY <3>2
  <2> QED
    BY <2>3, <2>4
<1> QED
  BY <1>1, <1>3, <1>4 DEF t

(* A list without one of its elements, given by its position.              *)
LEMMA RemoveOne ==
  ASSUME NEW s \in Seq(Keys), Injective(s), NEW at \in 1 .. Len(s),
         NEW t, t = SubSeq(s, 1, at - 1) \o SubSeq(s, at + 1, Len(s))
  PROVE  /\ t \in Seq(Keys)
         /\ Len(t) = Len(s) - 1
         /\ Elements(t) = Elements(s) \ {s[at]}
         /\ Injective(t)
<1> DEFINE n == Len(s)
           a == SubSeq(s, 1, at - 1)
           b == SubSeq(s, at + 1, n)
<1>1. n \in Nat /\ at \in 1 .. n /\ \A i \in 1 .. n : s[i] \in Keys
  OBVIOUS
<1>2. /\ a \in Seq(Keys) /\ Len(a) = at - 1
      /\ \A i \in 1 .. at - 1 : a[i] = s[i]
  BY <1>1, SubSeqProperties
<1>3. /\ b \in Seq(Keys) /\ Len(b) = n - at
      /\ \A i \in 1 .. n - at : b[i] = s[at + i]
  <2>1. at + 1 \in Int /\ \A i \in at + 1 .. n : s[i] \in Keys
    BY <1>1
  <2>2. /\ b \in Seq(Keys)
        /\ Len(b) = IF at + 1 <= n THEN n - (at + 1) + 1 ELSE 0
        /\ \A i \in 1 .. n - (at + 1) + 1 : b[i] = s[(at + 1) + i - 1]
    BY <1>1, <2>1, SubSeqProperties
  <2> HIDE DEF b
  <2> QED
    BY <1>1, <2>2
<1> HIDE DEF a, b
<1>4. /\ t \in Seq(Keys) /\ Len(t) = n - 1
      /\ \A i \in 1 .. n - 1 : t[i] = IF i < at THEN s[i] ELSE s[i + 1]
  <2>1. t = a \o b
    BY DEF a, b
  <2>2. /\ a \o b \in Seq(Keys) /\ Len(a \o b) = Len(a) + Len(b)
        /\ \A i \in 1 .. Len(a) + Len(b) :
             (a \o b)[i] = IF i <= Len(a) THEN a[i] ELSE b[i - Len(a)]
    <3>1. a \in Seq(Keys) /\ b \in Seq(Keys)
      BY <1>2, <1>3
    <3> QED
      BY <3>1, ConcatProperties
  <2>3. /\ t \in Seq(Keys) /\ Len(t) = n - 1
        /\ \A i \in 1 .. n - 1 :
             t[i] = IF i <= at - 1 THEN a[i] ELSE b[i - (at - 1)]
    <3>1. Len(a) = at - 1 /\ Len(b) = n - at /\ Len(a) + Len(b) = n - 1
      BY <1>1, <1>2, <1>3
    <3> QED
      BY <2>1, <2>2, <3>1
  <2>4. ASSUME NEW i \in 1 .. n - 1
        PROVE  t[i] = IF i < at THEN s[i] ELSE s[i + 1]
    <3>1. CASE i < at
      <4>1. i \in 1 .. at - 1 /\ i <= at - 1
        BY <1>1, <3>1
      <4> QED
        BY <1>2, <2>3, <3>1, <4>1
    <3>2. CASE ~(i < at)
      <4>1. i - (at - 1) \in 1 .. n - at /\ ~(i <= at - 1)
            /\ at + (i - (at - 1)) = i + 1
        BY <1>1, <3>2
      <4>2. b[i - (at - 1)] = s[at + (i - (at - 1))]
        BY <1>3, <4>1
      <4> QED
        BY <2>3, <3>2, <4>1, <4>2
    <3> QED
      BY <3>1, <3>2
  <2> QED
    BY <2>3, <2>4
<1>5. Elements(t) = Elements(s) \ {s[at]}
  <2>1. ASSUME NEW x \in Elements(t) PROVE x \in Elements(s) \ {s[at]}
    <3>1. PICK i \in 1 .. n - 1 : x = t[i]
      BY <1>4 DEF Elements
    <3>2. (IF i < at THEN i ELSE i + 1) \in (1 .. n) \ {at}
      BY <1>1
    <3>3. PICK j \in 1 .. n : j # at /\ x = s[j]
      BY <1>4, <3>1, <3>2
    <3> QED
      BY <3>3 DEF Elements, Injective
  <2>2. ASSUME NEW x \in Elements(s) \ {s[at]} PROVE x \in Elements(t)
    <3>1. PICK j \in 1 .. n : x = s[j] /\ j # at
      BY DEF Elements
    <3>2. CASE j < at
      <4>1. j \in 1 .. n - 1
        BY <1>1, <3>2
      <4>2. t[j] = x
        BY <1>4, <3>1, <3>2, <4>1
      <4> QED
        BY <4>1, <4>2, <1>4 DEF Elements
    <3>3. CASE j > at
      <4>1. j - 1 \in 1 .. n - 1 /\ ~(j - 1 < at) /\ (j - 1) + 1 = j
        BY <1>1, <3>3
      <4>2. t[j - 1] = x
        BY <1>4, <3>1, <4>1
      <4> QED
        BY <4>1, <4>2, <1>4 DEF Elements
    <3> QED
      BY <3>1, <3>2, <3>3, <1>1
  <2> QED
    BY <2>1, <2>2
<1>6. Injective(t)
  <2> SUFFICES ASSUME NEW i \in 1 .. n - 1, NEW j \in 1 .. n - 1, t[i] = t[j]
               PROVE  i = j
    BY <1>4 DEF Injective
  <2> DEFINE x == IF i < at THEN i ELSE i + 1
             y == IF j < at THEN j ELSE j + 1
  <2>1. x \in 1 .. n /\ y \in 1 .. n
    BY <1>1
  <2>2. t[i] = s[x] /\ t[j] = s[y]
    BY <1>4
  <2> HIDE DEF x, y
  <2>3. x = y
    BY <2>1, <2>2 DEF Injective
  <2> QED
    BY <1>1, <2>3 DEF x, y
<1> QED
  BY <1>4, <1>5, <1>6

(* touch keeps a list sound: the charged key is in it, the evicted one is  *)
(* not, and nothing else changes.                                          *)
LEMMA TouchedSound ==
  ASSUME TableInv, LimiterInv, NEW k \in Keys
  PROVE  /\ Touched(k) \in Seq(Keys)
         /\ Len(Touched(k)) <= Cap
         /\ Injective(Touched(k))
         /\ k \notin Evicted(k)
         /\ Evicted(k) \subseteq Elements(lru[Shard[k]])
         /\ Elements(Touched(k))
              = (Elements(lru[Shard[k]]) \ Evicted(k)) \cup {k}
<1> DEFINE s == lru[Shard[k]]
           n == Len(s)
<1>1. /\ s \in Seq(Keys) /\ n \in Nat /\ n <= Cap /\ Injective(s)
      /\ k \in Elements(s) <=> acct[k] # None
      /\ Cap \in Nat /\ Cap >= 1
  <2>1. Shard[k] \in DOMAIN lru
    BY DEF TableInv
  <2>2. s \in Seq(Keys) /\ n <= Cap /\ Injective(s)
        /\ Elements(s) = Listed(Shard[k])
    BY <2>1 DEF TableInv
  <2> QED
    BY <2>2, LimiterAssumption DEF Listed
<1> HIDE DEF s
<1>2. CASE acct[k] # None
  <2>1. PICK at \in 1 .. n :
          /\ s[at] = k
          /\ Others(s, k) = SubSeq(s, 1, at - 1) \o SubSeq(s, at + 1, n)
    <3>1. \E i \in 1 .. n : s[i] = k
      BY <1>1, <1>2 DEF Elements
    <3> DEFINE at == CHOOSE i \in 1 .. n : s[i] = k
    <3>2. at \in 1 .. n /\ s[at] = k
      BY <3>1
    <3> QED
      BY <3>2 DEF Others
  <2>2. /\ Others(s, k) \in Seq(Keys) /\ Len(Others(s, k)) = n - 1
        /\ Elements(Others(s, k)) = Elements(s) \ {k}
        /\ Injective(Others(s, k))
    BY <2>1, <1>1, RemoveOne
  <2>3. Touched(k) = <<k>> \o Others(s, k) /\ Evicted(k) = {}
    BY <1>2 DEF Touched, Evicted, s
  <2>4. /\ Touched(k) \in Seq(Keys) /\ Len(Touched(k)) = n
        /\ Elements(Touched(k)) = (Elements(s) \ {k}) \cup {k}
        /\ Injective(Touched(k))
    BY <2>2, <2>3, <1>1, PushFront
  <2> QED
    BY <2>3, <2>4, <1>1, <1>2 DEF s
<1>3. CASE acct[k] = None /\ n >= Cap
  <2> DEFINE r == SubSeq(s, 1, n - 1)
  <2>1. n \in 1 .. n /\ n = Cap
    BY <1>1, <1>3
  <2>2. r = SubSeq(s, 1, n - 1) \o SubSeq(s, n + 1, n)
    <3>1. SubSeq(s, n + 1, n) = <<>>
      BY <1>1, SubSeqEmpty
    <3>2. r \in Seq(Keys)
      <4>1. \A i \in 1 .. n - 1 : s[i] \in Keys
        BY <1>1
      <4> QED
        BY <4>1, <1>1, SubSeqProperties
    <3> QED
      BY <3>1, <3>2, ConcatEmptySeq
  <2>3. /\ r \in Seq(Keys) /\ Len(r) = n - 1
        /\ Elements(r) = Elements(s) \ {s[n]} /\ Injective(r)
    BY <1>1, <2>1, <2>2, RemoveOne
  <2>4. Touched(k) = <<k>> \o r /\ Evicted(k) = {s[n]}
    BY <1>3 DEF Touched, Evicted, s
  <2>5. s[n] \in Elements(s) /\ k \notin Elements(s)
    BY <1>1, <1>3, <2>1 DEF Elements
  <2> HIDE DEF r
  <2>6. /\ Touched(k) \in Seq(Keys) /\ Len(Touched(k)) = n
        /\ Elements(Touched(k)) = (Elements(s) \ {s[n]}) \cup {k}
        /\ Injective(Touched(k))
    BY <2>3, <2>4, <2>5, <1>1, PushFront
  <2> QED
    BY <2>4, <2>5, <2>6, <1>1 DEF s
<1>4. CASE acct[k] = None /\ ~(n >= Cap)
  <2>1. Touched(k) = <<k>> \o s /\ Evicted(k) = {}
    BY <1>4 DEF Touched, Evicted, s
  <2>2. /\ Touched(k) \in Seq(Keys) /\ Len(Touched(k)) = n + 1
        /\ Elements(Touched(k)) = Elements(s) \cup {k}
        /\ Injective(Touched(k))
    BY <2>1, <1>1, <1>4, PushFront
  <2> QED
    BY <2>1, <2>2, <1>1, <1>4 DEF s
<1> QED
  BY <1>2, <1>3, <1>4

(* table.charge: the list of the key's shard and the accounts change       *)
(* together.                                                               *)
LEMMA ChargeKeepsTable ==
  ASSUME TableInv, LimiterInv, NEW k \in Keys, NEW t \in Nat, Rate[k] > 0,
         Charge(k, t)
  PROVE  TableInv'
<1> DEFINE h == Shard[k]
<1>1. /\ lru' = [lru EXCEPT ![h] = Touched(k)]
      /\ acct' = [x \in Keys |-> IF x = k THEN Charged(k, t)
                                 ELSE IF x \in Evicted(k) THEN None
                                 ELSE acct[x]]
  BY DEF Charge
<1>2. Charged(k, t) # None
  BY ChargedSound, NoneAssumption
<1>3. h \in DOMAIN lru
  BY DEF TableInv
<1>4. Elements(lru[h]) = Listed(h)
  BY <1>3 DEF TableInv
<1>5. /\ Touched(k) \in Seq(Keys) /\ Len(Touched(k)) <= Cap
      /\ Injective(Touched(k))
      /\ k \notin Evicted(k) /\ Evicted(k) \subseteq Listed(h)
      /\ Elements(Touched(k)) = (Listed(h) \ Evicted(k)) \cup {k}
  BY <1>4, TouchedSound
<1>6. Listed(h)' = (Listed(h) \ Evicted(k)) \cup {k}
  BY <1>1, <1>2, <1>5 DEF Listed
<1>7. ASSUME NEW s \in DOMAIN lru, s # h
      PROVE  Listed(s)' = Listed(s)
  BY <1>1, <1>5, <1>7 DEF Listed
<1>8. DOMAIN lru' = DOMAIN lru
  BY <1>1
<1>9. ASSUME NEW s \in DOMAIN lru
      PROVE  /\ lru'[s] \in Seq(Keys) /\ Len(lru'[s]) <= Cap
             /\ Elements(lru'[s]) = Listed(s)' /\ Injective(lru'[s])
  <2>1. CASE s = h
    BY <2>1, <1>1, <1>3, <1>5, <1>6
  <2>2. CASE s # h
    <3>1. lru'[s] = lru[s]
      BY <1>1, <2>2
    <3> QED
      BY <3>1, <2>2, <1>7 DEF TableInv
  <2> QED
    BY <2>1, <2>2
<1> QED
  BY <1>8, <1>9 DEF TableInv, Elements, Injective

(* The steps that leave the table alone keep TableInv.                     *)
LEMMA TableUnchanged ==
  ASSUME TableInv, lru' = lru, \A k \in Keys : acct'[k] = None <=> acct[k] = None
  PROVE  TableInv'
<1>1. \A s : Listed(s)' = Listed(s)
  BY DEF Listed
<1> QED
  BY <1>1 DEF TableInv, Elements, Injective

(* Every step of a handler, of the clock and of the observer.              *)
LEMMA NextTableInv == TableInv /\ LimiterInv /\ [Next]_vars => TableInv'
<1> SUFFICES ASSUME TableInv, LimiterInv, [Next]_vars
             PROVE  TableInv'
  OBVIOUS
<1>1. ASSUME tableVars' = tableVars
      PROVE  TableInv'
  BY <1>1, TableUnchanged DEF tableVars
<1>2. CASE Tick
  BY <1>1, <1>2 DEF Tick
<1>3. ASSUME NEW h \in Handlers, Decide(h)
      PROVE  TableInv'
  BY <1>1, <1>3 DEF Decide
<1>4. ASSUME NEW h \in Handlers, ChargeCategory(h)
      PROVE  TableInv'
  <2>1. name[h] \in Keys /\ now[h] \in Nat
    BY DEF LimiterInv
  <2>2. CASE Rate[name[h]] = 0
    BY <1>1, <1>4, <2>2 DEF ChargeCategory, tableVars
  <2>3. CASE Rate[name[h]] # 0
    <3>1. Rate[name[h]] > 0
      BY <2>1, <2>3, CeilingNat
    <3> QED
      BY <1>4, <2>1, <2>3, <3>1, ChargeKeepsTable DEF ChargeCategory
  <2> QED
    BY <2>2, <2>3
<1>5. ASSUME NEW h \in Handlers, ChargeAll(h)
      PROVE  TableInv'
  <2>1. All \in Keys /\ now[h] \in Nat
    BY DEF LimiterInv, Keys
  <2>2. CASE Rate[All] = 0
    BY <1>1, <1>5, <2>2 DEF ChargeAll, tableVars
  <2>3. CASE Rate[All] # 0
    <3>1. Rate[All] > 0
      BY <2>1, <2>3, CeilingNat
    <3> QED
      BY <1>5, <2>1, <2>3, <3>1, ChargeKeepsTable DEF ChargeAll
  <2> QED
    BY <2>2, <2>3
<1>6. ASSUME NEW k \in Keys, StartWindow(k)
      PROVE  TableInv'
  <2>1. acct[k] \in Account
    BY <1>6 DEF StartWindow, LimiterInv
  <2>2. acct' = [acct EXCEPT ![k] = [acct[k] EXCEPT
                   !.from = acct[k].lastRefill, !.within = 0]]
    BY <1>6 DEF StartWindow, LimiterInv
  <2>3. [acct[k] EXCEPT !.from = acct[k].lastRefill, !.within = 0] \in Account
    BY <2>1 DEF Account
  <2>4. \A x \in Keys : acct'[x] = None <=> acct[x] = None
    BY <1>6, <2>2, <2>3, NoneAssumption DEF LimiterInv, StartWindow
  <2> QED
    BY <1>6, <2>4, TableUnchanged DEF StartWindow
<1>7. CASE UNCHANGED vars
  BY <1>1, <1>7 DEF vars
<1> QED
  BY <1>2, <1>3, <1>4, <1>5, <1>6, <1>7 DEF Next

(* No shard exceeds its capacity and its list holds exactly the keys that  *)
(* have an account, for every capacity and placement of keys (touch and    *)
(* evictTail).                                                             *)
THEOREM TableStaysSound == Spec => []TableSound
<1>1. Init => TableInv
  <2> SUFFICES ASSUME Init PROVE TableInv
    OBVIOUS
  <2>1. \A s \in DOMAIN lru : lru[s] = <<>> /\ Listed(s) = {}
    BY DEF Init, Listed
  <2>2. DOMAIN lru = {Shard[k] : k \in Keys}
    BY DEF Init
  <2>3. /\ <<>> \in Seq(Keys) /\ Len(<<>>) <= Cap
        /\ Elements(<<>>) = {} /\ Injective(<<>>)
    BY LimiterAssumption DEF Elements, Injective
  <2> QED
    BY <2>1, <2>2, <2>3 DEF TableInv
<1>2. TableInv /\ LimiterInv /\ [Next]_vars => TableInv'
  BY NextTableInv
<1>3. TableInv => TableSound
  BY DEF TableInv, TableSound, Elements, Injective, Listed
<1> QED
  BY <1>1, <1>2, <1>3, LimiterInvariance, PTL DEF Spec
=============================================================================
