----------------------------- MODULE DoHProofs ------------------------------
(***************************************************************************)
(* The ACME account, the renewal and the shutdown of the DoH endpoint, for *)
(* all delays, lifetimes and timeouts and any number of kills, restarts    *)
(* and failed attempts.  Each property has an inductive invariant of its   *)
(* own: AccountInv counts the accounts whose key is no longer on disk,     *)
(* LapseInv bounds the clock at every point of the loop by the time that   *)
(* failures account for, and StopInv says why a listener that may still    *)
(* keep runWith waiting is within its own deadline.                        *)
(***************************************************************************)
EXTENDS DoHServer, FiniteSetTheorems, TLAPS

(* A key is on disk before it is registered.                               *)
AccountInv ==
  /\ minted \in Nat /\ lost \in Nat
  /\ keyFile \in Nat \cup {None} /\ keyLog \subseteq Nat \cup {None}
  /\ accounts \subseteq Nat /\ IsFiniteSet(accounts)
  /\ pc = "persist" => keyFile = None /\ loaded \in Nat
  /\ pc = "register" => keyFile = loaded /\ loaded \in Nat
  /\ Cardinality(accounts \ {keyFile}) <= lost

(* When the loop first wakes up to replace the certificate.                *)
Due == Later(RenewAt(cert), cert.installed + MinRenewInterval)

Certificate == [notBefore : Int, notAfter : Int, installed : Nat]

LapseInv ==
  /\ now \in Nat /\ wake \in Nat /\ fails \in Nat /\ busy \in Nat
  /\ pc \in {"wait", "check", "load", "persist", "register", "order",
             "validate", "issue", "ended"}
  /\ cert = None \/ cert \in Certificate
  /\ main = "down" => cert = None
  /\ cert # None /\ ~cancelled =>
       /\ pc # "ended"
       /\ IF pc = "wait"
          THEN now <= wake /\ wake <= Due + fails * RetryInterval + busy
          ELSE now <= Due + fails * RetryInterval + busy

(* The listeners that have sent their result.                              *)
One(l) == IF lst[l] = "ended" THEN 1 ELSE 0
Sent == One("challenge") + One("https")

(* The result that the select took and has not yet sent back.              *)
Held == IF main = "resend" THEN 1 ELSE 0

StopInv ==
  /\ now \in Nat /\ got \in 0 .. 2 /\ ended \in Nat
  /\ errCh \in Nat
  /\ lst \in [Listeners -> {"starting", "serving", "draining", "ended"}]
  /\ drainBy \in [Listeners -> Nat]
  /\ main \in {"select", "resend", "cancel", "collect"} =>
       got < 2 /\ got + errCh + Held = Sent
  /\ main \in {"select", "resend", "cancel"} =>
       /\ cancelled => stop
       /\ \A l \in Listeners :
            lst[l] = "draining" =>
              stop /\ drainBy[l] = now + ShutdownTimeout
  /\ main \in {"collect", "renew"} =>
       /\ cancelled /\ deadline = ended + ShutdownTimeout
       /\ now <= ended + ShutdownTimeout
  /\ main = "collect" =>
       \A l \in Listeners :
         /\ lst[l] \in {"starting", "serving"} => now = ended
         /\ lst[l] = "draining" =>
              now <= drainBy[l] /\ drainBy[l] <= ended + ShutdownTimeout
----------------------------------------------------------------------------
(* The steps that touch neither the key file nor the accounts.             *)
LEMMA AccountFrame ==
  ASSUME AccountInv, UNCHANGED <<minted, lost, keyFile, keyLog, accounts>>,
         \/ pc' \notin {"persist", "register"}
         \/ pc' = pc /\ loaded' = loaded
  PROVE  AccountInv'
BY DEF AccountInv

(* The steps of the certificate loop.                                      *)
LEMMA LoopKeepsAccounts ==
  ASSUME AccountInv, Loop
  PROVE  AccountInv'
<1> USE DEF AccountInv
<1>1. lost' = lost
  BY DEF Loop
<1>2. ASSUME UNCHANGED <<minted, keyFile, keyLog, accounts>>,
             pc' \notin {"persist", "register"}
      PROVE  AccountInv'
  BY <1>1, <1>2, AccountFrame
<1>3. CASE WaitOver \/ WaitCancelled \/ Check \/ Present \/ Store
  BY <1>2, <1>3 DEF WaitOver, WaitCancelled, Check, Present, Store, disk
<1>4. CASE Validate(lst["challenge"] = "serving") \/ ObtainFails
  BY <1>2, <1>4 DEF Validate, ObtainFails, Failed, disk
<1>5. CASE LoadKey
  <2>1. UNCHANGED <<keyFile, keyLog, accounts>>
    BY <1>5 DEF LoadKey, disk
  <2>2. CASE keyFile # None /\ loaded' = keyFile /\ pc' = "register" /\ minted' = minted
    BY <1>1, <2>1, <2>2
  <2>3. CASE Failed /\ minted' = minted
    BY <1>2, <2>1, <2>3 DEF Failed
  <2>4. CASE keyFile = None /\ loaded' = minted + 1 /\ minted' = minted + 1
             /\ pc' = "persist"
    BY <1>1, <2>1, <2>4
  <2> QED
    BY <1>5, <2>2, <2>3, <2>4 DEF LoadKey
<1>6. CASE PersistKey
  <2>1. /\ pc = "persist" /\ pc' = "register" /\ loaded' = loaded
        /\ keyFile' = loaded /\ keyLog' = keyLog \cup {loaded}
        /\ UNCHANGED <<minted, accounts>>
    BY <1>6 DEF PersistKey
  <2>2. accounts \ {None} = accounts /\ accounts \ {loaded} \subseteq accounts
    BY TimeAssumption
  <2>3. Cardinality(accounts \ {loaded}) <= Cardinality(accounts)
    BY <2>2, FS_Subset
  <2>4. Cardinality(accounts) <= lost /\ Cardinality(accounts) \in Nat
    BY <2>1, <2>2, FS_CardinalityType
  <2>5. Cardinality(accounts \ {loaded}) \in Nat
    BY <2>2, FS_Subset, FS_CardinalityType
  <2>6. Cardinality(accounts \ {loaded}) <= lost
    BY <2>3, <2>4, <2>5
  <2> QED
    BY <1>1, <2>1, <2>6
<1>7. CASE Register
  <2>1. /\ pc = "register" /\ accounts' = accounts \cup {loaded}
        /\ UNCHANGED <<minted, keyFile, keyLog>>
        /\ pc' \in {"order", "wait"}
    BY <1>7 DEF Register, Failed, disk
  <2>2. (accounts \cup {loaded}) \ {keyFile} = accounts \ {keyFile}
    BY <2>1
  <2>3. IsFiniteSet(accounts \cup {loaded})
    BY FS_AddElement
  <2> QED
    BY <1>1, <2>1, <2>2, <2>3
<1> QED
  BY <1>3, <1>4, <1>5, <1>6, <1>7 DEF Loop

(* A power loss takes at most one key from the disk, and is counted.       *)
LEMMA CrashKeepsAccounts ==
  ASSUME AccountInv, Crash
  PROVE  AccountInv'
<1>1. PICK k \in keyLog :
        /\ keyFile' = k /\ keyLog' = {k}
        /\ lost' = lost + IF k # keyFile THEN 1 ELSE 0
  BY DEF Crash
<1>2. pc' = "ended" /\ UNCHANGED <<minted, accounts>>
  BY DEF Crash, Gone
<1>3. lost' \in Nat /\ k \in Nat \cup {None}
  BY <1>1 DEF AccountInv
<1>4. Cardinality(accounts \ {k}) <= lost'
  <2> DEFINE A == accounts \ {keyFile}
             B == accounts \ {k}
  <2>1. /\ IsFiniteSet(A) /\ IsFiniteSet(B) /\ IsFiniteSet(A \cup {keyFile})
        /\ Cardinality(A) \in Nat /\ Cardinality(B) \in Nat
    BY FS_Subset, FS_AddElement, FS_CardinalityType DEF AccountInv
  <2>2. CASE k = keyFile
    BY <1>1, <2>2 DEF AccountInv
  <2>3. CASE k # keyFile
    <3>1. B \subseteq A \cup {keyFile}
      OBVIOUS
    <3>2. Cardinality(A \cup {keyFile}) = Cardinality(A) + 1
      BY <2>1, FS_AddElement
    <3>3. Cardinality(B) <= Cardinality(A \cup {keyFile})
      BY <2>1, <3>1, FS_Subset
    <3>4. Cardinality(A) <= lost /\ lost \in Nat
      BY DEF AccountInv
    <3> HIDE DEF A, B
    <3>5. Cardinality(B) <= lost + 1
      BY <2>1, <3>2, <3>3, <3>4
    <3>6. lost' = lost + 1
      BY <1>1, <2>3
    <3> QED
      BY <3>5, <3>6 DEF B
  <2> QED
    BY <2>2, <2>3
<1> QED
  BY <1>1, <1>2, <1>3, <1>4 DEF AccountInv

(* No step makes an account for a key that is not on record.               *)
LEMMA NextAccountInv == AccountInv /\ [Next]_vars => AccountInv'
<1> SUFFICES ASSUME AccountInv, [Next]_vars PROVE AccountInv'
  OBVIOUS
<1>1. ASSUME cmVars' = cmVars, lost' = lost
      PROVE  AccountInv'
  BY <1>1, AccountFrame DEF cmVars, memory, disk
<1>2. CASE Loop
  BY <1>2, LoopKeepsAccounts
<1>3. ASSUME NEW l \in Listeners,
             Bind(l) \/ ServeFails(l) \/ DrainBegins(l) \/ DrainEnds(l)
      PROVE  AccountInv'
  BY <1>1, <1>3 DEF Bind, ServeFails, DrainBegins, DrainEnds
<1>4. CASE Select \/ Resend \/ Collect \/ RenewWait
  BY <1>1, <1>4 DEF Select, Resend, Collect, RenewWait
<1>5. CASE Stop \/ Cancel
  BY <1>5, AccountFrame DEF Stop, Cancel, memory, disk
<1>6. CASE Crash
  BY <1>6, CrashKeepsAccounts
<1>7. CASE Restart
  <2>1. pc' \in {"check", "wait"}
    BY <1>7 DEF Restart, Started
  <2> QED
    BY <1>7, <2>1, AccountFrame DEF Restart, disk
<1>8. CASE Disturb
  BY <1>8, AccountFrame DEF Disturb, DisturbKeyFile, memory
<1>9. CASE Tick
  BY <1>9, AccountFrame DEF Tick, disk
<1>10. CASE UNCHANGED vars
  BY <1>1, <1>10 DEF vars
<1> QED
  BY <1>2, <1>3, <1>4, <1>5, <1>6, <1>7, <1>8, <1>9, <1>10 DEF Next

(* loadOrCreateAccountKey: the installation never has more than one ACME   *)
(* account, but for one more each time a power loss undid the rename of a  *)
(* new key, whatever fails, is killed and is restarted.                    *)
THEOREM AccountStays == Spec => []OneAccount
<1>1. Init => AccountInv
  <2> SUFFICES ASSUME Init PROVE AccountInv
    OBVIOUS
  <2>1. IsFiniteSet({}) /\ Cardinality({}) = 0 /\ {} \ {None} = {}
    BY FS_EmptySet
  <2> QED
    BY <2>1 DEF Init, CMInit, AccountInv
<1>2. AccountInv => OneAccount
  <2> SUFFICES ASSUME AccountInv PROVE Cardinality(accounts) <= 1 + lost
    BY DEF OneAccount
  <2> DEFINE A == accounts \ {keyFile}
  <2>1. /\ IsFiniteSet(A) /\ IsFiniteSet(A \cup {keyFile})
        /\ Cardinality(A) \in Nat /\ Cardinality(accounts) \in Nat
        /\ Cardinality(A) <= lost /\ lost \in Nat
    BY FS_Subset, FS_AddElement, FS_CardinalityType DEF AccountInv
  <2>2. Cardinality(A \cup {keyFile}) = Cardinality(A) + 1
    BY <2>1, FS_AddElement
  <2>3. accounts \subseteq A \cup {keyFile}
    OBVIOUS
  <2>4. Cardinality(accounts) <= Cardinality(A \cup {keyFile})
    BY <2>1, <2>3, FS_Subset
  <2> HIDE DEF A
  <2> QED
    BY <2>1, <2>2, <2>4
<1> QED
  BY <1>1, <1>2, NextAccountInv, PTL DEF Spec
----------------------------------------------------------------------------
(* The bound on the clock, as a number.                                    *)
LEMMA BoundIsInt ==
  ASSUME cert \in Certificate, fails \in Nat, busy \in Nat
  PROVE  /\ Due \in Int /\ fails * RetryInterval \in Nat
         /\ (fails + 1) * RetryInterval = fails * RetryInterval + RetryInterval
         /\ RetryInterval \in Nat
<1>1. RetryInterval \in Nat /\ MinRenewInterval \in Nat
  BY TimeAssumption
<1>2. cert.notAfter \in Int /\ cert.notBefore \in Int /\ cert.installed \in Nat
  BY DEF Certificate
<1>3. RenewAt(cert) \in Int
  BY <1>2 DEF RenewAt
<1>4. Due \in Int
  BY <1>1, <1>2, <1>3 DEF Due, Later
<1>5. fails * RetryInterval \in Nat
      /\ (fails + 1) * RetryInterval = fails * RetryInterval + RetryInterval
  BY <1>1
<1> QED
  BY <1>1, <1>4, <1>5

(* A failed attempt accounts for the wait that follows it.                 *)
LEMMA FailedKeepsLapse ==
  ASSUME LapseInv, Failed, now' = now, cancelled' = cancelled, main' = main,
         pc # "wait"
  PROVE  LapseInv'
<1>1. /\ pc' = "wait" /\ wake' = now + RetryInterval /\ fails' = fails + 1
      /\ cert' = cert /\ busy' = busy
  BY DEF Failed
<1>2. now' \in Nat /\ wake' \in Nat /\ fails' \in Nat /\ busy' \in Nat
      /\ now' <= wake'
  BY <1>1, TimeAssumption DEF LapseInv
<1>3. (cert = None \/ cert \in Certificate) /\ (main = "down" => cert = None)
  BY DEF LapseInv
<1>4. ASSUME cert # None, ~cancelled
      PROVE  wake' <= Due + (fails + 1) * RetryInterval + busy
  <2>1. now <= Due + fails * RetryInterval + busy
        /\ cert \in Certificate /\ fails \in Nat /\ busy \in Nat /\ now \in Nat
    BY <1>4 DEF LapseInv
  <2>2. /\ Due \in Int /\ fails * RetryInterval \in Nat
        /\ (fails + 1) * RetryInterval = fails * RetryInterval + RetryInterval
        /\ RetryInterval \in Nat
    BY <2>1, BoundIsInt
  <2> DEFINE f == fails * RetryInterval
  <2> HIDE DEF f
  <2>3. now + RetryInterval <= Due + (f + RetryInterval) + busy
    BY <2>1, <2>2 DEF f
  <2> QED
    BY <1>1, <2>2, <2>3 DEF f
<1>5. Due' = Due
  BY <1>1 DEF Due, RenewAt, Later
<1> QED
  BY <1>1, <1>2, <1>3, <1>4, <1>5 DEF LapseInv

(* The steps that leave the certificate and its accounting alone, and      *)
(* leave the wait only when it is over.                                    *)
LEMMA LapseFrame ==
  ASSUME LapseInv, UNCHANGED <<now, fails, busy, cert>>, wake' \in Nat,
         pc' \in {"wait", "check", "load", "persist", "register", "order",
                 "validate", "issue", "ended"},
         main' = "down" => main = "down",
         cancelled' \/ (cancelled' = cancelled),
         \/ pc' = pc /\ wake' = wake
         \/ pc' # "wait" /\ (pc = "wait" => now >= wake \/ cancelled)
            /\ (pc' = "ended" => cancelled)
  PROVE  LapseInv'
<1>1. /\ now \in Nat /\ wake \in Nat /\ fails \in Nat /\ busy \in Nat
      /\ cert = None \/ cert \in Certificate
      /\ main = "down" => cert = None
  BY DEF LapseInv
<1>2. Due' = Due
  BY DEF Due, RenewAt, Later
<1>3. ASSUME cert # None, ~cancelled, pc = "wait", now >= wake
      PROVE  now <= Due + fails * RetryInterval + busy
  <2>1. now <= wake /\ wake <= Due + fails * RetryInterval + busy
    BY <1>3 DEF LapseInv
  <2>2. Due \in Int /\ fails * RetryInterval \in Nat
    BY <1>1, <1>3, BoundIsInt
  <2> DEFINE f == fails * RetryInterval
  <2> HIDE DEF f
  <2>3. now <= Due + f + busy
    BY <1>1, <2>1, <2>2 DEF f
  <2> QED
    BY <2>3 DEF f
<1> QED
  BY <1>1, <1>2, <1>3 DEF LapseInv

(* Store installs a certificate and computes when to replace it.           *)
LEMMA StoreKeepsLapse ==
  ASSUME LapseInv, Store, main' = main, Up
  PROVE  LapseInv'
<1>1. PICK life \in Lifetimes, back \in Backdates :
        \E c \in {[notBefore |-> now - back, notAfter |-> now - back + life,
                   installed |-> now]} :
          cert' = c /\ wake' = now + Later(renewDelay(c), MinRenewInterval)
  BY DEF Store
<1> DEFINE c == [notBefore |-> now - back, notAfter |-> now - back + life,
                 installed |-> now]
<1>2. /\ cert' = c /\ wake' = now + Later(renewDelay(c), MinRenewInterval)
      /\ pc' = "wait" /\ fails' = 0 /\ busy' = 0 /\ now' = now
      /\ cancelled' = cancelled
  BY <1>1 DEF Store
<1>3. now \in Nat /\ life \in Nat /\ back \in Nat /\ RetryInterval \in Nat
      /\ MinRenewInterval \in Nat
  BY TimeAssumption DEF LapseInv
<1>4. c \in Certificate
  BY <1>3 DEF Certificate
<1>5. RenewAt(c) \in Int
  <2>1. c.notAfter \in Int /\ c.notBefore \in Int
    BY <1>4 DEF Certificate
  <2> QED
    BY <2>1 DEF RenewAt
<1>6. c.installed = now
  OBVIOUS
<1> HIDE DEF c
<1>7. wake' \in Nat /\ now <= wake'
      /\ wake' = Later(RenewAt(c), c.installed + MinRenewInterval)
  <2> DEFINE r == RenewAt(c)
  <2> HIDE DEF r
  <2>1. r \in Int /\ wake' = now + Later(Later(r - now, 0), MinRenewInterval)
    BY <1>2, <1>5 DEF r, renewDelay
  <2>2. wake' \in Nat /\ now <= wake' /\ wake' = Later(r, now + MinRenewInterval)
    BY <1>3, <2>1 DEF Later
  <2> QED
    BY <1>6, <2>2 DEF r
<1>8. Due' = Later(RenewAt(c), c.installed + MinRenewInterval)
  BY <1>2 DEF Due, RenewAt, Later
<1>9. wake' <= Due' + 0 * RetryInterval + 0
  BY <1>3, <1>7, <1>8
<1> QED
  BY <1>2, <1>3, <1>4, <1>7, <1>9 DEF LapseInv, Up

(* Time passes while the loop waits or is in an attempt.                   *)
LEMMA TickKeepsLapse ==
  ASSUME LapseInv, Tick
  PROVE  LapseInv'
<1>1. /\ now' = now + 1 /\ UNCHANGED <<cancelled, pc, wake, cert, fails, main>>
      /\ busy' = busy + IF Up /\ Obtaining /\ cert # None THEN 1 ELSE 0
      /\ Up => ~LoopDue
  BY DEF Tick, srvMem
<1>2. /\ now \in Nat /\ wake \in Nat /\ fails \in Nat /\ busy \in Nat
      /\ cert = None \/ cert \in Certificate
      /\ main = "down" => cert = None
  BY DEF LapseInv
<1>3. now' \in Nat /\ busy' \in Nat /\ Due' = Due
  BY <1>1, <1>2 DEF Due, RenewAt, Later
<1>4. ASSUME cert # None, ~cancelled
      PROVE  IF pc = "wait"
             THEN now' <= wake /\ wake <= Due + fails * RetryInterval + busy'
             ELSE now' <= Due + fails * RetryInterval + busy'
  <2>1. Up /\ Due \in Int /\ fails * RetryInterval \in Nat
    BY <1>2, <1>4, BoundIsInt DEF Up
  <2> DEFINE f == fails * RetryInterval
  <2> HIDE DEF f
  <2>2. CASE pc = "wait"
    <3>1. wake <= Due + f + busy /\ ~(now >= wake)
      BY <1>1, <1>4, <2>1, <2>2 DEF LapseInv, LoopDue, f
    <3>2. busy' = busy
      BY <1>1, <1>2, <2>2 DEF Obtaining
    <3> QED
      BY <1>1, <1>2, <2>2, <3>1, <3>2 DEF f
  <2>3. CASE pc # "wait"
    <3>1. now <= Due + f + busy /\ pc # "ended" /\ pc # "check"
      BY <1>1, <1>4, <2>1, <2>3 DEF LapseInv, LoopDue, f
    <3>2. busy' = busy + 1
      BY <1>1, <1>2, <1>4, <2>1, <2>3, <3>1 DEF Obtaining, LapseInv
    <3>3. now + 1 <= Due + f + (busy + 1)
      BY <1>2, <2>1, <3>1 DEF f
    <3> QED
      BY <1>1, <2>3, <3>2, <3>3 DEF f
  <2> QED
    BY <2>2, <2>3
<1>5. cert # None /\ ~cancelled => pc # "ended"
  BY DEF LapseInv
<1> QED
  BY <1>1, <1>2, <1>3, <1>4, <1>5 DEF LapseInv

(* The steps of the certificate loop.                                      *)
LEMMA LoopKeepsLapse ==
  ASSUME LapseInv, Loop
  PROVE  LapseInv'
<1>1. main' = main /\ Up /\ wake \in Nat
  BY DEF Loop, srvMem, LapseInv
<1>2. CASE WaitOver \/ WaitCancelled
  <2>1. UNCHANGED <<now, fails, busy, cert, cancelled>> /\ wake' \in Nat
    BY <1>2 DEF WaitOver, WaitCancelled
  <2>2. /\ pc = "wait" /\ pc' \in {"check", "ended"}
        /\ now >= wake \/ cancelled
        /\ pc' = "ended" => cancelled
    BY <1>2 DEF WaitOver, WaitCancelled
  <2> QED
    BY <1>1, <2>1, <2>2, LapseFrame
<1>3. CASE Check \/ PersistKey \/ Present
  <2>1. UNCHANGED <<now, fails, busy, cert, cancelled, wake>>
    BY <1>3 DEF Check, PersistKey, Present
  <2>2. /\ pc \in {"check", "persist", "order"}
        /\ pc' \in {"ended", "load", "order", "register", "validate"}
        /\ pc' = "ended" => cancelled
    BY <1>3 DEF Check, PersistKey, Present
  <2> QED
    BY <1>1, <2>1, <2>2, LapseFrame
<1>4. CASE LoadKey
  <2>1. UNCHANGED <<now, cancelled>> /\ pc = "load"
    BY <1>4 DEF LoadKey
  <2>2. CASE Failed
    BY <1>1, <2>1, <2>2, FailedKeepsLapse
  <2>3. CASE ~Failed
    <3>1. UNCHANGED <<wake, fails, cert, busy>> /\ pc' \in {"register", "persist"}
      BY <1>4, <2>3 DEF LoadKey
    <3> QED
      BY <1>1, <2>1, <3>1, LapseFrame
  <2> QED
    BY <2>2, <2>3
<1>5. CASE Register
  <2>1. UNCHANGED <<now, cancelled>> /\ pc = "register"
    BY <1>5 DEF Register
  <2>2. CASE Failed
    BY <1>1, <2>1, <2>2, FailedKeepsLapse
  <2>3. CASE ~Failed
    <3>1. UNCHANGED <<wake, fails, cert, busy>> /\ pc' = "order"
      BY <1>5, <2>3 DEF Register
    <3> QED
      BY <1>1, <2>1, <3>1, LapseFrame
  <2> QED
    BY <2>2, <2>3
<1>6. CASE Validate(lst["challenge"] = "serving")
  <2>1. UNCHANGED <<now, cancelled>> /\ pc = "validate"
    BY <1>6 DEF Validate
  <2>2. CASE Failed
    BY <1>1, <2>1, <2>2, FailedKeepsLapse
  <2>3. CASE ~Failed
    <3>1. UNCHANGED <<wake, fails, cert, busy>> /\ pc' = "issue"
      BY <1>6, <2>3 DEF Validate
    <3> QED
      BY <1>1, <2>1, <3>1, LapseFrame
  <2> QED
    BY <2>2, <2>3
<1>7. CASE Store
  BY <1>1, <1>7, StoreKeepsLapse
<1>8. CASE ObtainFails
  <2>1. Failed /\ now' = now /\ cancelled' = cancelled /\ pc # "wait"
    BY <1>8 DEF ObtainFails, Obtaining
  <2> QED
    BY <1>1, <2>1, FailedKeepsLapse
<1> QED
  BY <1>2, <1>3, <1>4, <1>5, <1>6, <1>7, <1>8 DEF Loop

(* Every step keeps the account of failures and time of the lead.          *)
LEMMA NextLapseInv == LapseInv /\ [Next]_vars => LapseInv'
<1> SUFFICES ASSUME LapseInv, [Next]_vars PROVE LapseInv'
  OBVIOUS
<1>1. /\ pc \in {"wait", "check", "load", "persist", "register", "order",
                "validate", "issue", "ended"}
      /\ wake \in Nat /\ now \in Nat
  BY DEF LapseInv
<1>2. ASSUME UNCHANGED <<now, fails, busy, cert, pc, wake>>,
             main' = "down" => main = "down",
             cancelled' \/ (cancelled' = cancelled)
      PROVE  LapseInv'
  BY <1>1, <1>2, LapseFrame
<1>3. CASE Loop
  BY <1>3, LoopKeepsLapse
<1>4. ASSUME NEW l \in Listeners,
             Bind(l) \/ ServeFails(l) \/ DrainBegins(l) \/ DrainEnds(l)
      PROVE  LapseInv'
  BY <1>2, <1>4 DEF Bind, ServeFails, DrainBegins, DrainEnds, cmVars, memory
<1>5. CASE Stop \/ Select \/ Resend \/ Cancel \/ Collect \/ RenewWait
  BY <1>2, <1>5 DEF Stop, Select, Resend, Cancel, Collect, RenewWait,
                    cmVars, memory
<1>6. CASE Crash \/ Restart
  <2>1. /\ cert' = None /\ fails' = 0 /\ busy' = 0 /\ now' = now
        /\ wake' \in {0, now + InitialDelay}
        /\ pc' \in {"check", "wait", "ended"}
    BY <1>6 DEF Crash, Gone, Restart, Started
  <2> QED
    BY <1>1, <2>1, TimeAssumption DEF LapseInv
<1>7. CASE Disturb
  BY <1>2, <1>7 DEF Disturb, DisturbKeyFile, memory, srvMem
<1>8. CASE Tick
  BY <1>8, TickKeepsLapse
<1>9. CASE UNCHANGED vars
  BY <1>2, <1>9 DEF vars, cmVars, memory, srvMem
<1> QED
  BY <1>3, <1>4, <1>5, <1>6, <1>7, <1>8, <1>9 DEF Next

(* run and renewDelay: a handshake gets an expired certificate only if     *)
(* failed attempts and time in attempts filled the lead of a third of its  *)
(* lifetime, for every lifetime, backdating and interval.                  *)
THEOREM LapseIsExplained == Spec => []LapseNeedsFailures
<1>1. Init => LapseInv
  <2> SUFFICES ASSUME Init PROVE LapseInv
    OBVIOUS
  <2>1. now = 0 /\ wake = InitialDelay /\ fails = 0 /\ busy = 0 /\ cert = None
        /\ pc \in {"check", "wait"}
    BY DEF Init, CMInit
  <2> QED
    BY <2>1, TimeAssumption DEF LapseInv
<1>2. LapseInv => LapseNeedsFailures
  <2> SUFFICES ASSUME LapseInv, cert # None, ~cancelled, now >= cert.notAfter
               PROVE  fails * RetryInterval + busy >= cert.notAfter - Due
    BY DEF LapseNeedsFailures, Due
  <2>1. /\ now \in Nat /\ wake \in Nat /\ fails \in Nat /\ busy \in Nat
        /\ cert \in Certificate
    BY DEF LapseInv
  <2>2. Due \in Int /\ fails * RetryInterval \in Nat /\ cert.notAfter \in Int
    BY <2>1, BoundIsInt DEF Certificate
  <2> DEFINE f == fails * RetryInterval
             e == cert.notAfter
  <2> HIDE DEF f, e
  <2>3. now <= Due + f + busy
    <3>1. CASE pc = "wait"
      <4>1. now <= wake /\ wake <= Due + f + busy
        BY <3>1 DEF LapseInv, f
      <4> QED
        BY <2>1, <2>2, <4>1 DEF f
    <3>2. CASE pc # "wait"
      BY <3>2 DEF LapseInv, f
    <3> QED
      BY <3>1, <3>2
  <2>4. now >= e
    BY DEF e
  <2>5. f + busy >= e - Due
    BY <2>1, <2>2, <2>3, <2>4 DEF f, e
  <2> QED
    BY <2>5 DEF f, e
<1> QED
  BY <1>1, <1>2, NextLapseInv, PTL DEF Spec
----------------------------------------------------------------------------
(* One listener more that has ended is one result more.                    *)
LEMMA SentCounts ==
  ASSUME lst \in [Listeners -> {"starting", "serving", "draining", "ended"}]
  PROVE  /\ Sent \in 0 .. 2
         /\ Sent = 2 <=> \A l \in Listeners : lst[l] = "ended"
         /\ \A l \in Listeners : \A s \in {"starting", "serving", "draining"} :
              lst[l] # "ended" /\ lst' = [lst EXCEPT ![l] = s] => Sent' = Sent
         /\ \A l \in Listeners :
              lst[l] # "ended" /\ lst' = [lst EXCEPT ![l] = "ended"] =>
                Sent' = Sent + 1
BY DEF Sent, One, Listeners

(* The steps that touch neither the listeners nor runWith.                 *)
LEMMA StopFrame ==
  ASSUME StopInv, UNCHANGED <<now, cancelled, main, lst, drainBy, errCh, got,
                              deadline, ended>>,
         stop' \/ (stop' = stop)
  PROVE  StopInv'
BY DEF StopInv, Sent, One, Held

(* The steps of a listener.                                                *)
LEMMA ListenerKeepsStop ==
  ASSUME StopInv, NEW l \in Listeners,
         Bind(l) \/ ServeFails(l) \/ DrainBegins(l) \/ DrainEnds(l)
  PROVE  StopInv'
<1>1. /\ now \in Nat /\ got \in 0 .. 2 /\ ended \in Nat
      /\ errCh \in Nat
      /\ lst \in [Listeners -> {"starting", "serving", "draining", "ended"}]
      /\ drainBy \in [Listeners -> Nat]
      /\ Held \in 0 .. 1
  BY DEF StopInv, Held
<1>2. UNCHANGED <<now, stop, cancelled, main, got, deadline, ended, Held>>
  BY DEF Bind, ServeFails, DrainBegins, DrainEnds, cmVars, Held
<1>3. ShutdownTimeout \in Nat
  BY ShutdownAssumption
<1>4. CASE Bind(l)
  <2>1. lst[l] = "starting" /\ lst' = [lst EXCEPT ![l] = "serving"]
        /\ UNCHANGED <<errCh, drainBy>>
    BY <1>4 DEF Bind
  <2>2. Sent' = Sent /\ lst' \in [Listeners -> {"starting", "serving",
                                               "draining", "ended"}]
    BY <1>1, <2>1, SentCounts
  <2>3. \A m \in Listeners : m # l => lst'[m] = lst[m]
    BY <1>1, <2>1
  <2>4. lst'[l] = "serving"
    BY <1>1, <2>1
  <2> QED
    BY <1>1, <1>2, <2>1, <2>2, <2>3, <2>4 DEF StopInv
<1>5. CASE ServeFails(l)
  <2>1. lst[l] \in {"starting", "serving"} /\ lst' = [lst EXCEPT ![l] = "ended"]
        /\ errCh' = errCh + 1 /\ drainBy' = drainBy
    BY <1>5 DEF ServeFails, Send
  <2>2. Sent' = Sent + 1 /\ lst' \in [Listeners -> {"starting", "serving",
                                                   "draining", "ended"}]
    BY <1>1, <2>1, SentCounts
  <2>3. errCh' \in Nat /\ Sent \in 0 .. 2
    BY <1>1, <2>1, SentCounts
  <2>4. (\A m \in Listeners : m # l => lst'[m] = lst[m]) /\ lst'[l] = "ended"
    BY <1>1, <2>1
  <2>5. got + errCh + Held = Sent => got + errCh' + Held = Sent'
    BY <1>1, <2>1, <2>2, <2>3
  <2> QED
    BY <1>1, <1>2, <2>1, <2>2, <2>3, <2>4, <2>5 DEF StopInv
<1>6. CASE DrainBegins(l)
  <2>1. /\ lst[l] \in {"starting", "serving"} /\ cancelled
        /\ lst' = [lst EXCEPT ![l] = "draining"] /\ errCh' = errCh
        /\ drainBy' = [drainBy EXCEPT ![l] = now + ShutdownTimeout]
    BY <1>6 DEF DrainBegins
  <2>2. Sent' = Sent /\ lst' \in [Listeners -> {"starting", "serving",
                                               "draining", "ended"}]
    BY <1>1, <2>1, SentCounts
  <2>3. /\ \A m \in Listeners : m # l => lst'[m] = lst[m] /\ drainBy'[m] = drainBy[m]
        /\ lst'[l] = "draining" /\ drainBy'[l] = now + ShutdownTimeout
        /\ drainBy' \in [Listeners -> Nat] /\ now <= now + ShutdownTimeout
    BY <1>1, <1>3, <2>1
  <2> QED
    BY <1>1, <1>2, <1>3, <2>1, <2>2, <2>3 DEF StopInv
<1>7. CASE DrainEnds(l)
  <2>1. lst[l] = "draining" /\ lst' = [lst EXCEPT ![l] = "ended"]
        /\ errCh' = errCh + 1 /\ drainBy' = [drainBy EXCEPT ![l] = 0]
    BY <1>7 DEF DrainEnds, Send
  <2>2. Sent' = Sent + 1 /\ lst' \in [Listeners -> {"starting", "serving",
                                                   "draining", "ended"}]
    BY <1>1, <2>1, SentCounts
  <2>3. errCh' \in Nat /\ Sent \in 0 .. 2
    BY <1>1, <2>1, SentCounts
  <2>4. /\ \A m \in Listeners : m # l => lst'[m] = lst[m] /\ drainBy'[m] = drainBy[m]
        /\ lst'[l] = "ended" /\ drainBy' \in [Listeners -> Nat]
    BY <1>1, <2>1
  <2>5. got + errCh + Held = Sent => got + errCh' + Held = Sent'
    BY <1>1, <2>1, <2>2, <2>3
  <2> QED
    BY <1>1, <1>2, <2>1, <2>2, <2>3, <2>4, <2>5 DEF StopInv
<1> QED
  BY <1>4, <1>5, <1>6, <1>7

(* The steps of runWith.                                                   *)
LEMMA MainKeepsStop ==
  ASSUME StopInv, Select \/ Resend \/ Cancel \/ Collect \/ RenewWait
  PROVE  StopInv'
<1>1. /\ now \in Nat /\ got \in 0 .. 2 /\ ended \in Nat
      /\ errCh \in Nat
      /\ lst \in [Listeners -> {"starting", "serving", "draining", "ended"}]
      /\ drainBy \in [Listeners -> Nat]
  BY DEF StopInv
<1>2. /\ UNCHANGED <<lst, drainBy, now, stop>> /\ Sent' = Sent
      /\ Sent \in 0 .. 2
  BY <1>1, SentCounts
     DEF Select, Resend, Cancel, Collect, RenewWait, cmVars, Sent, One
<1>3. ShutdownTimeout \in Nat
  BY ShutdownAssumption
<1>4. CASE Select
  <2>1. /\ main = "select" /\ main' \in {"cancel", "resend"}
        /\ main' = "cancel" => errCh' = errCh
        /\ main' = "resend" => errCh > 0 /\ errCh' = errCh - 1
        /\ UNCHANGED <<cancelled, got, deadline, ended>>
    BY <1>4 DEF Select, cmVars
  <2>2. errCh' \in Nat /\ got + errCh' + Held' = Sent
    BY <1>1, <2>1 DEF StopInv, Held
  <2> QED
    BY <1>1, <1>2, <2>1, <2>2 DEF StopInv
<1>5. CASE Resend
  <2>1. /\ main = "resend" /\ main' = "cancel" /\ errCh' = errCh + 1
        /\ UNCHANGED <<cancelled, got, deadline, ended>>
    BY <1>5 DEF Resend, Send, cmVars
  <2>2. errCh' \in Nat /\ got + errCh' + Held' = Sent
    BY <1>1, <2>1 DEF StopInv, Held
  <2> QED
    BY <1>1, <1>2, <2>1, <2>2 DEF StopInv
<1>6. CASE Cancel
  <2>1. /\ main = "cancel" /\ main' = "collect" /\ cancelled' = TRUE
        /\ deadline' = now + ShutdownTimeout /\ ended' = now
        /\ UNCHANGED <<errCh, got>>
    BY <1>6 DEF Cancel
  <2>2. now <= now + ShutdownTimeout /\ Held' = Held
    BY <1>1, <1>3, <2>1 DEF Held
  <2>3. \A l \in Listeners :
          lst[l] = "draining" => drainBy[l] = now + ShutdownTimeout
    BY <2>1 DEF StopInv
  <2> QED
    BY <1>1, <1>2, <1>3, <2>1, <2>2, <2>3 DEF StopInv
<1>7. CASE Collect
  <2>1. /\ main = "collect" /\ errCh > 0
        /\ errCh' = errCh - 1 /\ got' = got + 1
        /\ main' = IF got' = 2 THEN "renew" ELSE "collect"
        /\ UNCHANGED <<cancelled, deadline, ended>>
    BY <1>7 DEF Collect, cmVars
  <2>2. errCh' \in Nat
    BY <1>1, <2>1
  <2>3. got < 2 /\ got + errCh + Held = Sent /\ Held = 0
    BY <2>1 DEF StopInv, Held
  <2>4. main' \in {"collect", "renew"} /\ Held' = 0
    BY <2>1 DEF Held
  <2>5. /\ got' \in 0 .. 2 /\ got' + errCh' + Held' = Sent
        /\ main' = "collect" => got' < 2
    BY <1>1, <2>1, <2>2, <2>3, <2>4
  <2> QED
    BY <1>1, <1>2, <2>1, <2>2, <2>5, <2>4 DEF StopInv
<1>8. CASE RenewWait
  <2>1. main' = "returned" /\ UNCHANGED <<errCh, got, ended>>
    BY <1>8 DEF RenewWait
  <2> QED
    BY <1>1, <1>2, <2>1 DEF StopInv
<1> QED
  BY <1>4, <1>5, <1>6, <1>7, <1>8

(* Time passes in runWith's waits only while a listener drains or the      *)
(* renewal is waited for, and not beyond their deadlines.                  *)
LEMMA TickKeepsStop ==
  ASSUME StopInv, Tick
  PROVE  StopInv'
<1>1. /\ now' = now + 1
      /\ UNCHANGED <<stop, cancelled, main, lst, drainBy, errCh, got,
                     deadline, ended>>
      /\ Up => ~ServerDue
  BY DEF Tick, srvMem
<1>2. /\ now \in Nat /\ got \in 0 .. 2 /\ ended \in Nat
      /\ errCh \in Nat
      /\ lst \in [Listeners -> {"starting", "serving", "draining", "ended"}]
      /\ drainBy \in [Listeners -> Nat]
      /\ Held \in 0 .. 1 /\ ShutdownTimeout \in Nat
  BY ShutdownAssumption DEF StopInv, Held
<1>3. Sent' = Sent /\ Held' = Held /\ Sent \in 0 .. 2
  BY <1>1, <1>2, SentCounts DEF Sent, One, Held
<1>4. CASE main = "collect"
  <2>1. /\ cancelled /\ deadline = ended + ShutdownTimeout
        /\ got < 2 /\ got + errCh + Held = Sent /\ Held = 0
    BY <1>4 DEF StopInv, Held
  <2>2. errCh = 0
    BY <1>1, <1>2, <1>4 DEF Up, ServerDue
  <2>3. \A l \in Listeners :
          /\ lst[l] \notin {"starting", "serving"}
          /\ lst[l] = "draining" => ~(now >= drainBy[l])
    BY <1>1, <1>4, <2>1, <2>2 DEF Up, ServerDue, errChCap
  <2>4. Sent # 2
    BY <1>2, <2>1, <2>2
  <2>5. PICK l \in Listeners : lst[l] = "draining"
    BY <1>2, <2>3, <2>4, SentCounts
  <2>6. \A m \in Listeners :
          lst[m] = "draining" =>
            now + 1 <= drainBy[m] /\ drainBy[m] <= ended + ShutdownTimeout
    BY <1>2, <1>4, <2>3 DEF StopInv
  <2>7. now + 1 <= ended + ShutdownTimeout
    <3>1. now + 1 <= drainBy[l] /\ drainBy[l] <= ended + ShutdownTimeout
          /\ drainBy[l] \in Nat
      BY <1>2, <2>5, <2>6
    <3> QED
      BY <1>2, <3>1
  <2> QED
    BY <1>1, <1>2, <1>3, <1>4, <2>1, <2>3, <2>6, <2>7 DEF StopInv
<1>5. CASE main = "renew"
  <2>1. cancelled /\ deadline = ended + ShutdownTimeout
    BY <1>5 DEF StopInv
  <2>2. ~(now >= deadline)
    BY <1>1, <1>5 DEF Up, ServerDue
  <2>3. now + 1 <= ended + ShutdownTimeout
    BY <1>2, <2>1, <2>2
  <2> QED
    BY <1>1, <1>2, <1>3, <1>5, <2>1, <2>3 DEF StopInv
<1>6. CASE main \in {"select", "resend", "cancel"}
  <2>1. got + errCh + Held = Sent
    BY <1>6 DEF StopInv
  <2>2. main = "select" /\ ~stop
    <3>1. main # "cancel"
      BY <1>1 DEF Up, ServerDue
    <3>2. main # "resend"
      <4>1. main = "resend" => errCh < 2
        BY <1>2, <1>3, <2>1 DEF Held
      <4> QED
        BY <1>1, <4>1 DEF Up, ServerDue, errChCap
    <3> QED
      BY <1>1, <1>6, <3>1, <3>2 DEF Up, ServerDue
  <2>3. \A l \in Listeners : lst[l] # "draining"
    BY <2>2 DEF StopInv
  <2> QED
    BY <1>1, <1>2, <1>3, <1>6, <2>2, <2>3 DEF StopInv
<1>7. CASE main \notin {"select", "resend", "cancel", "collect", "renew"}
  BY <1>1, <1>2, <1>3, <1>7 DEF StopInv
<1> QED
  BY <1>4, <1>5, <1>6, <1>7

(* Every step keeps the deadlines of the shutdown.                         *)
LEMMA NextStopInv == StopInv /\ [Next]_vars => StopInv'
<1> SUFFICES ASSUME StopInv, [Next]_vars PROVE StopInv'
  OBVIOUS
<1>1. CASE Loop
  <2>1. now' = now /\ cancelled' = cancelled
    BY <1>1 DEF Loop, WaitOver, WaitCancelled, Check, LoadKey, PersistKey,
                Register, Present, Validate, Store, ObtainFails
  <2> QED
    BY <1>1, <2>1, StopFrame DEF Loop, srvMem
<1>2. ASSUME NEW l \in Listeners,
             Bind(l) \/ ServeFails(l) \/ DrainBegins(l) \/ DrainEnds(l)
      PROVE  StopInv'
  BY <1>2, ListenerKeepsStop
<1>3. CASE Stop
  <2>1. /\ UNCHANGED <<now, main, lst, drainBy, errCh, got, deadline, ended>>
        /\ stop' /\ cancelled'
    BY <1>3 DEF Stop
  <2>2. Sent' = Sent /\ Held' = Held
    BY <2>1 DEF Sent, One, Held
  <2> QED
    BY <2>1, <2>2 DEF StopInv
<1>4. CASE Select \/ Resend \/ Cancel \/ Collect \/ RenewWait
  BY <1>4, MainKeepsStop
<1>5. CASE Crash \/ Restart
  <2>1. /\ main' \in {"down", "select"} /\ now' = now /\ now \in Nat
        /\ lst' = [l \in Listeners |-> "starting"]
        /\ drainBy' = [l \in Listeners |-> 0]
        /\ errCh' = 0 /\ got' = 0 /\ ended' = 0 /\ ~cancelled'
    BY <1>5 DEF Crash, Restart, Fresh, Gone, Started, StopInv
  <2>2. Sent' = 0 /\ Held' = 0
    BY <2>1 DEF Sent, One, Listeners, Held
  <2> QED
    BY <2>1, <2>2 DEF StopInv
<1>6. CASE Disturb
  BY <1>6, StopFrame DEF Disturb, DisturbKeyFile, srvMem
<1>7. CASE Tick
  BY <1>7, TickKeepsStop
<1>8. CASE UNCHANGED vars
  BY <1>8, StopFrame DEF vars, cmVars, srvMem
<1> QED
  BY <1>1, <1>2, <1>3, <1>4, <1>5, <1>6, <1>7, <1>8 DEF Next

(* runWith returns within one ShutdownTimeout of its cancellation, however *)
(* the drains and a hung attempt overlap, for every timeout.               *)
THEOREM ShutdownIsBounded == Spec => []ShutdownBounded
<1>1. Init => StopInv
  <2> SUFFICES ASSUME Init PROVE StopInv
    OBVIOUS
  <2>1. /\ main = "select" /\ now = 0 /\ ~cancelled
        /\ lst = [l \in Listeners |-> "starting"]
        /\ drainBy = [l \in Listeners |-> 0]
        /\ errCh = 0 /\ got = 0 /\ ended = 0
    BY DEF Init, CMInit
  <2>2. Sent = 0 /\ Held = 0
    BY <2>1 DEF Sent, One, Listeners, Held
  <2> QED
    BY <2>1, <2>2 DEF StopInv
<1>2. StopInv => ShutdownBounded
  BY DEF StopInv, ShutdownBounded
<1> QED
  BY <1>1, <1>2, NextStopInv, PTL DEF Spec
=============================================================================
