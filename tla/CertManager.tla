---------------------------- MODULE CertManager -----------------------------
(***************************************************************************)
(* The certificate loop of the DoH endpoint (internal/doh/acme.go) and the *)
(* file that keeps its ACME account key (acme_key.go).  The CA and the     *)
(* lego client are external: an attempt to obtain a certificate may fail   *)
(* at any of its steps, take any time, and ignores cancellation.           *)
(***************************************************************************)
EXTENDS Integers, FiniteSets

CONSTANTS
  InitialDelay,       \* doh.acme.initial_delay
  RetryInterval,      \* renewRetryInterval
  MinRenewInterval,
  Lifetimes,          \* of the certificates the CA issues
  Backdates,          \* how far their NotBefore lies in the past
  None

ASSUME TimeAssumption ==
  /\ InitialDelay \in Nat
  /\ RetryInterval \in Nat \ {0} /\ MinRenewInterval \in Nat \ {0}
  /\ Lifetimes \subseteq Nat /\ Backdates \subseteq Nat
  /\ None \notin Nat

VARIABLES
  now,
  cancelled,  \* runCtx is done
  pc,         \* where run is
  wake,       \* when its timer fires, 0 when it has none
  cert,       \* the certificate handshakes get, or None
  fails,      \* attempts that failed since it was installed
  busy,       \* time spent in attempts since it was installed
  cached,     \* the key of the cached lego client, or None
  loaded,     \* the key of the client being built
  token,      \* the responder holds a key authorization
  keyFile,    \* the account key on disk, or None
  keyLog,     \* what a power loss may leave of it
  readable,   \* the key file can be read and parsed
  minted,     \* the number of keys generated so far
  accounts    \* the keys the CA has an account for

memory == <<pc, wake, cert, fails, busy, cached, loaded, token>>
disk   == <<keyFile, keyLog, readable>>
cmVars == <<now, cancelled, memory, disk, minted, accounts>>

(* A process starts: newCertManager, newLazyLegoObtainer, run.             *)
Started ==
  /\ pc' = IF InitialDelay = 0 THEN "check" ELSE "wait"
  /\ wake' = now + InitialDelay
  /\ cert' = None /\ fails' = 0 /\ busy' = 0
  /\ cached' = None /\ loaded' = None /\ token' = FALSE
  /\ cancelled' = FALSE

CMInit ==
  /\ now = 0 /\ cancelled = FALSE
  /\ pc = IF InitialDelay = 0 THEN "check" ELSE "wait"
  /\ wake = InitialDelay
  /\ cert = None /\ fails = 0 /\ busy = 0
  /\ cached = None /\ loaded = None /\ token = FALSE
  /\ keyFile = None /\ keyLog = {None} /\ readable = TRUE
  /\ minted = 0 /\ accounts = {}

(* The process is gone, and its memory with it.                            *)
Gone ==
  /\ pc' = "ended" /\ wake' = 0
  /\ cert' = None /\ fails' = 0 /\ busy' = 0
  /\ cached' = None /\ loaded' = None /\ token' = FALSE
  /\ cancelled' = FALSE

(* The steps inside cm.obtain.                                             *)
Obtaining == pc \in {"load", "persist", "register", "order", "validate",
                     "issue"}

(* obtainAndStore returned an error: the certificate stays.                *)
Failed ==
  /\ pc' = "wait" /\ wake' = now + RetryInterval
  /\ fails' = fails + 1
  /\ token' = FALSE
  /\ UNCHANGED <<cert, busy, cached>>
----------------------------------------------------------------------------
(* cancellableWait, of the initial delay and of the loop.                  *)
WaitOver ==
  /\ pc = "wait" /\ now >= wake
  /\ pc' = "check" /\ wake' = 0
  /\ UNCHANGED <<now, cancelled, cert, fails, busy, cached, loaded, token,
                 disk, minted, accounts>>

WaitCancelled ==
  /\ pc = "wait" /\ cancelled
  /\ pc' = "ended" /\ wake' = 0
  /\ UNCHANGED <<now, cancelled, cert, fails, busy, cached, loaded, token,
                 disk, minted, accounts>>

(* The ctx check at the head of the loop, then the lazy obtainer: the      *)
(* client is built by the first attempt that gets that far.                *)
Check ==
  /\ pc = "check"
  /\ pc' = IF cancelled THEN "ended"
           ELSE IF cached = None THEN "load" ELSE "order"
  /\ UNCHANGED <<now, cancelled, wake, cert, fails, busy, cached, loaded,
                 token, disk, minted, accounts>>

(* Mutant: a key file that cannot be read counts as missing.               *)
LoadKeyUnreadable ==
  /\ pc = "load"
  /\ IF keyFile # None /\ readable
     THEN loaded' = keyFile /\ pc' = "register" /\ UNCHANGED minted
     ELSE loaded' = minted + 1 /\ minted' = minted + 1 /\ pc' = "persist"
  /\ UNCHANGED <<wake, fails, token, cert, busy, cached, now, cancelled,
                 disk, accounts>>

(* loadOrCreateAccountKey.                                                 *)
LoadKey ==
  /\ pc = "load"
  /\ \/ /\ keyFile # None /\ readable
        /\ loaded' = keyFile /\ pc' = "register"
        /\ UNCHANGED <<wake, fails, token, cert, busy, cached, minted>>
     \/ /\ keyFile # None /\ ~readable
        /\ Failed
        /\ UNCHANGED <<loaded, minted>>
     \/ /\ keyFile = None
        /\ loaded' = minted + 1 /\ minted' = minted + 1 /\ pc' = "persist"
        /\ UNCHANGED <<wake, fails, token, cert, busy, cached>>
  /\ UNCHANGED <<now, cancelled, disk, accounts>>

(* atomicWriteAccountKey: the rename is not followed by an fsync of the    *)
(* directory, so a power loss may still undo it.                           *)
PersistKey ==
  /\ pc = "persist"
  /\ pc' = "register"
  /\ keyFile' = loaded /\ keyLog' = keyLog \cup {loaded}
  /\ readable' = TRUE
  /\ UNCHANGED <<now, cancelled, wake, cert, fails, busy, cached, loaded,
                 token, minted, accounts>>

(* Registering a key the CA knows already yields its account.  The answer  *)
(* may be lost, and then the attempt fails although the account exists.    *)
Register ==
  /\ pc = "register"
  /\ accounts' = accounts \cup {loaded}
  /\ loaded' = None
  /\ \/ /\ cached' = loaded /\ pc' = "order"
        /\ UNCHANGED <<wake, fails, token, cert, busy>>
     \/ Failed
  /\ UNCHANGED <<now, cancelled, disk, minted>>

(* lego calls Present, and CleanUp when the validation ended either way.   *)
Present ==
  /\ pc = "order"
  /\ token' = TRUE /\ pc' = "validate"
  /\ UNCHANGED <<now, cancelled, wake, cert, fails, busy, cached, loaded,
                 disk, minted, accounts>>

(* The CA's request reaches the challenge handler: answered if its         *)
(* listener serves and the token is there, aborted otherwise.              *)
Validate(served) ==
  /\ pc = "validate"
  /\ IF served /\ token
     THEN /\ pc' = "issue" /\ token' = FALSE
          /\ UNCHANGED <<wake, fails, cert, busy, cached>>
     ELSE Failed
  /\ UNCHANGED <<now, cancelled, loaded, disk, minted, accounts>>

Later(s, t) == IF s < t THEN t ELSE s

RenewAt(c) == c.notAfter - (c.notAfter - c.notBefore) \div 3

(* Mutant: renewal waits for the expiry.                                   *)
renewDelayLate(c) == Later(c.notAfter - now, 0)

renewDelay(c) == Later(RenewAt(c) - now, 0)

(* The rest of obtainAndStore, and the wait that run computes.             *)
Store ==
  /\ pc = "issue"
  /\ \E life \in Lifetimes, back \in Backdates :
       \E c \in {[notBefore |-> now - back, notAfter |-> now - back + life,
                  installed |-> now]} :
         /\ cert' = c
         /\ wake' = now + Later(renewDelay(c), MinRenewInterval)
  /\ pc' = "wait" /\ fails' = 0 /\ busy' = 0
  /\ UNCHANGED <<now, cancelled, cached, loaded, token, disk, minted,
                 accounts>>

(* Any step of an attempt may fail; a failed one leaves no file behind.    *)
ObtainFails ==
  /\ Obtaining
  /\ Failed
  /\ loaded' = None
  /\ UNCHANGED <<now, cancelled, disk, minted, accounts>>

(* The file's permissions or contents are disturbed, or put right again.   *)
DisturbKeyFile ==
  /\ keyFile # None
  /\ readable' = ~readable
  /\ UNCHANGED <<now, cancelled, memory, keyFile, keyLog, minted, accounts>>
----------------------------------------------------------------------------
(* The loop has a step to take at once: no time passes before it.          *)
LoopDue ==
  \/ pc = "check"
  \/ pc = "wait" /\ (now >= wake \/ cancelled)

(* A handshake gets an expired certificate only if failed attempts and     *)
(* time spent in attempts filled the whole lead of a third of its lifetime *)
(* (or what the floor of the wait left of it).                             *)
LapseNeedsFailures ==
  cert # None /\ ~cancelled /\ now >= cert.notAfter =>
    fails * RetryInterval + busy
      >= cert.notAfter - Later(RenewAt(cert),
                               cert.installed + MinRenewInterval)
=============================================================================
