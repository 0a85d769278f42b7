--------------------------- MODULE EphemeralStore ---------------------------
(***************************************************************************)
(* ephemeral.Store: slices of entries per FQDN behind an RWMutex, used by  *)
(* API handlers, DNS handlers, the reload and the GC goroutine.  A         *)
(* critical section is one step.  Put samples the time before it takes the *)
(* lock, and gcSweep between its probe and its lock, so the clock and the  *)
(* other goroutines run in between.                                        *)
(***************************************************************************)
EXTENDS Integers, Sequences

CONSTANTS
  Names,      \* FQDNs, as lookup keys
  Values,     \* TXT values
  TTLs,       \* the ttl fields clients send
  MinTTL, MaxTTL,
  Puts,       \* PUT requests being handled
  None,       \* no request
  MaxClock    \* bound: how far the clock runs

ASSUME TTLAssumption ==
  /\ MinTTL \in Nat \ {0} /\ MaxTTL \in Nat /\ MinTTL <= MaxTTL
  /\ TTLs \subseteq Int
  /\ MaxClock \in Nat
  /\ None \notin [name : Names, value : Values, expireAt : Nat]

Entry == [value : Values, expireAt : Nat]

VARIABLES
  clock,      \* what s.now() returns
  records,    \* Store.records
  put,        \* what each handler is about to store
  gc, gcNow,  \* the GC goroutine, and the time it sampled
  op          \* history: the last request served, or reload

vars == <<clock, records, put, gc, gcNow, op>>

Init ==
  /\ clock = 0
  /\ records = [n \in {} |-> <<>>]
  /\ put = [p \in Puts |-> None]
  /\ gc = "idle" /\ gcNow = 0
  /\ op = <<"none">>
----------------------------------------------------------------------------
clampTTL(ttl) == IF ttl < MinTTL THEN MinTTL
                 ELSE IF ttl > MaxTTL THEN MaxTTL ELSE ttl

(* The map with a key set, or removed when its slice is empty.             *)
With(n, entries) ==
  [m \in DOMAIN records \cup {n} |-> IF m = n THEN entries ELSE records[m]]

Without(n) == [m \in DOMAIN records \ {n} |-> records[m]]

SetOrDrop(n, entries) == IF entries = <<>> THEN Without(n)
                                           ELSE With(n, entries)

Entries(n) == IF n \in DOMAIN records THEN records[n] ELSE <<>>

(* The loop of Lookup and of gcSweep: what it kept of each prefix.         *)
Kept(entries, now) ==
  LET kept[i \in 0..Len(entries)] ==
        IF i = 0 THEN <<>>
        ELSE IF entries[i].expireAt > now THEN Append(kept[i - 1], entries[i])
        ELSE kept[i - 1]
  IN kept

Unexpired(entries, now) == Kept(entries, now)[Len(entries)]

Indices(entries, v) == {i \in DOMAIN entries : entries[i].value = v}

FirstIndex(entries, v) ==
  CHOOSE i \in Indices(entries, v) : \A j \in Indices(entries, v) : i <= j

(* Lookup reads the clock and the slice under one read lock.               *)
Lookup(n) == Unexpired(Entries(n), clock)
----------------------------------------------------------------------------
Tick ==
  /\ clock < MaxClock
  /\ clock' = clock + 1
  /\ UNCHANGED <<records, put, gc, gcNow, op>>

(* handlePut, the name being under a served origin, up to the lock.        *)
PutSample(p) ==
  /\ put[p] = None
  /\ \E n \in Names, v \in Values, ttl \in TTLs :
       put' = [put EXCEPT ![p] = [name |-> n, value |-> v,
                                  expireAt |-> clock + clampTTL(ttl)]]
  /\ UNCHANGED <<clock, records, gc, gcNow, op>>

(* Mutant: a refreshed value moves to the end.                             *)
StoreMoves(entries, v, expiry) ==
  Append(SelectSeq(entries, LAMBDA e : e.value # v),
         [value |-> v, expireAt |-> expiry])

(* Put's critical section: refresh the first entry with the value in       *)
(* place, or append.                                                       *)
Store(entries, v, expiry) ==
  IF Indices(entries, v) = {}
  THEN Append(entries, [value |-> v, expireAt |-> expiry])
  ELSE [entries EXCEPT ![FirstIndex(entries, v)].expireAt = expiry]

PutStore(p) ==
  /\ put[p] # None
  /\ records' = With(put[p].name, Store(Entries(put[p].name), put[p].value,
                                        put[p].expireAt))
  /\ put' = [put EXCEPT ![p] = None]
  /\ op' = <<"put", put[p].name, put[p].value>>
  /\ UNCHANGED <<clock, gc, gcNow>>

Delete(n) ==
  /\ n \in DOMAIN records
  /\ records' = Without(n)
  /\ op' = <<"delete", n>>
  /\ UNCHANGED <<clock, put, gc, gcNow>>

DeleteEntry(entries, v) ==
  LET i == FirstIndex(entries, v)
  IN SubSeq(entries, 1, i - 1) \o SubSeq(entries, i + 1, Len(entries))

DeleteValue(n, v) ==
  /\ n \in DOMAIN records
  /\ Indices(records[n], v) # {}
  /\ records' = SetOrDrop(n, DeleteEntry(records[n], v))
  /\ op' = <<"deleteValue", n, v>>
  /\ UNCHANGED <<clock, put, gc, gcNow>>

(* reload().                                                               *)
Clear ==
  /\ records' = [n \in {} |-> <<>>]
  /\ op' = <<"clear">>
  /\ UNCHANGED <<clock, put, gc, gcNow>>
----------------------------------------------------------------------------
(* GC: a tick of its ticker runs gcSweep.                                  *)

(* Mutant: the probe returns when there is something to sweep.             *)
GCProbeInverted ==
  /\ gc = "idle"
  /\ records = [n \in {} |-> <<>>]
  /\ gc' = "sample"
  /\ UNCHANGED <<clock, records, put, gcNow, op>>

(* The probe under the read lock: an empty map is not swept.               *)
GCProbe ==
  /\ gc = "idle"
  /\ DOMAIN records # {}
  /\ gc' = "sample"
  /\ UNCHANGED <<clock, records, put, gcNow, op>>

GCSample ==
  /\ gc = "sample" /\ gc' = "sweep"
  /\ gcNow' = clock
  /\ UNCHANGED <<clock, records, put, op>>

(* Mutant: a name with an expired entry is dropped with all its entries.   *)
SweepDropsName(recs, now) ==
  [n \in {m \in DOMAIN recs : Unexpired(recs[m], now) = recs[m]} |-> recs[n]]

Sweep(recs, now) ==
  [n \in {m \in DOMAIN recs : Unexpired(recs[m], now) # <<>>} |->
     Unexpired(recs[n], now)]

GCSweep ==
  /\ gc = "sweep" /\ gc' = "idle"
  /\ records' = Sweep(records, gcNow)
  /\ gcNow' = 0
  /\ UNCHANGED <<clock, put, op>>

GC == GCProbe \/ GCSample \/ GCSweep

Next ==
  \/ Tick \/ Clear \/ GC
  \/ \E p \in Puts : PutSample(p) \/ PutStore(p)
  \/ \E n \in Names : Delete(n) \/ \E v \in Values : DeleteValue(n, v)

(* The ticker keeps ticking and the goroutine is scheduled; nothing is     *)
(* assumed of clients and reloads.                                         *)
Spec == Init /\ [][Next]_vars /\ WF_vars(GC)
----------------------------------------------------------------------------
Operations ==
  {<<"none">>, <<"clear">>} \cup ({"delete"} \X Names)
    \cup ({"put", "deleteValue"} \X Names \X Values)

(* The types, and that the sweep never works with a time to come.          *)
TypeOK ==
  /\ clock \in 0..MaxClock
  /\ DOMAIN records \subseteq Names
  /\ \A n \in DOMAIN records : records[n] \in Seq(Entry)
  /\ put \in [Puts -> [name : Names, value : Values, expireAt : Nat]
                        \cup {None}]
  /\ gc \in {"idle", "sample", "sweep"}
  /\ gcNow \in 0..clock
  /\ op \in Operations

(* Value v comes before w in the slice of n.                               *)
Before(recs, n, v, w) ==
  /\ n \in DOMAIN recs
  /\ \E i, j \in DOMAIN recs[n] :
       i < j /\ recs[n][i].value = v /\ recs[n][j].value = w

(* Two values that a step leaves in the store keep their order, so answers *)
(* are in insertion order: a refresh, a delete of one value and a sweep    *)
(* never permute a slice.                                                  *)
OrderKept ==
  [][\A n \in Names, v, w \in Values :
       Before(records, n, v, w) => ~Before(records', n, w, v)]_vars

(* The refinement mapping: what Lookup returns, for every name.            *)
LiveRecords ==
  UNION {{[name |-> n, value |-> Lookup(n)[i].value,
           expireAt |-> Lookup(n)[i].expireAt] : i \in DOMAIN Lookup(n)} :
         n \in Names}

Abstract == INSTANCE TxtStore WITH live <- LiveRecords

(* gcSweep is invisible to DNS clients, and every other step is what the   *)
(* abstract store does: what Lookup returns changes only by a put, a       *)
(* delete, a reload or the passing of an expiry.                           *)
ImplementsTxtStore == Abstract!Spec

Expired(n) == \E i \in DOMAIN Entries(n) : Entries(n)[i].expireAt <= clock

(* Memory of expired entries is reclaimed, also of those a delayed Put     *)
(* stores after their expiry and of those stored while a sweep runs.       *)
ExpiredReclaimed == \A n \in Names : Expired(n) ~> ~Expired(n)
=============================================================================
