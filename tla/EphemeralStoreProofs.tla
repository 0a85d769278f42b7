------------------------ MODULE EphemeralStoreProofs ------------------------
(***************************************************************************)
(* Proofs about EphemeralStore: its invariant, that slices keep their      *)
(* order, and that it implements TxtStore.  The loop that drops expired    *)
(* entries is a recursive function; what it computes is proved by          *)
(* induction over the set of the prefixes for which it holds.              *)
(***************************************************************************)
EXTENDS EphemeralStore, WellFoundedInduction, TLAPS

(* Induction on the naturals, for the set of the numbers with a property.  *)
LEMMA NatSetInduction ==
  ASSUME NEW T \in SUBSET Nat, 0 \in T, \A i \in T : i + 1 \in T
  PROVE  T = Nat
<1> DEFINE R == OpToRel(<, Nat)
           U == Nat \ T
<1>1. IsWellFoundedOn(R, Nat)
  BY NatLessThanWellFounded
<1>2. SUFFICES ASSUME U # {} PROVE FALSE
  OBVIOUS
<1>3. PICK x \in U : \A y \in U : ~ (<<y, x>> \in R)
  BY <1>1, <1>2, WFMin, Zenon
<1>4. x \in Nat /\ x \notin T /\ x # 0
  BY <1>3
<1> DEFINE w == x - 1
<1>5. w \in Nat /\ w < x /\ w + 1 = x
  BY <1>4
<1> HIDE DEF w
<1>6. <<w, x>> \in R
  BY <1>4, <1>5 DEF OpToRel
<1>7. w \in U
  BY <1>4, <1>5
<1> QED BY <1>3, <1>6, <1>7, Zenon

(* The right-hand side of the recursion in Kept.                           *)
KeptBody(entries, now, g) ==
  [i \in 0..Len(entries) |->
     IF i = 0 THEN <<>>
     ELSE IF entries[i].expireAt > now THEN Append(g[i - 1], entries[i])
     ELSE g[i - 1]]

(* Kept is, by definition, a solution of its recursion if there is one.    *)
LEMMA KeptIsChosen ==
  ASSUME NEW entries, NEW now
  PROVE  Kept(entries, now) = CHOOSE g : g = KeptBody(entries, now, g)
BY DEF Kept, KeptBody

(* The recursion of Kept has a solution, built one index at a time ...     *)
LEMMA KeptExists ==
  ASSUME NEW entries \in Seq(Entry), NEW now
  PROVE  \E g : g = KeptBody(entries, now, g)
<1> DEFINE Step(g, i) ==
             IF i = 0 THEN <<>>
             ELSE IF entries[i].expireAt > now THEN Append(g[i - 1], entries[i])
             ELSE g[i - 1]
           T == {n \in Nat : \E g : g = [i \in 0..n |-> Step(g, i)]}
<1>1. 0 \in T
  <2> DEFINE g == [i \in 0..0 |-> <<>>]
  <2>1. g = [i \in 0..0 |-> Step(g, i)]
    OBVIOUS
  <2> HIDE DEF g
  <2> QED BY <2>1
<1>2. ASSUME NEW n \in T PROVE n + 1 \in T
  <2>1. PICK g : g = [i \in 0..n |-> Step(g, i)]
    OBVIOUS
  <2>2. n \in Nat /\ n + 1 \in Nat
    OBVIOUS
  <2> DEFINE h == [i \in 0..(n + 1) |-> Step(g, i)]
  <2>3. \A i \in 0..n : h[i] = g[i]
    <3> HIDE DEF Step
    <3>1. \A i \in 0..n : g[i] = Step(g, i)
      BY <2>1, Zenon
    <3>2. \A i \in 0..n : i \in 0..(n + 1)
      BY <2>2
    <3> QED BY <3>1, <3>2
  <2>4. \A i \in 0..(n + 1) : i # 0 => i - 1 \in 0..n
    BY <2>2
  <2> HIDE DEF h
  <2>5. \A i \in 0..(n + 1) : Step(h, i) = Step(g, i)
    BY <2>3, <2>4
  <2> USE DEF h
  <2>6. h = [i \in 0..(n + 1) |-> Step(h, i)]
    BY <2>5
  <2> HIDE DEF h
  <2> QED BY <2>2, <2>6
<1>3. T = Nat
  <2>1. T \in SUBSET Nat
    OBVIOUS
  <2>2. \A i \in T : i + 1 \in T
    BY <1>2
  <2> HIDE DEF T
  <2> QED BY <1>1, <2>1, <2>2, NatSetInduction
<1>4. Len(entries) \in Nat
  OBVIOUS
<1>5. \E g : g = [i \in 0..Len(entries) |-> Step(g, i)]
  BY <1>3, <1>4
<1> QED BY <1>5 DEF KeptBody

(* ... so Kept satisfies its equations.                                    *)
LEMMA KeptEquation ==
  ASSUME NEW entries \in Seq(Entry), NEW now
  PROVE  Kept(entries, now) = KeptBody(entries, now, Kept(entries, now))
<1> DEFINE P(g) == g = KeptBody(entries, now, g)
<1>1. \E g : P(g)
  BY KeptExists
<1>2. Kept(entries, now) = CHOOSE g : P(g)
  BY KeptIsChosen
<1> HIDE DEF P
<1>3. P(CHOOSE g : P(g))
  BY <1>1, Zenon
<1> QED BY <1>2, <1>3 DEF P

(* s is the subsequence of the unexpired entries among the first n, and    *)
(* pos tells where each of them was.                                       *)
Selected(entries, now, n, s, pos) ==
  /\ s \in Seq(Entry)
  /\ pos \in [1..Len(s) -> 1..n]
  /\ \A a \in 1..Len(s) : /\ s[a] = entries[pos[a]]
                          /\ entries[pos[a]].expireAt > now
  /\ \A a, b \in 1..Len(s) : a < b => pos[a] < pos[b]
  /\ \A i \in 1..n : entries[i].expireAt > now
                       => \E a \in 1..Len(s) : pos[a] = i

(* Before the first entry of the slice nothing is kept.                    *)
LEMMA SelectedNone ==
  ASSUME NEW entries, NEW now
  PROVE  Selected(entries, now, 0, <<>>, <<>>)
BY DEF Selected

(* An expired entry is passed over.                                        *)
LEMMA SelectedSkip ==
  ASSUME NEW entries, NEW now, NEW n \in Nat, NEW s, NEW pos,
         Selected(entries, now, n, s, pos),
         ~(entries[n + 1].expireAt > now)
  PROVE  Selected(entries, now, n + 1, s, pos)
<1>1. s \in Seq(Entry) /\ Len(s) \in Nat
  BY DEF Selected
<1>2. pos \in [1..Len(s) -> 1..(n + 1)]
  BY <1>1 DEF Selected
<1>3. \A i \in 1..(n + 1) : entries[i].expireAt > now
        => \E a \in 1..Len(s) : pos[a] = i
  BY <1>1 DEF Selected
<1> QED BY <1>1, <1>2, <1>3 DEF Selected

(* An unexpired entry is appended to what was kept.                        *)
LEMMA SelectedTake ==
  ASSUME NEW entries \in Seq(Entry), NEW now, NEW n \in Nat,
         NEW s, NEW pos, n + 1 \in DOMAIN entries,
         Selected(entries, now, n, s, pos),
         entries[n + 1].expireAt > now
  PROVE  \E q : Selected(entries, now, n + 1, Append(s, entries[n + 1]), q)
<1> DEFINE t == Append(s, entries[n + 1])
           q == [a \in 1..Len(t) |-> IF a \in 1..Len(s) THEN pos[a] ELSE n + 1]
<1>1. s \in Seq(Entry) /\ Len(s) \in Nat /\ pos \in [1..Len(s) -> 1..n]
  BY DEF Selected
<1>2. entries[n + 1] \in Entry
  OBVIOUS
<1>3. /\ t \in Seq(Entry) /\ Len(t) = Len(s) + 1
      /\ t[Len(s) + 1] = entries[n + 1]
      /\ \A a \in 1..Len(s) : t[a] = s[a]
  BY <1>1, <1>2
<1>4. \A a \in 1..Len(t) : a \in 1..Len(s) \/ (a = Len(s) + 1 /\ a \notin 1..Len(s))
  BY <1>1, <1>3
<1> HIDE DEF t
<1>5. /\ \A a \in 1..Len(s) : a \in 1..Len(t) /\ q[a] = pos[a]
      /\ Len(s) + 1 \in 1..Len(t) /\ q[Len(s) + 1] = n + 1
  BY <1>1, <1>3
<1>6. q \in [1..Len(t) -> 1..(n + 1)]
  BY <1>1, <1>4
<1> HIDE DEF q
<1>7. \A a \in 1..Len(t) : /\ t[a] = entries[q[a]]
                           /\ entries[q[a]].expireAt > now
  BY <1>3, <1>4, <1>5 DEF Selected
<1>8. \A a, b \in 1..Len(t) : a < b => q[a] < q[b]
  <2> SUFFICES ASSUME NEW a \in 1..Len(t), NEW b \in 1..Len(t), a < b
               PROVE  q[a] < q[b]
    OBVIOUS
  <2>1. a \in 1..Len(s) /\ q[a] = pos[a] /\ pos[a] \in 1..n
    BY <1>1, <1>3, <1>4, <1>5
  <2>2. CASE b \in 1..Len(s)
    BY <1>5, <2>1, <2>2 DEF Selected
  <2>3. CASE b = Len(s) + 1
    BY <1>5, <2>1, <2>3
  <2> QED BY <1>4, <2>2, <2>3
<1>9. ASSUME NEW i \in 1..(n + 1), entries[i].expireAt > now
      PROVE  \E a \in 1..Len(t) : q[a] = i
  <2>1. CASE i = n + 1
    BY <1>5, <2>1
  <2>2. CASE i # n + 1
    <3>1. i \in 1..n
      BY <2>2
    <3>2. PICK a \in 1..Len(s) : pos[a] = i
      BY <1>9, <3>1 DEF Selected
    <3> QED BY <1>5, <3>2
  <2> QED BY <2>1, <2>2
<1> QED BY <1>3, <1>6, <1>7, <1>8, <1>9 DEF Selected, t

(* What Lookup returns and gcSweep keeps.                                  *)
LEMMA UnexpiredIsSelection ==
  ASSUME NEW entries \in Seq(Entry), NEW now
  PROVE  \E pos : Selected(entries, now, Len(entries),
                           Unexpired(entries, now), pos)
<1> DEFINE K == Kept(entries, now)
           T == {n \in Nat : n <= Len(entries)
                               => \E pos : Selected(entries, now, n, K[n], pos)}
<1>1. Len(entries) \in Nat /\ DOMAIN entries = 1..Len(entries)
  OBVIOUS
<1>2. /\ K[0] = <<>>
      /\ \A n \in Nat : n + 1 <= Len(entries) =>
           K[n + 1] = IF entries[n + 1].expireAt > now
                      THEN Append(K[n], entries[n + 1]) ELSE K[n]
  <2> HIDE DEF K
  <2>1. K = KeptBody(entries, now, K)
    BY KeptEquation DEF K
  <2>2. \A i \in 0..Len(entries) :
          K[i] = IF i = 0 THEN <<>>
                 ELSE IF entries[i].expireAt > now
                      THEN Append(K[i - 1], entries[i]) ELSE K[i - 1]
    BY <2>1 DEF KeptBody
  <2>3. ASSUME NEW n \in Nat, n + 1 <= Len(entries)
        PROVE  n + 1 \in 0..Len(entries) /\ n + 1 # 0 /\ (n + 1) - 1 = n
    BY <1>1, <2>3
  <2> QED BY <1>1, <2>2, <2>3
<1> HIDE DEF K
<1>3. 0 \in T
  BY <1>2, SelectedNone
<1>4. ASSUME NEW n \in T PROVE n + 1 \in T
  <2>1. n \in Nat /\ n + 1 \in Nat
    OBVIOUS
  <2> SUFFICES ASSUME n + 1 <= Len(entries)
               PROVE  \E pos : Selected(entries, now, n + 1, K[n + 1], pos)
    BY <2>1
  <2>2. n <= Len(entries) /\ n + 1 \in DOMAIN entries
    BY <1>1, <2>1
  <2>3. PICK pos : Selected(entries, now, n, K[n], pos)
    BY <2>2
  <2>4. CASE entries[n + 1].expireAt > now
    <3>1. K[n + 1] = Append(K[n], entries[n + 1])
      BY <1>2, <2>1, <2>4
    <3>2. \E q : Selected(entries, now, n + 1, Append(K[n], entries[n + 1]), q)
      BY <2>1, <2>2, <2>3, <2>4, SelectedTake
    <3> QED BY <3>1, <3>2
  <2>5. CASE ~(entries[n + 1].expireAt > now)
    <3>1. K[n + 1] = K[n]
      BY <1>2, <2>1, <2>5
    <3>2. Selected(entries, now, n + 1, K[n], pos)
      BY <2>1, <2>3, <2>5, SelectedSkip
    <3> QED BY <3>1, <3>2
  <2> QED BY <2>4, <2>5
<1>5. T = Nat
  <2>1. T \in SUBSET Nat
    OBVIOUS
  <2>2. \A i \in T : i + 1 \in T
    BY <1>4
  <2> HIDE DEF T
  <2> QED BY <1>3, <2>1, <2>2, NatSetInduction
<1>6. \E pos : Selected(entries, now, Len(entries), K[Len(entries)], pos)
  BY <1>1, <1>5
<1> QED BY <1>6 DEF K, Unexpired
----------------------------------------------------------------------------
(* What the store's clients can tell of a slice, and what each operation   *)
(* does to it.                                                             *)

Holds(s, v, e) == \E i \in DOMAIN s : s[i].value = v /\ s[i].expireAt = e

Mentions(s, v) == \E i \in DOMAIN s : s[i].value = v

Precedes(s, v, w) ==
  \E i, j \in DOMAIN s : i < j /\ s[i].value = v /\ s[j].value = w

Distinct(s) == \A i, j \in DOMAIN s : s[i].value = s[j].value => i = j

(* t has the values of s in the order they have there; a new one is last.  *)
Follows(t, s) ==
  \A v, w : Precedes(t, v, w) => (Precedes(s, v, w) \/ ~Mentions(s, w))

(* What Lookup returns and a sweep keeps: the unexpired entries, in their  *)
(* order.                                                                  *)
LEMMA UnexpiredSlice ==
  ASSUME NEW s \in Seq(Entry), NEW now, Distinct(s)
  PROVE  LET t == Unexpired(s, now)
         IN /\ t \in Seq(Entry) /\ Distinct(t) /\ Follows(t, s)
            /\ \A v, e : Holds(t, v, e) <=> (Holds(s, v, e) /\ e > now)
            /\ t = <<>> => \A v, e : ~(Holds(s, v, e) /\ e > now)
<1> DEFINE t == Unexpired(s, now)
<1>1. PICK pos : Selected(s, now, Len(s), t, pos)
  BY UnexpiredIsSelection
<1> HIDE DEF t
<1>a. /\ t \in Seq(Entry) /\ DOMAIN t = 1..Len(t) /\ Len(t) \in Nat
      /\ DOMAIN s = 1..Len(s) /\ Len(s) \in Nat
  BY <1>1 DEF Selected
<1>2. /\ t \in Seq(Entry) /\ DOMAIN t = 1..Len(t) /\ Len(t) \in Nat
      /\ DOMAIN s = 1..Len(s) /\ Len(s) \in Nat
      /\ pos \in [DOMAIN t -> DOMAIN s]
      /\ \A a \in DOMAIN t : t[a] = s[pos[a]] /\ s[pos[a]].expireAt > now
      /\ \A a, b \in DOMAIN t : a < b => pos[a] < pos[b]
      /\ \A i \in DOMAIN s : s[i].expireAt > now
                               => \E a \in DOMAIN t : pos[a] = i
  BY <1>1, <1>a, Zenon DEF Selected
<1>3. Distinct(t)
  <2> SUFFICES ASSUME NEW i \in DOMAIN t, NEW j \in DOMAIN t,
                      t[i].value = t[j].value
               PROVE  i = j
    BY DEF Distinct
  <2>1. pos[i] = pos[j]
    BY <1>2 DEF Distinct
  <2>2. pos[i] \in Nat /\ i \in Nat /\ j \in Nat
    BY <1>2
  <2> QED BY <1>2, <2>1, <2>2
<1>4. Follows(t, s)
  <2> SUFFICES ASSUME NEW v, NEW w, Precedes(t, v, w)
               PROVE  Precedes(s, v, w)
    BY DEF Follows
  <2>1. PICK i \in DOMAIN t, j \in DOMAIN t :
          i < j /\ t[i].value = v /\ t[j].value = w
    BY DEF Precedes
  <2>2. /\ pos[i] \in DOMAIN s /\ pos[j] \in DOMAIN s
        /\ pos[i] < pos[j] /\ s[pos[i]].value = v /\ s[pos[j]].value = w
    BY <1>2, <2>1
  <2> QED BY <2>2 DEF Precedes
<1>5. ASSUME NEW v, NEW e PROVE Holds(t, v, e) <=> (Holds(s, v, e) /\ e > now)
  <2>1. ASSUME Holds(t, v, e) PROVE Holds(s, v, e) /\ e > now
    <3>1. PICK a \in DOMAIN t : t[a].value = v /\ t[a].expireAt = e
      BY <2>1 DEF Holds
    <3>2. pos[a] \in DOMAIN s /\ s[pos[a]] = t[a] /\ s[pos[a]].expireAt > now
      BY <1>2
    <3> QED BY <3>1, <3>2 DEF Holds
  <2>2. ASSUME Holds(s, v, e), e > now PROVE Holds(t, v, e)
    <3>1. PICK i \in DOMAIN s : s[i].value = v /\ s[i].expireAt = e
      BY <2>2 DEF Holds
    <3>2. PICK a \in DOMAIN t : pos[a] = i
      BY <1>2, <2>2, <3>1
    <3> QED BY <1>2, <3>1, <3>2 DEF Holds
  <2> QED BY <2>1, <2>2
<1>6. t = <<>> => \A v, e : ~(Holds(s, v, e) /\ e > now)
  <2> SUFFICES ASSUME t = <<>>, NEW v, NEW e PROVE ~Holds(t, v, e)
    BY <1>5
  <2> QED BY DEF Holds
<1> QED BY <1>2, <1>3, <1>4, <1>5, <1>6 DEF t

(* The entry of a value that is there is the only one.                     *)
LEMMA FirstIndexIs ==
  ASSUME NEW s \in Seq(Entry), NEW v, Distinct(s), NEW i \in DOMAIN s,
         s[i].value = v
  PROVE  FirstIndex(s, v) = i
<1>1. Indices(s, v) = {i}
  BY DEF Indices, Distinct
<1>2. i <= i
  OBVIOUS
<1> QED BY <1>1, <1>2 DEF FirstIndex

(* What Put makes of a slice: the value has the new expiry, every other    *)
(* entry is as it was.                                                     *)
LEMMA StoreSlice ==
  ASSUME NEW s \in Seq(Entry), NEW v \in Values, NEW x \in Nat, Distinct(s)
  PROVE  LET t == Store(s, v, x)
         IN /\ t \in Seq(Entry) /\ Distinct(t) /\ Follows(t, s)
            /\ \A u, e : Holds(t, u, e) <=>
                           IF u = v THEN e = x ELSE Holds(s, u, e)
<1> DEFINE t == Store(s, v, x)
           Goal == /\ t \in Seq(Entry) /\ Distinct(t) /\ Follows(t, s)
                   /\ \A u, e : Holds(t, u, e) <=>
                                  IF u = v THEN e = x ELSE Holds(s, u, e)
<1> SUFFICES Goal
  OBVIOUS
<1>1. CASE Indices(s, v) = {}
  <2> DEFINE y == [value |-> v, expireAt |-> x]
             k == Len(s) + 1
  <2>1. t = Append(s, y)
    BY <1>1 DEF Store
  <2>2. y \in Entry /\ y.value = v /\ y.expireAt = x
    BY DEF Entry
  <2> HIDE DEF y
  <2>3. /\ t \in Seq(Entry) /\ DOMAIN s = 1..Len(s) /\ Len(s) \in Nat
        /\ DOMAIN t = 1..(Len(s) + 1)
        /\ t[k] = y /\ \A i \in DOMAIN s : t[i] = s[i]
    BY <2>1, <2>2
  <2>4. /\ \A i \in DOMAIN t : i \in DOMAIN s \/ i = k
        /\ \A i \in DOMAIN s : i \in DOMAIN t /\ i < k
        /\ k \in DOMAIN t /\ k \in Nat
    BY <2>3
  <2> HIDE DEF t, k
  <2>5. \A i \in DOMAIN s : s[i].value # v
    BY <1>1 DEF Indices
  <2>6. Distinct(t)
    BY <2>2, <2>3, <2>4, <2>5 DEF Distinct
  <2>7. Follows(t, s)
    <3> SUFFICES ASSUME NEW u, NEW w, Precedes(t, u, w), Mentions(s, w)
                 PROVE  Precedes(s, u, w)
      BY DEF Follows
    <3>1. PICK i \in DOMAIN t, j \in DOMAIN t :
            i < j /\ t[i].value = u /\ t[j].value = w
      BY DEF Precedes
    <3>2. w # v
      BY <2>5 DEF Mentions
    <3>3. j \in DOMAIN s
      BY <2>2, <2>3, <2>4, <3>1, <3>2
    <3>4. i \in DOMAIN s
      BY <2>3, <2>4, <3>1, <3>3
    <3> QED BY <2>3, <3>1, <3>3, <3>4 DEF Precedes
  <2>8. \A u, e : Holds(t, u, e) <=> IF u = v THEN e = x ELSE Holds(s, u, e)
    BY <2>2, <2>3, <2>4, <2>5 DEF Holds
  <2> QED BY <2>3, <2>6, <2>7, <2>8
<1>2. CASE Indices(s, v) # {}
  <2>1. PICK k \in DOMAIN s : s[k].value = v
    BY <1>2 DEF Indices
  <2>2. t = [s EXCEPT ![k].expireAt = x]
    BY <1>2, <2>1, FirstIndexIs DEF Store
  <2>3. s[k] \in Entry
    OBVIOUS
  <2> DEFINE y == [s[k] EXCEPT !.expireAt = x]
  <2>4. y \in Entry /\ y.value = v /\ y.expireAt = x
    BY <2>1, <2>3 DEF Entry
  <2>5. t = [s EXCEPT ![k] = y]
    BY <2>2
  <2> HIDE DEF y, t
  <2>6. /\ t \in Seq(Entry) /\ DOMAIN t = DOMAIN s /\ t[k] = y
        /\ \A i \in DOMAIN s : i # k => t[i] = s[i]
    BY <2>4, <2>5
  <2>7. \A i \in DOMAIN s : t[i].value = s[i].value
    BY <2>1, <2>4, <2>6
  <2>8. Distinct(t)
    BY <2>6, <2>7 DEF Distinct
  <2>9. Follows(t, s)
    BY <2>6, <2>7 DEF Follows, Precedes
  <2>10. \A u, e : Holds(t, u, e) <=> IF u = v THEN e = x ELSE Holds(s, u, e)
    <3> SUFFICES ASSUME NEW u, NEW e
                 PROVE Holds(t, u, e) <=> IF u = v THEN e = x ELSE Holds(s, u, e)
      OBVIOUS
    <3>1. CASE u = v
      BY <2>1, <2>4, <2>6, <2>7, <3>1 DEF Holds, Distinct
    <3>2. CASE u # v
      BY <2>1, <2>4, <2>6, <2>7, <3>2 DEF Holds
    <3> QED BY <3>1, <3>2
  <2> QED BY <2>6, <2>8, <2>9, <2>10
<1> QED BY <1>1, <1>2

(* What DeleteValue makes of a slice: the value is gone, every other entry *)
(* is as it was.                                                           *)
LEMMA DeleteSlice ==
  ASSUME NEW s \in Seq(Entry), NEW v, Distinct(s), Indices(s, v) # {}
  PROVE  LET t == DeleteEntry(s, v)
         IN /\ t \in Seq(Entry) /\ Distinct(t) /\ Follows(t, s)
            /\ \A u, e : Holds(t, u, e) <=> (u # v /\ Holds(s, u, e))
<1> DEFINE t == DeleteEntry(s, v)
<1>1. PICK k \in DOMAIN s : s[k].value = v
  BY DEF Indices
<1>2. t = SubSeq(s, 1, k - 1) \o SubSeq(s, k + 1, Len(s))
  BY <1>1, FirstIndexIs DEF DeleteEntry
<1>3. Len(s) \in Nat /\ DOMAIN s = 1..Len(s) /\ k \in 1..Len(s)
  OBVIOUS
<1> HIDE DEF t
<1> DEFINE old(i) == IF i < k THEN i ELSE i + 1
<1>4. /\ t \in Seq(Entry) /\ DOMAIN t = 1..(Len(s) - 1)
      /\ \A i \in 1..(Len(s) - 1) : t[i] = s[old(i)]
  <2>1. SubSeq(s, 1, k - 1) \in Seq(Entry) /\ Len(SubSeq(s, 1, k - 1)) = k - 1
    BY <1>3
  <2>2. /\ SubSeq(s, k + 1, Len(s)) \in Seq(Entry)
        /\ Len(SubSeq(s, k + 1, Len(s))) = Len(s) - k
    BY <1>3
  <2> DEFINE l == SubSeq(s, 1, k - 1)
             r == SubSeq(s, k + 1, Len(s))
  <2>3. /\ \A i \in 1..(k - 1) : l[i] = s[i]
        /\ \A i \in 1..(Len(s) - k) : r[i] = s[k + i]
    BY <1>3
  <2> HIDE DEF l, r
  <2>4. /\ l \in Seq(Entry) /\ Len(l) = k - 1
        /\ r \in Seq(Entry) /\ Len(r) = Len(s) - k /\ t = l \o r
    BY <1>2, <2>1, <2>2 DEF l, r
  <2>5. t \in Seq(Entry) /\ Len(t) = Len(s) - 1
    <3>1. t \in Seq(Entry)
      BY <2>4
    <3>2. Len(t) = Len(l) + Len(r)
      BY <2>4
    <3>3. (k - 1) + (Len(s) - k) = Len(s) - 1
      BY <1>3
    <3> QED BY <2>4, <3>1, <3>2, <3>3
  <2>6. DOMAIN t = 1..(Len(s) - 1)
    BY <2>5
  <2>7. ASSUME NEW i \in 1..(Len(s) - 1) PROVE t[i] = s[old(i)]
    <3>1. CASE i < k
      <4>1. i \in 1..(k - 1)
        BY <1>3, <3>1
      <4>2. t[i] = l[i]
        BY <1>3, <2>4, <4>1
      <4> QED BY <2>3, <3>1, <4>1, <4>2
    <3>2. CASE ~(i < k)
      <4>1. i - (k - 1) \in 1..(Len(s) - k) /\ k + (i - (k - 1)) = i + 1
        BY <1>3, <3>2
      <4>2. t[i] = r[i - (k - 1)]
        BY <1>3, <2>4, <3>2
      <4> QED BY <2>3, <3>2, <4>1, <4>2
    <3> QED BY <3>1, <3>2
  <2> QED BY <2>5, <2>6, <2>7
<1>5. /\ \A i \in DOMAIN t : old(i) \in DOMAIN s /\ old(i) # k
      /\ \A i, j \in DOMAIN t : i < j => old(i) < old(j)
      /\ \A i, j \in DOMAIN t : old(i) = old(j) => i = j
  BY <1>3, <1>4
<1>6. ASSUME NEW i \in DOMAIN s, i # k PROVE \E a \in DOMAIN t : old(a) = i
  <2>1. CASE i < k
    BY <1>3, <1>4, <2>1
  <2>2. CASE i > k
    <3>1. i - 1 \in DOMAIN t /\ old(i - 1) = i
      BY <1>3, <1>4, <2>2
    <3> QED BY <3>1
  <2> QED BY <1>3, <1>6, <2>1, <2>2
<1>7. \A i \in DOMAIN t : t[i] = s[old(i)]
  BY <1>4
<1> HIDE DEF old
<1>8. Distinct(t)
  BY <1>5, <1>7 DEF Distinct
<1>9. Follows(t, s)
  <2> SUFFICES ASSUME NEW u, NEW w, Precedes(t, u, w)
               PROVE  Precedes(s, u, w)
    BY DEF Follows
  <2>1. PICK i \in DOMAIN t, j \in DOMAIN t :
          i < j /\ t[i].value = u /\ t[j].value = w
    BY DEF Precedes
  <2>2. /\ old(i) \in DOMAIN s /\ old(j) \in DOMAIN s /\ old(i) < old(j)
        /\ s[old(i)].value = u /\ s[old(j)].value = w
    BY <1>5, <1>7, <2>1
  <2> QED BY <2>2 DEF Precedes
<1>10. ASSUME NEW u, NEW e PROVE Holds(t, u, e) <=> (u # v /\ Holds(s, u, e))
  <2>1. ASSUME Holds(t, u, e) PROVE u # v /\ Holds(s, u, e)
    BY <1>1, <1>5, <1>7, <2>1 DEF Holds, Distinct
  <2>2. ASSUME u # v, Holds(s, u, e) PROVE Holds(t, u, e)
    <3>1. PICK i \in DOMAIN s : s[i].value = u /\ s[i].expireAt = e
      BY <2>2 DEF Holds
    <3>2. PICK a \in DOMAIN t : old(a) = i
      BY <1>1, <1>6, <2>2, <3>1
    <3> QED BY <1>7, <3>1, <3>2 DEF Holds
  <2> QED BY <2>1, <2>2
<1> QED BY <1>4, <1>8, <1>9, <1>10 DEF t
----------------------------------------------------------------------------
(* The map.                                                                *)

Slice(recs, n) == IF n \in DOMAIN recs THEN recs[n] ELSE <<>>

GoodRecords(recs) ==
  /\ DOMAIN recs \subseteq Names
  /\ \A n \in Names : Slice(recs, n) \in Seq(Entry) /\ Distinct(Slice(recs, n))

Ordered(new, old) == \A n \in Names : Follows(Slice(new, n), Slice(old, n))

(* The records a client can see, as the refinement mapping computes them   *)
(* from Lookup and as a set of entries that did not expire.                *)
LiveSet(recs, now) ==
  UNION {LET found == Unexpired(Slice(recs, n), now)
         IN {[name |-> n, value |-> found[i].value,
              expireAt |-> found[i].expireAt] : i \in DOMAIN found} :
         n \in Names}

Live(recs, now) ==
  {r \in [name : Names, value : Values, expireAt : Nat] :
     /\ Holds(Slice(recs, r.name), r.value, r.expireAt)
     /\ r.expireAt > now}

(* Both ways to say what a client can see agree.                           *)
LEMMA LiveSetIsLive ==
  ASSUME NEW recs, NEW now, GoodRecords(recs)
  PROVE  LiveSet(recs, now) = Live(recs, now)
<1> DEFINE Found(n) == Unexpired(Slice(recs, n), now)
           Seen(n) == {[name |-> n, value |-> Found(n)[i].value,
                        expireAt |-> Found(n)[i].expireAt] :
                       i \in DOMAIN Found(n)}
<1>1. LiveSet(recs, now) = UNION {Seen(n) : n \in Names}
  BY DEF LiveSet
<1>2. ASSUME NEW n \in Names
      PROVE  /\ Found(n) \in Seq(Entry)
             /\ \A v, e : Holds(Found(n), v, e) <=>
                            (Holds(Slice(recs, n), v, e) /\ e > now)
  BY UnexpiredSlice DEF GoodRecords
<1> HIDE DEF Found
<1>3. ASSUME NEW n \in Names, NEW r \in Seen(n) PROVE r \in Live(recs, now)
  <2>1. PICK i \in DOMAIN Found(n) :
          r = [name |-> n, value |-> Found(n)[i].value,
               expireAt |-> Found(n)[i].expireAt]
    BY <1>3
  <2>2. Found(n)[i] \in Entry
    BY <1>2
  <2>3. /\ r \in [name : Names, value : Values, expireAt : Nat]
        /\ r.name = n /\ r.value = Found(n)[i].value
        /\ r.expireAt = Found(n)[i].expireAt
    BY <2>1, <2>2 DEF Entry
  <2>4. Holds(Found(n), r.value, r.expireAt)
    BY <2>3 DEF Holds
  <2> QED BY <1>2, <2>3, <2>4 DEF Live
<1>4. ASSUME NEW r \in Live(recs, now) PROVE \E n \in Names : r \in Seen(n)
  <2>1. /\ r \in [name : Names, value : Values, expireAt : Nat]
        /\ Holds(Slice(recs, r.name), r.value, r.expireAt)
        /\ r.expireAt > now
    BY <1>4 DEF Live
  <2>2. r.name \in Names
    BY <2>1
  <2>3. Holds(Found(r.name), r.value, r.expireAt)
    BY <1>2, <2>1, <2>2
  <2>4. PICK i \in DOMAIN Found(r.name) :
          /\ Found(r.name)[i].value = r.value
          /\ Found(r.name)[i].expireAt = r.expireAt
    BY <2>3 DEF Holds
  <2>5. r = [name |-> r.name, value |-> Found(r.name)[i].value,
             expireAt |-> Found(r.name)[i].expireAt]
    BY <2>1, <2>4
  <2>6. r \in Seen(r.name)
    BY <2>5
  <2> QED BY <2>2, <2>6
<1> HIDE DEF Seen
<1> QED BY <1>1, <1>3, <1>4

(* A name that is not in the map.                                          *)
LEMMA EmptySlice ==
  /\ <<>> \in Seq(Entry) /\ Distinct(<<>>)
  /\ \A s : Follows(<<>>, s)
  /\ \A v, e : ~Holds(<<>>, v, e)
BY DEF Distinct, Follows, Precedes, Holds

(* A step that changes the slice of one name.                              *)
LEMMA OneSliceChanges ==
  ASSUME NEW recs, GoodRecords(recs), NEW n \in Names, NEW t \in Seq(Entry),
         Distinct(t), Follows(t, Slice(recs, n)),
         NEW new, DOMAIN new \subseteq Names,
         \A m \in Names : Slice(new, m) = IF m = n THEN t ELSE Slice(recs, m)
  PROVE  GoodRecords(new) /\ Ordered(new, recs)
<1>1. \A s : Follows(s, s)
  BY DEF Follows
<1> QED BY <1>1 DEF GoodRecords, Ordered

(* The three ways the map is updated, by the slices they leave.            *)
LEMMA WithSlice ==
  ASSUME NEW n, NEW t
  PROVE  /\ DOMAIN With(n, t) = DOMAIN records \cup {n}
         /\ \A m : Slice(With(n, t), m) = IF m = n THEN t ELSE Slice(records, m)
BY DEF With, Slice

(* Delete leaves no slice for the name.                                    *)
LEMMA WithoutSlice ==
  ASSUME NEW n
  PROVE  /\ DOMAIN Without(n) = DOMAIN records \ {n}
         /\ \A m : Slice(Without(n), m) = IF m = n THEN <<>>
                                                   ELSE Slice(records, m)
BY DEF Without, Slice

(* A slice that became empty is removed.                                   *)
LEMMA SetOrDropSlice ==
  ASSUME NEW n, NEW t
  PROVE  /\ DOMAIN SetOrDrop(n, t) \subseteq DOMAIN records \cup {n}
         /\ \A m : Slice(SetOrDrop(n, t), m) = IF m = n THEN t
                                                        ELSE Slice(records, m)
<1>1. CASE t = <<>>
  <2>1. SetOrDrop(n, t) = Without(n)
    BY <1>1 DEF SetOrDrop
  <2>2. \A m : Slice(Without(n), m) = IF m = n THEN <<>> ELSE Slice(records, m)
    BY WithoutSlice
  <2>3. DOMAIN Without(n) = DOMAIN records \ {n}
    BY WithoutSlice
  <2> QED BY <1>1, <2>1, <2>2, <2>3
<1>2. CASE t # <<>>
  <2>1. SetOrDrop(n, t) = With(n, t)
    BY <1>2 DEF SetOrDrop
  <2>2. DOMAIN With(n, t) = DOMAIN records \cup {n}
    BY WithSlice
  <2>3. \A m : Slice(With(n, t), m) = IF m = n THEN t ELSE Slice(records, m)
    BY DEF With, Slice
  <2> QED BY <2>1, <2>2, <2>3
<1> QED BY <1>1, <1>2

(* The sweep is invisible at every time that is not before its own.        *)
LEMMA SweepRecords ==
  ASSUME NEW recs, GoodRecords(recs), NEW now \in Nat
  PROVE  /\ GoodRecords(Sweep(recs, now)) /\ Ordered(Sweep(recs, now), recs)
         /\ \A c \in Nat : now <= c =>
              Live(Sweep(recs, now), c) = Live(recs, c)
<1> DEFINE new == Sweep(recs, now)
<1>1. ASSUME NEW n \in Names
      PROVE  /\ Slice(new, n) \in Seq(Entry) /\ Distinct(Slice(new, n))
             /\ Follows(Slice(new, n), Slice(recs, n))
             /\ \A v, e : Holds(Slice(new, n), v, e) <=>
                            (Holds(Slice(recs, n), v, e) /\ e > now)
  <2>1. CASE n \notin DOMAIN recs
    <3>1. Slice(recs, n) = <<>> /\ Slice(new, n) = <<>>
      BY <2>1 DEF Slice, Sweep
    <3> QED BY <3>1, EmptySlice
  <2>2. CASE n \in DOMAIN recs
    <3> DEFINE s == recs[n]
               t == Unexpired(s, now)
    <3>1. Slice(recs, n) = s
      BY <2>2 DEF Slice
    <3>2. s \in Seq(Entry) /\ Distinct(s)
      BY <3>1 DEF GoodRecords
    <3>3. /\ t \in Seq(Entry) /\ Distinct(t) /\ Follows(t, s)
          /\ \A v, e : Holds(t, v, e) <=> (Holds(s, v, e) /\ e > now)
      BY <3>2, UnexpiredSlice
    <3>4. Slice(new, n) = t
      <4>1. CASE t = <<>>
        BY <2>2, <4>1 DEF Slice, Sweep
      <4>2. CASE t # <<>>
        BY <2>2, <4>2 DEF Slice, Sweep
      <4> QED BY <4>1, <4>2
    <3> QED BY <3>1, <3>3, <3>4
  <2> QED BY <2>1, <2>2
<1>2. DOMAIN new \subseteq Names
  BY DEF Sweep, GoodRecords
<1> HIDE DEF new
<1>3. GoodRecords(new) /\ Ordered(new, recs)
  BY <1>1, <1>2 DEF GoodRecords, Ordered
<1>4. ASSUME NEW c \in Nat, now <= c PROVE Live(new, c) = Live(recs, c)
  <2> SUFFICES ASSUME NEW r \in [name : Names, value : Values, expireAt : Nat],
                      r.expireAt > c
               PROVE  Holds(Slice(new, r.name), r.value, r.expireAt)
                        <=> Holds(Slice(recs, r.name), r.value, r.expireAt)
    BY DEF Live
  <2>1. r.name \in Names /\ r.expireAt > now
    BY <1>4
  <2> QED BY <1>1, <2>1
<1> QED BY <1>3, <1>4 DEF new
----------------------------------------------------------------------------
(* The inductive invariant: no slice holds a value twice, which is what    *)
(* makes refreshing or removing the first match enough, and a Put that     *)
(* waits for the lock never holds an expiry beyond MaxTTL from now.        *)
PutsBounded ==
  \A p \in Puts : put[p] # None => put[p].expireAt <= clock + MaxTTL

StoreInv == TypeOK /\ GoodRecords(records) /\ PutsBounded

(* The API never stores beyond the longest TTL.                            *)
LEMMA ClampBounded ==
  ASSUME NEW ttl \in TTLs
  PROVE  clampTTL(ttl) \in Nat /\ clampTTL(ttl) <= MaxTTL
BY TTLAssumption DEF clampTTL

(* What each step that changes the map does to it.                         *)
LEMMA PutStoreRecords ==
  ASSUME StoreInv, NEW p \in Puts, PutStore(p)
  PROVE  LET n == put[p].name  v == put[p].value  x == put[p].expireAt
         IN /\ n \in Names /\ v \in Values /\ x \in 0..(clock + MaxTTL)
            /\ GoodRecords(records') /\ Ordered(records', records)
            /\ Live(records', clock) =
                 {r \in Live(records, clock) : r.name # n \/ r.value # v}
                   \cup {r \in {[name |-> n, value |-> v, expireAt |-> x]} :
                           x > clock}
<1> DEFINE n == put[p].name
           v == put[p].value
           x == put[p].expireAt
           s == Slice(records, n)
           t == Store(s, v, x)
<1>1. put[p] \in [name : Names, value : Values, expireAt : Nat] /\ put[p] # None
  BY DEF PutStore, StoreInv, TypeOK
<1>2. n \in Names /\ v \in Values /\ x \in Nat /\ x <= clock + MaxTTL
  BY <1>1 DEF StoreInv, PutsBounded
<1>3. clock \in Nat /\ clock + MaxTTL \in Nat
  BY TTLAssumption DEF StoreInv, TypeOK
<1>4. records' = With(n, t)
  BY DEF PutStore, Entries, Slice
<1> HIDE DEF n, v, x
<1>5. s \in Seq(Entry) /\ Distinct(s)
  BY <1>2 DEF StoreInv, GoodRecords
<1> HIDE DEF s
<1>6. /\ t \in Seq(Entry) /\ Distinct(t) /\ Follows(t, s)
      /\ \A u, e : Holds(t, u, e) <=> IF u = v THEN e = x ELSE Holds(s, u, e)
  BY <1>2, <1>5, StoreSlice
<1> HIDE DEF t
<1>7. /\ DOMAIN records' = DOMAIN records \cup {n}
      /\ \A m \in Names : Slice(records', m) = IF m = n THEN t
                                               ELSE Slice(records, m)
  BY <1>4, WithSlice
<1>8. DOMAIN records' \subseteq Names
  BY <1>2, <1>7 DEF StoreInv, GoodRecords
<1>9. GoodRecords(records') /\ Ordered(records', records)
  BY <1>2, <1>6, <1>7, <1>8, OneSliceChanges DEF StoreInv, s
<1>10. Live(records', clock) =
         {r \in Live(records, clock) : r.name # n \/ r.value # v}
           \cup {r \in {[name |-> n, value |-> v, expireAt |-> x]} : x > clock}
  <2> DEFINE R == [name : Names, value : Values, expireAt : Nat]
             y == [name |-> n, value |-> v, expireAt |-> x]
  <2>1. y \in R /\ \A r \in R :
          r = y <=> (r.name = n /\ r.value = v /\ r.expireAt = x)
    BY <1>2
  <2>2. ASSUME NEW r \in R
        PROVE  Holds(Slice(records', r.name), r.value, r.expireAt)
                 <=> \/ /\ r.name # n \/ r.value # v
                        /\ Holds(Slice(records, r.name), r.value, r.expireAt)
                     \/ r = y
    <3>1. r.name \in Names
      OBVIOUS
    <3>2. CASE r.name # n
      <4>1. Slice(records', r.name) = Slice(records, r.name)
        BY <1>7, <3>1, <3>2
      <4> QED BY <2>1, <3>2, <4>1
    <3>3. CASE r.name = n
      <4>1. Slice(records', r.name) = t /\ Slice(records, r.name) = s
        BY <1>7, <3>1, <3>3 DEF s
      <4> QED BY <1>6, <2>1, <3>3, <4>1
    <3> QED BY <3>2, <3>3
  <2>3. y.expireAt = x
    OBVIOUS
  <2> HIDE DEF y
  <2> QED BY <2>1, <2>2, <2>3 DEF Live, y
<1> QED BY <1>2, <1>3, <1>9, <1>10 DEF n, v, x

(* DELETE of a name removes its records and no others.                     *)
LEMMA DeleteRecords ==
  ASSUME StoreInv, NEW n \in Names, Delete(n)
  PROVE  /\ GoodRecords(records') /\ Ordered(records', records)
         /\ Live(records', clock) = {r \in Live(records, clock) : r.name # n}
<1>1. records' = Without(n)
  BY DEF Delete
<1>2. /\ DOMAIN records' = DOMAIN records \ {n}
      /\ \A m \in Names : Slice(records', m) = IF m = n THEN <<>>
                                               ELSE Slice(records, m)
  BY <1>1, WithoutSlice
<1>3. DOMAIN records' \subseteq Names
  BY <1>2 DEF StoreInv, GoodRecords
<1>4. GoodRecords(records') /\ Ordered(records', records)
  BY <1>2, <1>3, EmptySlice, OneSliceChanges DEF StoreInv
<1>5. ASSUME NEW r \in [name : Names, value : Values, expireAt : Nat]
      PROVE  Holds(Slice(records', r.name), r.value, r.expireAt)
               <=> /\ r.name # n
                   /\ Holds(Slice(records, r.name), r.value, r.expireAt)
  <2>1. r.name \in Names
    OBVIOUS
  <2> QED BY <1>2, <2>1, EmptySlice
<1> QED BY <1>4, <1>5 DEF Live

(* DELETE of a value removes this record and no other.                     *)
LEMMA DeleteValueRecords ==
  ASSUME StoreInv, NEW n \in Names, NEW v \in Values, DeleteValue(n, v)
  PROVE  /\ GoodRecords(records') /\ Ordered(records', records)
         /\ Live(records', clock) =
              {r \in Live(records, clock) : r.name # n \/ r.value # v}
<1> DEFINE s == Slice(records, n)
           t == DeleteEntry(s, v)
<1>1. Indices(s, v) # {} /\ records' = SetOrDrop(n, t)
  BY DEF DeleteValue, Slice
<1>2. s \in Seq(Entry) /\ Distinct(s)
  BY DEF StoreInv, GoodRecords
<1> HIDE DEF s
<1>3. /\ t \in Seq(Entry) /\ Distinct(t) /\ Follows(t, s)
      /\ \A u, e : Holds(t, u, e) <=> (u # v /\ Holds(s, u, e))
  BY <1>1, <1>2, DeleteSlice
<1> HIDE DEF t
<1>4. /\ DOMAIN records' \subseteq DOMAIN records \cup {n}
      /\ \A m \in Names : Slice(records', m) = IF m = n THEN t
                                               ELSE Slice(records, m)
  BY <1>1, SetOrDropSlice
<1>5. DOMAIN records' \subseteq Names
  BY <1>4 DEF StoreInv, GoodRecords
<1>6. GoodRecords(records') /\ Ordered(records', records)
  BY <1>3, <1>4, <1>5, OneSliceChanges DEF StoreInv, s
<1>7. ASSUME NEW r \in [name : Names, value : Values, expireAt : Nat]
      PROVE  Holds(Slice(records', r.name), r.value, r.expireAt)
               <=> /\ r.name # n \/ r.value # v
                   /\ Holds(Slice(records, r.name), r.value, r.expireAt)
  <2>1. r.name \in Names
    OBVIOUS
  <2>2. CASE r.name # n
    BY <1>4, <2>1, <2>2
  <2>3. CASE r.name = n
    BY <1>3, <1>4, <2>1, <2>3 DEF s
  <2> QED BY <2>2, <2>3
<1> QED BY <1>6, <1>7 DEF Live

(* A new or cleared map shows nothing.                                     *)
LEMMA ClearRecords ==
  ASSUME NEW recs, recs = [n \in {} |-> <<>>], NEW now
  PROVE  /\ GoodRecords(recs) /\ Live(recs, now) = {}
         /\ \A old : Ordered(recs, old)
<1>1. DOMAIN recs = {} /\ \A n : Slice(recs, n) = <<>>
  BY DEF Slice
<1>2. GoodRecords(recs)
  BY <1>1, EmptySlice DEF GoodRecords
<1>3. \A old : Ordered(recs, old)
  BY <1>1, EmptySlice DEF Ordered
<1>4. Live(recs, now) = {}
  BY <1>1, EmptySlice DEF Live
<1> QED BY <1>2, <1>3, <1>4

(* A sweep, with a time that may be old, changes nothing a client can see. *)
LEMMA GCSweepRecords ==
  ASSUME StoreInv, GCSweep
  PROVE  /\ GoodRecords(records') /\ Ordered(records', records)
         /\ Live(records', clock) = Live(records, clock)
<1>1. clock \in Nat /\ gcNow \in Nat /\ gcNow <= clock
  BY TTLAssumption DEF StoreInv, TypeOK
<1> QED BY <1>1, SweepRecords DEF StoreInv, GCSweep

(* NewStore establishes the invariant.                                     *)
LEMMA InitStore == Init => StoreInv
<1> SUFFICES ASSUME Init PROVE StoreInv
  OBVIOUS
<1>1. TypeOK
  BY TTLAssumption DEF Init, TypeOK, Operations
<1>2. GoodRecords(records)
  BY ClearRecords DEF Init
<1> QED BY <1>1, <1>2 DEF StoreInv, PutsBounded, Init

(* One step keeps the invariant and the order within every slice.          *)
LEMMA NextStore ==
  ASSUME StoreInv, [Next]_vars
  PROVE  StoreInv' /\ Ordered(records', records)
<1>0. Ordered(records, records)
  BY DEF Ordered, Follows
<1>1. CASE UNCHANGED vars
  <2>1. records' = records
    BY <1>1 DEF vars
  <2> QED BY <1>0, <1>1, <2>1
          DEF vars, StoreInv, TypeOK, PutsBounded
<1>2. ASSUME GoodRecords(records'), TypeOK', PutsBounded'
      PROVE  StoreInv'
  BY <1>2 DEF StoreInv
<1>3. CASE Tick
  <2>1. TypeOK'
    BY <1>3, TTLAssumption DEF StoreInv, TypeOK, Tick
  <2>2. PutsBounded'
    BY <1>3, TTLAssumption DEF StoreInv, TypeOK, PutsBounded, Tick
  <2> QED BY <1>0, <1>2, <1>3, <2>1, <2>2 DEF StoreInv, Tick
<1>4. ASSUME NEW p \in Puts, PutSample(p) PROVE StoreInv' /\ Ordered(records', records)
  <2>1. PICK n \in Names, v \in Values, ttl \in TTLs :
          put' = [put EXCEPT ![p] = [name |-> n, value |-> v,
                                     expireAt |-> clock + clampTTL(ttl)]]
    BY <1>4 DEF PutSample
  <2> DEFINE x == clock + clampTTL(ttl)
             y == [name |-> n, value |-> v, expireAt |-> x]
  <2>2. clock \in Nat /\ MaxTTL \in Nat
    BY TTLAssumption DEF StoreInv, TypeOK
  <2>3. x \in Nat /\ x <= clock + MaxTTL
    BY <2>2, ClampBounded
  <2> HIDE DEF x
  <2>4. y \in [name : Names, value : Values, expireAt : Nat] /\ y.expireAt = x
    BY <2>3
  <2> HIDE DEF y
  <2>5. put' = [put EXCEPT ![p] = y]
    BY <2>1 DEF x, y
  <2>6. UNCHANGED <<clock, records, gc, gcNow, op>>
    BY <1>4 DEF PutSample
  <2>7. TypeOK'
    BY <2>4, <2>5, <2>6 DEF StoreInv, TypeOK
  <2>8. PutsBounded'
    BY <2>3, <2>4, <2>5, <2>6 DEF StoreInv, TypeOK, PutsBounded
  <2> QED BY <1>0, <1>2, <2>6, <2>7, <2>8 DEF StoreInv
<1>5. ASSUME GoodRecords(records'), Ordered(records', records),
             clock' = clock, gc' \in {"idle", "sample", "sweep"},
             gcNow' \in 0..clock,
             op' \in Operations,
             put' \in [Puts -> [name : Names, value : Values, expireAt : Nat]
                                 \cup {None}],
             \A q \in Puts : put'[q] = put[q] \/ put'[q] = None
      PROVE  StoreInv' /\ Ordered(records', records)
  <2>1. \A n \in DOMAIN records' : n \in Names /\ records'[n] \in Seq(Entry)
    BY <1>5 DEF GoodRecords, Slice
  <2>2. TypeOK'
    BY <1>5, <2>1 DEF StoreInv, TypeOK
  <2>3. PutsBounded'
    BY <1>5 DEF StoreInv, PutsBounded
  <2> QED BY <1>2, <1>5, <2>2, <2>3
<1>6. /\ clock \in Nat /\ gcNow \in 0..clock /\ 0 \in 0..clock /\ clock \in 0..clock
      /\ op \in Operations /\ gc \in {"idle", "sample", "sweep"}
      /\ put \in [Puts -> [name : Names, value : Values, expireAt : Nat]
                            \cup {None}]
  BY DEF StoreInv, TypeOK
<1>7. ASSUME NEW p \in Puts, PutStore(p) PROVE StoreInv' /\ Ordered(records', records)
  <2>1. /\ put[p].name \in Names /\ put[p].value \in Values
        /\ GoodRecords(records') /\ Ordered(records', records)
    BY <1>7, PutStoreRecords
  <2>2. op' \in Operations
    BY <1>7, <2>1 DEF PutStore, Operations
  <2>3. put' = [put EXCEPT ![p] = None] /\ UNCHANGED <<clock, gc, gcNow>>
    BY <1>7 DEF PutStore
  <2> QED BY <1>5, <1>6, <2>1, <2>2, <2>3
<1>8. ASSUME NEW n \in Names, Delete(n) PROVE StoreInv' /\ Ordered(records', records)
  <2>1. GoodRecords(records') /\ Ordered(records', records)
    BY <1>8, DeleteRecords
  <2>2. op' \in Operations /\ UNCHANGED <<clock, put, gc, gcNow>>
    BY <1>8 DEF Delete, Operations
  <2> QED BY <1>5, <1>6, <2>1, <2>2
<1>9. ASSUME NEW n \in Names, NEW v \in Values, DeleteValue(n, v)
      PROVE  StoreInv' /\ Ordered(records', records)
  <2>1. GoodRecords(records') /\ Ordered(records', records)
    BY <1>9, DeleteValueRecords
  <2>2. op' \in Operations /\ UNCHANGED <<clock, put, gc, gcNow>>
    BY <1>9 DEF DeleteValue, Operations
  <2> QED BY <1>5, <1>6, <2>1, <2>2
<1>10. CASE Clear
  <2>1. GoodRecords(records') /\ Ordered(records', records)
    BY <1>10, ClearRecords DEF Clear
  <2>2. op' \in Operations /\ UNCHANGED <<clock, put, gc, gcNow>>
    BY <1>10 DEF Clear, Operations
  <2> QED BY <1>5, <1>6, <2>1, <2>2
<1>11. CASE GCProbe \/ GCSample
  <2>1. /\ UNCHANGED <<clock, records, put, op>>
        /\ gc' \in {"idle", "sample", "sweep"} /\ gcNow' \in 0..clock
    BY <1>6, <1>11 DEF GCProbe, GCSample
  <2> QED BY <1>0, <1>5, <1>6, <2>1 DEF StoreInv
<1>12. CASE GCSweep
  <2>1. GoodRecords(records') /\ Ordered(records', records)
    BY <1>12, GCSweepRecords
  <2>2. /\ UNCHANGED <<clock, put, op>>
        /\ gc' \in {"idle", "sample", "sweep"} /\ gcNow' \in 0..clock
    BY <1>6, <1>12 DEF GCSweep
  <2> QED BY <1>5, <1>6, <2>1, <2>2
<1> QED BY <1>1, <1>3, <1>4, <1>7, <1>8, <1>9, <1>10, <1>11, <1>12 DEF Next, GC

(* The store's invariant, for any names, values, TTLs and requests: types, *)
(* no value twice in a slice, and no waiting Put beyond the TTL limit.     *)
THEOREM StoreInvariance == Spec => []StoreInv
<1>1. Init => StoreInv
  BY InitStore
<1>2. StoreInv /\ [Next]_vars => StoreInv'
  BY NextStore
<1> QED BY <1>1, <1>2, PTL DEF Spec

(* Answers come in order of insertion: no Put, delete, reload or sweep     *)
(* permutes two values that were stored before it.                         *)
THEOREM SlicesKeepOrder == Spec => OrderKept
<1>1. ASSUME StoreInv, [Next]_vars, NEW n \in Names,
             NEW v \in Values, NEW w \in Values,
             Before(records, n, v, w), Before(records', n, w, v)
      PROVE  FALSE
  <2> DEFINE s == Slice(records, n)
             t == Slice(records', n)
  <2>1. Precedes(s, v, w) /\ Precedes(t, w, v)
    BY <1>1 DEF Before, Slice, Precedes
  <2>2. Follows(t, s)
    BY <1>1, NextStore DEF Ordered
  <2>3. s \in Seq(Entry) /\ Distinct(s)
    BY <1>1 DEF StoreInv, GoodRecords
  <2> HIDE DEF s, t
  <2>4. PICK i \in DOMAIN s, j \in DOMAIN s :
          i < j /\ s[i].value = v /\ s[j].value = w
    BY <2>1 DEF Precedes
  <2>5. Precedes(s, w, v)
    BY <2>1, <2>2, <2>4 DEF Follows, Mentions
  <2>6. PICK k \in DOMAIN s, l \in DOMAIN s :
          k < l /\ s[k].value = w /\ s[l].value = v
    BY <2>5 DEF Precedes
  <2>7. k = j /\ l = i
    BY <2>3, <2>4, <2>6 DEF Distinct
  <2>8. i \in Nat /\ j \in Nat
    BY <2>3
  <2> QED BY <2>4, <2>6, <2>7, <2>8
<1>2. StoreInv /\ [Next]_vars =>
        [\A n \in Names, v, w \in Values :
           Before(records, n, v, w) => ~Before(records', n, w, v)]_vars
  BY <1>1
<1> QED BY <1>2, StoreInvariance, PTL DEF Spec, OrderKept
----------------------------------------------------------------------------
(* Refinement.                                                             *)

(* The refinement mapping, before and after a step.                        *)
LEMMA MappedRecords ==
  /\ GoodRecords(records) => LiveRecords = Live(records, clock)
  /\ GoodRecords(records') => LiveRecords' = Live(records', clock')
<1>1. LiveRecords = LiveSet(records, clock)
  BY DEF LiveRecords, LiveSet, Lookup, Entries, Slice
<1>2. LiveRecords' = LiveSet(records', clock')
  BY DEF LiveRecords, LiveSet, Lookup, Entries, Slice
<1> QED BY <1>1, <1>2, LiveSetIsLive

(* The initial state maps to the initial state of the abstract store.      *)
LEMMA InitRefines == Init => Abstract!Init
<1> SUFFICES ASSUME Init PROVE Abstract!Init
  OBVIOUS
<1>1. GoodRecords(records) /\ Live(records, clock) = {}
  BY ClearRecords DEF Init
<1> QED BY <1>1, MappedRecords DEF Init, Abstract!Init

(* Every step is one of the abstract store's, or changes nothing that a    *)
(* client can see.                                                         *)
LEMMA StepRefines ==
  ASSUME StoreInv, [Next]_vars
  PROVE  Abstract!Next \/ UNCHANGED <<clock, LiveRecords, op>>
<1> DEFINE old == Live(records, clock)
           new == Live(records', clock')
<1>1. LiveRecords = old /\ LiveRecords' = new
  BY NextStore, MappedRecords DEF StoreInv
<1> HIDE DEF old, new
<1>2. CASE UNCHANGED vars
  BY <1>1, <1>2 DEF vars, old, new
<1>3. CASE Tick
  <2>1. clock' = clock + 1 /\ records' = records /\ op' = op /\ clock \in Nat
    BY <1>3 DEF Tick, StoreInv, TypeOK
  <2>2. new = {r \in old : r.expireAt > clock'}
    BY <2>1 DEF Live, old, new
  <2>3. Abstract!Tick
    BY <1>1, <2>1, <2>2 DEF Abstract!Tick
  <2> QED BY <2>3 DEF Abstract!Next
<1>4. ASSUME NEW p \in Puts, PutSample(p)
      PROVE  UNCHANGED <<clock, LiveRecords, op>>
  BY <1>1, <1>4 DEF PutSample, old, new
<1>5. ASSUME NEW p \in Puts, PutStore(p) PROVE Abstract!Next
  <2> DEFINE n == put[p].name
             v == put[p].value
             x == put[p].expireAt
  <2>1. clock' = clock /\ op' = <<"put", n, v>>
    BY <1>5 DEF PutStore
  <2>2. /\ n \in Names /\ v \in Values /\ x \in 0..(clock + MaxTTL)
        /\ new = {r \in old : r.name # n \/ r.value # v}
                   \cup {r \in {[name |-> n, value |-> v, expireAt |-> x]} :
                           x > clock}
    BY <1>5, <2>1, PutStoreRecords DEF old, new
  <2> HIDE DEF n, v, x
  <2>3. x <= clock + MaxTTL
    BY <2>2
  <2>4. Abstract!Put(n, v, x)
    BY <1>1, <2>1, <2>2, <2>3 DEF Abstract!Put
  <2> QED BY <2>2, <2>4 DEF Abstract!Next
<1>6. ASSUME NEW n \in Names, Delete(n) PROVE Abstract!Next
  <2>1. clock' = clock /\ op' = <<"delete", n>>
    BY <1>6 DEF Delete
  <2>2. new = {r \in old : r.name # n}
    BY <1>6, <2>1, DeleteRecords DEF old, new
  <2>3. Abstract!Delete(n)
    BY <1>1, <2>1, <2>2 DEF Abstract!Delete
  <2> QED BY <2>3 DEF Abstract!Next
<1>7. ASSUME NEW n \in Names, NEW v \in Values, DeleteValue(n, v)
      PROVE  Abstract!Next
  <2>1. clock' = clock /\ op' = <<"deleteValue", n, v>>
    BY <1>7 DEF DeleteValue
  <2>2. new = {r \in old : r.name # n \/ r.value # v}
    BY <1>7, <2>1, DeleteValueRecords DEF old, new
  <2>3. Abstract!DeleteValue(n, v)
    BY <1>1, <2>1, <2>2 DEF Abstract!DeleteValue
  <2> QED BY <2>3 DEF Abstract!Next
<1>8. CASE Clear
  <2>1. clock' = clock /\ op' = <<"clear">>
    BY <1>8 DEF Clear
  <2>2. new = {}
    BY <1>8, ClearRecords DEF Clear, new
  <2>3. Abstract!Clear
    BY <1>1, <2>1, <2>2 DEF Abstract!Clear
  <2> QED BY <2>3 DEF Abstract!Next
<1>9. CASE GCProbe \/ GCSample
  <2>1. clock' = clock /\ op' = op /\ records' = records
    BY <1>9 DEF GCProbe, GCSample
  <2> QED BY <1>1, <2>1 DEF old, new
<1>10. CASE GCSweep
  <2>1. clock' = clock /\ op' = op
    BY <1>10 DEF GCSweep
  <2>2. new = old
    BY <1>10, <2>1, GCSweepRecords DEF old, new
  <2> QED BY <1>1, <2>1, <2>2
<1> QED BY <1>2, <1>3, <1>4, <1>5, <1>6, <1>7, <1>8, <1>9, <1>10 DEF Next, GC

(* What DNS clients see of the slices, the waiting Puts and the sweeps is  *)
(* the abstract store: a record is visible from its Put to its expiry, its *)
(* delete or the next reload, and sweeping is invisible.                   *)
THEOREM StoreRefines == Spec => ImplementsTxtStore
<1>1. Init => Abstract!Init
  BY InitRefines
<1>2. StoreInv /\ [Next]_vars => [Abstract!Next]_<<clock, LiveRecords, op>>
  BY StepRefines
<1> QED BY <1>1, <1>2, StoreInvariance, PTL
        DEF Spec, ImplementsTxtStore, Abstract!Spec
=============================================================================
