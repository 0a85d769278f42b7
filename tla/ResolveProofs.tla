--------------------------- MODULE ResolveProofs ----------------------------
(***************************************************************************)
(* The answers of the query handler and of the zone transfer, for any zone *)
(* contents, any two origins of which neither lies in the other, any depth *)
(* limit and any number of records.                                        *)
(*                                                                         *)
(* First what the operators of ZoneData and Alias yield (RewriteName, the  *)
(* loop of Kept, AddRR, Lookup, the stages), and ResolveInv, after which   *)
(* each property is about one response.  Then, in this order: the names in *)
(* the ephemeral store, the names that do not exist, the transfer; the     *)
(* root's stages and the backup's in pairs (Mirrors); the origins in a     *)
(* rewritten name, the chain as a walk (Walk), and the two loops over a    *)
(* chain side by side (Stands).                                            *)
(***************************************************************************)
EXTENDS Resolve, SequenceTheorems, WellFoundedInduction, TLAPS

(* Induction over a set of natural numbers.                                *)
LEMMA NatSetInduction ==
  ASSUME NEW T \in SUBSET Nat, 0 \in T, \A n \in T : n + 1 \in T
  PROVE  \A n \in Nat : n \in T
<1> DEFINE R == OpToRel(<, Nat)
           U == Nat \ T
<1>1. IsWellFoundedOn(R, Nat)
  BY NatLessThanWellFounded
<1>2. SUFFICES ASSUME U # {} PROVE FALSE
  OBVIOUS
<1>3. PICK m \in U : \A y \in U : ~ (<<y, m>> \in R)
  BY <1>1, <1>2, WFMin, Zenon
<1>4. m \in Nat /\ m \notin T /\ m # 0
  BY <1>3
<1>5. m - 1 \in Nat /\ m - 1 < m /\ (m - 1) + 1 = m
  BY <1>4
<1>6. <<m - 1, m>> \in R /\ m - 1 \in U
  BY <1>4, <1>5 DEF OpToRel
<1> QED
  BY <1>3, <1>6, Zenon

(* A set of natural numbers has a least element.                           *)
LEMMA LeastExists ==
  ASSUME NEW T \in SUBSET Nat, T # {}
  PROVE  \E m \in T : \A y \in T : m <= y
<1> DEFINE R == OpToRel(<, Nat)
<1>1. IsWellFoundedOn(R, Nat)
  BY NatLessThanWellFounded
<1>2. PICK m \in T : \A y \in T : ~ (<<y, m>> \in R)
  BY <1>1, WFMin, Zenon
<1>3. ASSUME NEW y \in T PROVE m <= y
  <2>1. ~(y < m)
    BY <1>2 DEF OpToRel
  <2> QED
    BY <2>1
<1> QED
  BY <1>3
----------------------------------------------------------------------------
(* Names.  A name in a zone is a prefix before the origin.                 *)
LEMMA InZoneSplits ==
  ASSUME NEW n \in Name, NEW o \in Name, IsInZone(n, o)
  PROVE  LET p == SubSeq(n, 1, Len(n) - Len(o))
         IN p \in Name /\ n = p \o o
<1> DEFINE p == SubSeq(n, 1, Len(n) - Len(o))
<1>0. Len(n) \in Nat /\ Len(o) \in Nat /\ Len(n) >= Len(o)
  BY DEF Name, IsInZone
<1>1. p \in Name /\ Len(p) = Len(n) - Len(o)
  BY <1>0 DEF Name
<1>2. \A i \in 1..Len(p) : p[i] = n[i]
  BY <1>0, <1>1 DEF Name
<1>3. \A i \in 1..Len(o) : o[i] = n[Len(n) - Len(o) + i]
  BY <1>0 DEF Name, IsInZone
<1>4. p \o o \in Name /\ Len(p \o o) = Len(n)
  BY <1>0, <1>1 DEF Name
<1>5. \A i \in 1..Len(n) : (p \o o)[i] = n[i]
  BY <1>0, <1>1, <1>2, <1>3 DEF Name
<1>6. p \o o = n
  BY <1>4, <1>5, SeqEqual DEF Name
<1> QED
  BY <1>1, <1>6

LEMMA SuffixLabels ==
  ASSUME NEW n \in Name, NEW o \in Name, IsInZone(n, o)
  PROVE  \A i \in 1..Len(o) : o[i] = n[Len(n) - Len(o) + i]
<1>1. Len(n) \in Nat /\ Len(o) \in Nat /\ Len(n) >= Len(o)
  BY DEF Name, IsInZone
<1> QED
  BY <1>1 DEF Name, IsInZone

LEMMA PrefixInZone ==
  ASSUME NEW p \in Name, NEW o \in Name
  PROVE  /\ p \o o \in Name /\ IsInZone(p \o o, o)
         /\ Len(p \o o) = Len(p) + Len(o)
         /\ SubSeq(p \o o, 1, Len(p \o o) - Len(o)) = p
<1>0. Len(p) \in Nat /\ Len(o) \in Nat
  BY DEF Name
<1>1. p \o o \in Name /\ Len(p \o o) = Len(p) + Len(o)
  BY <1>0 DEF Name
<1>2. SubSeq(p \o o, Len(p) + 1, Len(p) + Len(o)) = o
  BY <1>0, <1>1 DEF Name
<1>3. SubSeq(p \o o, 1, Len(p)) = p
  BY <1>0, <1>1 DEF Name
<1> QED
  BY <1>0, <1>1, <1>2, <1>3 DEF IsInZone

LEMMA RewritePrefix ==
  ASSUME NEW p \in Name, NEW a \in Name, NEW b
  PROVE  RewriteName(p \o a, a, b) = p \o b
  BY PrefixInZone DEF RewriteName

(* RewriteName, between any two origins.                                   *)
LEMMA RewriteNameFacts ==
  ASSUME NEW n \in Name, NEW a \in Name, NEW b \in Name
  PROVE  /\ RewriteName(n, a, b) \in Name
         /\ ~IsInZone(n, a) => RewriteName(n, a, b) = n
         /\ IsInZone(n, a) => /\ IsInZone(RewriteName(n, a, b), b)
                              /\ RewriteName(RewriteName(n, a, b), b, a) = n
         /\ RewriteName(n, a, a) = n
<1>1. CASE ~IsInZone(n, a)
  BY <1>1 DEF RewriteName
<1>2. CASE IsInZone(n, a)
  <2>1. PICK p \in Name : n = p \o a
    BY <1>2, InZoneSplits
  <2>2. RewriteName(n, a, b) = p \o b /\ RewriteName(p \o b, b, a) = p \o a
        /\ RewriteName(n, a, a) = p \o a
    BY <2>1, RewritePrefix
  <2>3. p \o b \in Name /\ IsInZone(p \o b, b)
    BY PrefixInZone
  <2> QED
    BY <1>2, <2>1, <2>2, <2>3
<1> QED
  BY <1>1, <1>2

(* Of two origins above one name, one is above the other.                  *)
LEMMA NestedOrigins ==
  ASSUME NEW n \in Name, NEW a \in Name, NEW b \in Name,
         IsInZone(n, a), IsInZone(n, b), Len(a) <= Len(b)
  PROVE  IsInZone(b, a)
<1>0. /\ Len(n) \in Nat /\ Len(a) \in Nat /\ Len(b) \in Nat
      /\ Len(n) >= Len(b)
  BY DEF Name, IsInZone
<1>1. \A i \in 1..Len(a) : a[i] = n[Len(n) - Len(a) + i]
  BY SuffixLabels
<1>2. \A i \in 1..Len(b) : b[i] = n[Len(n) - Len(b) + i]
  BY SuffixLabels
<1> DEFINE s == SubSeq(b, Len(b) - Len(a) + 1, Len(b))
<1>3. s \in Name /\ Len(s) = Len(a)
  BY <1>0 DEF Name
<1>4. \A i \in 1..Len(a) : s[i] = b[Len(b) - Len(a) + i]
  BY <1>0 DEF Name
<1>5. \A i \in 1..Len(a) : s[i] = a[i]
  <2> TAKE i \in 1..Len(a)
  <2>1. /\ Len(b) - Len(a) + i \in 1..Len(b)
        /\ Len(n) - Len(b) + (Len(b) - Len(a) + i) = Len(n) - Len(a) + i
    BY <1>0
  <2> QED
    BY <2>1, <1>1, <1>2, <1>4
<1>6. s = a
  BY <1>3, <1>5, SeqEqual DEF Name
<1> QED
  BY <1>0, <1>6 DEF IsInZone

(* Detect has at most one zone to choose.                                  *)
LEMMA OneZone ==
  ASSUME NEW n \in Name, IsInZone(n, BackupOrigin)
  PROVE  ~IsInZone(n, RootOrigin)
<1>0. Len(RootOrigin) \in Nat /\ Len(BackupOrigin) \in Nat
  BY OriginsAssumption DEF Name
<1> QED
  BY <1>0, OriginsAssumption, NestedOrigins

LEMMA AtRootFacts ==
  ASSUME NEW n \in Name
  PROVE  /\ AtRoot(n) \in Name
         /\ ~IsInZone(n, BackupOrigin) => AtRoot(n) = n
         /\ IsInZone(n, BackupOrigin) =>
              /\ IsInZone(AtRoot(n), RootOrigin)
              /\ RewriteName(AtRoot(n), RootOrigin, BackupOrigin) = n
  BY RewriteNameFacts, OriginsAssumption DEF AtRoot

(* What was rewritten from the root to the backup is not in the root.      *)
LEMMA RewrittenLeavesRoot ==
  ASSUME NEW n \in Name
  PROVE  /\ RewriteName(n, RootOrigin, BackupOrigin) \in Name
         /\ ~IsInZone(RewriteName(n, RootOrigin, BackupOrigin), RootOrigin)
  BY RewriteNameFacts, OriginsAssumption, OneZone
----------------------------------------------------------------------------
(* FilterBackupRRs.  The recursion of Kept has a solution.                 *)
KeptBody(rrs, g) ==
  [i \in 0..Len(rrs) |-> IF i = 0 THEN <<>>
                         ELSE IF rrs[i].type \in Uncovered THEN g[i - 1]
                         ELSE Append(g[i - 1], rrs[i])]

LEMMA KeptExists ==
  ASSUME NEW rrs, Len(rrs) \in Nat
  PROVE  \E g : g = KeptBody(rrs, g)
<1> DEFINE Step(g, i) == IF i = 0 THEN <<>>
                         ELSE IF rrs[i].type \in Uncovered THEN g[i - 1]
                         ELSE Append(g[i - 1], rrs[i])
           T == {n \in Nat : \E g : g = [i \in 0..n |-> Step(g, i)]}
<1>1. 0 \in T
  <2> DEFINE g == [i \in 0..0 |-> <<>>]
  <2>1. g = [i \in 0..0 |-> Step(g, i)]
    OBVIOUS
  <2> HIDE DEF g
  <2> QED
    BY <2>1
<1>2. ASSUME NEW n \in T PROVE n + 1 \in T
  <2>1. PICK g : g = [i \in 0..n |-> Step(g, i)]
    OBVIOUS
  <2>2. n \in Nat /\ n + 1 \in Nat
    OBVIOUS
  <2> DEFINE h == [i \in 0..(n + 1) |-> Step(g, i)]
  <2>3. \A i \in 0..n : h[i] = g[i]
    <3> HIDE DEF Step
    <3>1. \A i \in 0..n : g[i] = Step(g, i)
      BY <2>1, Zenon
    <3>2. \A i \in 0..n : i \in 0..(n + 1)
      BY <2>2
    <3> QED
      BY <3>1, <3>2
  <2>4. \A i \in 0..(n + 1) : i # 0 => i - 1 \in 0..n
    BY <2>2
  <2> HIDE DEF h
  <2>5. \A i \in 0..(n + 1) : Step(h, i) = Step(g, i)
    BY <2>3, <2>4
  <2> USE DEF h
  <2>6. h = [i \in 0..(n + 1) |-> Step(h, i)]
    BY <2>5
  <2> HIDE DEF h
  <2> QED
    BY <2>2, <2>6
<1>3. Len(rrs) \in T
  <2>1. T \in SUBSET Nat /\ \A n \in T : n + 1 \in T
    BY <1>2
  <2> HIDE DEF T
  <2> QED
    BY <1>1, <2>1, NatSetInduction
<1> QED
  BY <1>3 DEF KeptBody

(* So Kept is the last of the sequences that satisfy its equations.        *)
LEMMA KeptEquations ==
  ASSUME NEW rrs, Len(rrs) \in Nat
  PROVE  \E K : /\ Kept(rrs) = K[Len(rrs)]
                /\ K[0] = <<>>
                /\ \A i \in 1..Len(rrs) :
                     K[i] = IF rrs[i].type \in Uncovered THEN K[i - 1]
                            ELSE Append(K[i - 1], rrs[i])
<1> DEFINE P(g) == g = KeptBody(rrs, g)
           K == CHOOSE g : P(g)
<1>1. \E g : P(g)
  BY KeptExists
<1>2. Kept(rrs) = K[Len(rrs)]
  BY DEF Kept, KeptBody
<1> HIDE DEF P
<1>3. P(K)
  BY <1>1, Zenon
<1> USE DEF P
<1> HIDE DEF K
<1>4. \A i \in 0..Len(rrs) :
        K[i] = IF i = 0 THEN <<>>
               ELSE IF rrs[i].type \in Uncovered THEN K[i - 1]
               ELSE Append(K[i - 1], rrs[i])
  BY <1>3, Zenon DEF KeptBody
<1>5. K[0] = <<>> /\ \A i \in 1..Len(rrs) :
        K[i] = IF rrs[i].type \in Uncovered THEN K[i - 1]
               ELSE Append(K[i - 1], rrs[i])
  BY <1>4
<1> QED
  BY <1>2, <1>5

(* s is what is kept of the first n records, and pos says where each was.  *)
Selected(rrs, n, s, pos) ==
  /\ s \in Seq(Record)
  /\ pos \in [1..Len(s) -> 1..n]
  /\ \A a \in 1..Len(s) : /\ s[a] = rrs[pos[a]]
                          /\ rrs[pos[a]].type \notin Uncovered
  /\ \A a, b \in 1..Len(s) : a < b => pos[a] < pos[b]
  /\ \A i \in 1..n : rrs[i].type \notin Uncovered
                       => \E a \in 1..Len(s) : pos[a] = i
  /\ (\A i \in 1..n : rrs[i].type \notin Uncovered) =>
       Len(s) = n /\ \A i \in 1..n : s[i] = rrs[i]

LEMMA SelectedSkip ==
  ASSUME NEW rrs, NEW n \in Nat, NEW s, NEW pos, Selected(rrs, n, s, pos),
         rrs[n + 1].type \in Uncovered
  PROVE  Selected(rrs, n + 1, s, pos)
<1>1. s \in Seq(Record) /\ Len(s) \in Nat
  BY DEF Selected
<1>2. pos \in [1..Len(s) -> 1..(n + 1)]
  BY <1>1 DEF Selected
<1>3. \A i \in 1..(n + 1) : rrs[i].type \notin Uncovered
        => \E a \in 1..Len(s) : pos[a] = i
  BY <1>1 DEF Selected
<1>4. ~ \A i \in 1..(n + 1) : rrs[i].type \notin Uncovered
  BY n + 1 \in 1..(n + 1)
<1> QED
  BY <1>1, <1>2, <1>3, <1>4 DEF Selected

LEMMA SelectedTake ==
  ASSUME NEW rrs \in Seq(Record), NEW n \in Nat, NEW s, NEW pos,
         n + 1 \in DOMAIN rrs, Selected(rrs, n, s, pos),
         rrs[n + 1].type \notin Uncovered
  PROVE  \E q : Selected(rrs, n + 1, Append(s, rrs[n + 1]), q)
<1> DEFINE t == Append(s, rrs[n + 1])
           q == [a \in 1..Len(t) |-> IF a \in 1..Len(s) THEN pos[a] ELSE n + 1]
<1>1. s \in Seq(Record) /\ Len(s) \in Nat /\ pos \in [1..Len(s) -> 1..n]
  BY DEF Selected
<1>2. rrs[n + 1] \in Record
  OBVIOUS
<1>3. /\ t \in Seq(Record) /\ Len(t) = Len(s) + 1
      /\ t[Len(s) + 1] = rrs[n + 1]
      /\ \A a \in 1..Len(s) : t[a] = s[a]
  BY <1>1, <1>2
<1>4. \A a \in 1..Len(t) :
        a \in 1..Len(s) \/ (a = Len(s) + 1 /\ a \notin 1..Len(s))
  BY <1>1, <1>3
<1> HIDE DEF t
<1>5. /\ \A a \in 1..Len(s) : a \in 1..Len(t) /\ q[a] = pos[a]
      /\ Len(s) + 1 \in 1..Len(t) /\ q[Len(s) + 1] = n + 1
  BY <1>1, <1>3
<1>6. q \in [1..Len(t) -> 1..(n + 1)]
  BY <1>1, <1>4
<1> HIDE DEF q
<1>7. \A a \in 1..Len(t) : /\ t[a] = rrs[q[a]]
                           /\ rrs[q[a]].type \notin Uncovered
  BY <1>3, <1>4, <1>5 DEF Selected
<1>8. \A a, b \in 1..Len(t) : a < b => q[a] < q[b]
  <2> SUFFICES ASSUME NEW a \in 1..Len(t), NEW b \in 1..Len(t), a < b
               PROVE  q[a] < q[b]
    OBVIOUS
  <2>1. a \in 1..Len(s) /\ q[a] = pos[a] /\ pos[a] \in 1..n
    BY <1>1, <1>3, <1>4, <1>5
  <2>2. CASE b \in 1..Len(s)
    BY <1>5, <2>1, <2>2 DEF Selected
  <2>3. CASE b = Len(s) + 1
    BY <1>5, <2>1, <2>3
  <2> QED
    BY <1>4, <2>2, <2>3
<1>9. ASSUME NEW i \in 1..(n + 1), rrs[i].type \notin Uncovered
      PROVE  \E a \in 1..Len(t) : q[a] = i
  <2>1. CASE i = n + 1
    BY <1>5, <2>1
  <2>2. CASE i # n + 1
    <3>1. i \in 1..n
      BY <2>2
    <3>2. PICK a \in 1..Len(s) : pos[a] = i
      BY <1>9, <3>1 DEF Selected
    <3> QED
      BY <1>5, <3>2
  <2> QED
    BY <2>1, <2>2
<1>10. (\A i \in 1..(n + 1) : rrs[i].type \notin Uncovered) =>
         Len(t) = n + 1 /\ \A i \in 1..(n + 1) : t[i] = rrs[i]
  <2> SUFFICES ASSUME \A i \in 1..(n + 1) : rrs[i].type \notin Uncovered
               PROVE  Len(t) = n + 1 /\ \A i \in 1..(n + 1) : t[i] = rrs[i]
    OBVIOUS
  <2>1. \A i \in 1..n : i \in 1..(n + 1)
    OBVIOUS
  <2>2. Len(s) = n /\ \A i \in 1..n : s[i] = rrs[i]
    BY <2>1 DEF Selected
  <2> QED
    BY <1>3, <2>2
<1>11. Selected(rrs, n + 1, t, q)
  BY <1>3, <1>6, <1>7, <1>8, <1>9, <1>10 DEF Selected
<1> QED
  BY <1>11 DEF t

LEMMA KeptSelects ==
  ASSUME NEW rrs \in Seq(Record)
  PROVE  \E pos : Selected(rrs, Len(rrs), Kept(rrs), pos)
<1>1. Len(rrs) \in Nat /\ DOMAIN rrs = 1..Len(rrs)
  OBVIOUS
<1>2. PICK K : /\ Kept(rrs) = K[Len(rrs)]
               /\ K[0] = <<>>
               /\ \A i \in 1..Len(rrs) :
                    K[i] = IF rrs[i].type \in Uncovered THEN K[i - 1]
                           ELSE Append(K[i - 1], rrs[i])
  BY <1>1, KeptEquations
<1> DEFINE T == {n \in Nat : n <= Len(rrs)
                               => \E pos : Selected(rrs, n, K[n], pos)}
<1>3. 0 \in T
  <2>1. Selected(rrs, 0, <<>>, <<>>)
    BY DEF Selected
  <2> QED
    BY <1>2, <2>1
<1>4. ASSUME NEW n \in T PROVE n + 1 \in T
  <2>1. SUFFICES ASSUME n + 1 <= Len(rrs)
                 PROVE  \E pos : Selected(rrs, n + 1, K[n + 1], pos)
    OBVIOUS
  <2>2. /\ n \in Nat /\ n <= Len(rrs) /\ n + 1 \in 1..Len(rrs)
        /\ (n + 1) - 1 = n
    BY <2>1, <1>1
  <2>3. PICK pos : Selected(rrs, n, K[n], pos)
    BY <2>2
  <2>4. K[n + 1] = IF rrs[n + 1].type \in Uncovered THEN K[n]
                   ELSE Append(K[n], rrs[n + 1])
    BY <1>2, <2>2
  <2> QED
    BY <1>1, <2>2, <2>3, <2>4, SelectedSkip, SelectedTake
<1>5. Len(rrs) \in T
  <2>1. T \in SUBSET Nat /\ \A n \in T : n + 1 \in T
    BY <1>4
  <2> HIDE DEF T
  <2> QED
    BY <1>1, <1>3, <2>1, NatSetInduction
<1> QED
  BY <1>1, <1>2, <1>5

(* What is kept of an RRset, whose records are all of one type, and of any *)
(* other list of records.                                                  *)
LEMMA KeptFacts ==
  ASSUME NEW rrs \in Seq(Record)
  PROVE  /\ Kept(rrs) \in Seq(Record)
         /\ \A i \in DOMAIN Kept(rrs) :
              /\ Kept(rrs)[i] \in Record
              /\ Kept(rrs)[i].type \notin Uncovered
              /\ \E j \in DOMAIN rrs : Kept(rrs)[i] = rrs[j]
         /\ (\A i \in DOMAIN rrs : rrs[i].type \in Uncovered)
              => Kept(rrs) = <<>>
         /\ (\A i \in DOMAIN rrs : rrs[i].type \notin Uncovered)
              => Kept(rrs) = rrs
<1> DEFINE s == Kept(rrs)
<1>1. PICK pos : Selected(rrs, Len(rrs), s, pos)
  BY KeptSelects
<1> HIDE DEF s
<1>2. /\ s \in Seq(Record) /\ DOMAIN s = 1..Len(s) /\ Len(s) \in Nat
      /\ Len(rrs) \in Nat /\ DOMAIN rrs = 1..Len(rrs)
  BY <1>1 DEF Selected
<1>3. \A i \in DOMAIN s : /\ pos[i] \in DOMAIN rrs /\ s[i] = rrs[pos[i]]
                          /\ s[i] \in Record /\ s[i].type \notin Uncovered
  <2> TAKE i \in DOMAIN s
  <2>1. pos[i] \in 1..Len(rrs) /\ s[i] = rrs[pos[i]]
        /\ rrs[pos[i]].type \notin Uncovered
    BY <1>1, <1>2 DEF Selected
  <2>2. s[i] \in Record
    BY <1>2
  <2> QED
    BY <1>2, <2>1, <2>2
<1>4. (\A i \in DOMAIN rrs : rrs[i].type \in Uncovered) => s = <<>>
  <2> SUFFICES ASSUME \A i \in DOMAIN rrs : rrs[i].type \in Uncovered
               PROVE  s = <<>>
    OBVIOUS
  <2>1. Len(s) = 0
    BY <1>2, <1>3
  <2> QED
    BY <1>2, <2>1
<1>5. (\A i \in DOMAIN rrs : rrs[i].type \notin Uncovered) => s = rrs
  BY <1>1, <1>2, SeqEqual DEF Selected
<1> QED
  BY <1>2, <1>3, <1>4, <1>5 DEF s
----------------------------------------------------------------------------
(* The inductive invariant.  Every RRset is filed under its owner and type *)
(* and lies in its zone; a zone is never without its SOA; an ephemeral     *)
(* record lies in a served zone; and the response on its way is the one    *)
(* the state gives, because nothing changes until it is sent.              *)
GoodRRset(k, rrs, o) ==
  /\ k \in Name \X STRING /\ IsInZone(k[1], o)
  /\ rrs \in Seq(Record) /\ rrs # <<>>
  /\ \A i \in DOMAIN rrs : rrs[i].owner = k[1] /\ rrs[i].type = k[2]

GoodZone(z, o) ==
  /\ z = [origin |-> o, rrs |-> z.rrs]
  /\ \A k \in DOMAIN z.rrs : GoodRRset(k, z.rrs[k], o)

GoodState ==
  /\ GoodZone(root, RootOrigin) /\ GoodZone(over, BackupOrigin)
  /\ <<RootOrigin, "SOA">> \in DOMAIN root.rrs
  /\ collapse \in BOOLEAN /\ labels \in BOOLEAN
  /\ \A n \in store : /\ n \in Name
                      /\ \/ IsInZone(n, RootOrigin)
                         \/ IsInZone(n, BackupOrigin)

GoodReply ==
  /\ out.qname \in Name /\ out.qtype \in STRING
  /\ out.reply = Respond(out.qname, out.qtype, collapse, store)

GoodTransfer ==
  /\ out.origin \in {RootOrigin, BackupOrigin}
  /\ out.soa = IF out.origin = BackupOrigin THEN backupSOA ELSE SOA
  /\ out.records = IF out.origin = BackupOrigin THEN buildAliasRecords
                   ELSE collectNonSOA(root)

ResolveInv ==
  /\ GoodState
  /\ out # NoOut => phase = "serve"
  /\ out.kind = "reply" => GoodReply
  /\ out.kind = "xfer" => GoodTransfer

LEMMA AddRRGood ==
  ASSUME NEW o \in Name, NEW z, GoodZone(z, o),
         NEW rr \in Record, IsInZone(rr.owner, o)
  PROVE  /\ GoodZone(AddRR(z, rr), o)
         /\ DOMAIN z.rrs \subseteq DOMAIN AddRR(z, rr).rrs
         /\ <<rr.owner, rr.type>> \in DOMAIN AddRR(z, rr).rrs
<1> DEFINE k   == <<rr.owner, rr.type>>
           old == IF k \in DOMAIN z.rrs THEN z.rrs[k] ELSE <<>>
           new == IF \E i \in DOMAIN old : old[i].data = rr.data THEN old
                  ELSE Append(old, rr)
           f   == [x \in DOMAIN z.rrs \cup {k} |->
                     IF x = k THEN new ELSE z.rrs[x]]
<1>1. AddRR(z, rr) = [z EXCEPT !.rrs = f]
  BY DEF AddRR
<1>2. AddRR(z, rr) = [origin |-> o, rrs |-> f]
  <2> DEFINE g == z.rrs
  <2>1. z = [origin |-> o, rrs |-> g]
    BY DEF GoodZone
  <2> HIDE DEF g, f
  <2>2. [z EXCEPT !.rrs = f] = [origin |-> o, rrs |-> f]
    BY <2>1
  <2> QED
    BY <1>1, <2>2
<1>3. /\ k \in Name \X STRING /\ k[1] = rr.owner /\ k[2] = rr.type
  BY DEF Record
<1>4. old \in Seq(Record)
      /\ \A i \in DOMAIN old : old[i].owner = k[1] /\ old[i].type = k[2]
  BY DEF GoodZone, GoodRRset
<1> HIDE DEF k, old
<1>5. CASE \E i \in DOMAIN old : old[i].data = rr.data
  <2>1. new = old /\ old # <<>>
    BY <1>5
  <2> QED
    BY <1>2, <1>3, <1>4, <2>1 DEF GoodZone, GoodRRset, k
<1>6. CASE ~ \E i \in DOMAIN old : old[i].data = rr.data
  <2>1. new = Append(old, rr)
    BY <1>6
  <2>2. /\ new \in Seq(Record) /\ new # <<>> /\ DOMAIN new = 1..(Len(old) + 1)
        /\ \A i \in DOMAIN new : \/ i \in DOMAIN old /\ new[i] = old[i]
                                 \/ new[i] = rr
    BY <1>4, <2>1
  <2>3. \A i \in DOMAIN new : new[i].owner = k[1] /\ new[i].type = k[2]
    BY <1>3, <1>4, <2>2
  <2> HIDE DEF new
  <2> QED
    BY <1>2, <1>3, <2>2, <2>3 DEF GoodZone, GoodRRset, k
<1> QED
  BY <1>5, <1>6

LEMMA ParseGood ==
  ASSUME NEW o \in Name, NEW z, GoodZone(z, o), NEW rr \in Record
  PROVE  /\ GoodZone(ParseInto(z, rr), o)
         /\ DOMAIN z.rrs \subseteq DOMAIN ParseInto(z, rr).rrs
<1>1. z.origin = o
  BY DEF GoodZone
<1> QED
  BY <1>1, AddRRGood DEF ParseInto

(* The answers depend on the zones and the flags alone.                    *)
LEMMA RespondStable ==
  ASSUME NEW q, NEW t, NEW cf, NEW txts,
         root' = root, over' = over, labels' = labels
  PROVE  Respond(q, t, cf, txts)' = Respond(q, t, cf, txts)
<1>1. RootStage(q, t, cf, txts)' = RootStage(q, t, cf, txts)
  BY Zenon DEF RootStage, RootExact, RootCNAMEFallback, RootWildcard,
               RootChain, collapseRootCNAME
<1>2. BackupStage(q, t, cf, txts)' = BackupStage(q, t, cf, txts)
  BY Zenon DEF BackupStage, BackupExact, BackupCNAMEFallback, BackupWildcard
<1>3. HasName(q)' = HasName(q)
  BY Zenon DEF HasName, backupZoneHasName
<1>4. StageOf(q, t, cf, txts)' = StageOf(q, t, cf, txts)
  BY <1>1, <1>2, Zenon DEF StageOf
<1> QED
  BY <1>3, <1>4, Zenon DEF Respond, ReplyOf

LEMMA InitResolveInv == Init => ResolveInv
<1> SUFFICES ASSUME Init PROVE ResolveInv
  OBVIOUS
<1>1. GoodZone(EmptyZone(RootOrigin), RootOrigin)
      /\ GoodZone(EmptyZone(BackupOrigin), BackupOrigin)
  BY DEF GoodZone, EmptyZone
<1>2. IsInZone(RootOrigin, RootOrigin)
  BY OriginsAssumption DEF IsInZone, Name
<1>3. /\ GoodZone(root, RootOrigin) /\ GoodZone(over, BackupOrigin)
      /\ <<RootOrigin, "SOA">> \in DOMAIN root.rrs
  BY <1>1, <1>2, AddRRGood, OriginsAssumption, SOAAssumption DEF Init
<1>4. collapse \in BOOLEAN /\ labels \in BOOLEAN /\ store = {}
  BY DEF Init
<1>5. out = NoOut /\ out.kind = "none"
  BY DEF Init, NoOut
<1> QED
  BY <1>3, <1>4, <1>5 DEF ResolveInv, GoodState

(* While a response is on its way nothing else changes.                    *)
LEMMA NextResolveInv == ResolveInv /\ [Next]_vars => ResolveInv'
<1> SUFFICES ASSUME ResolveInv, [Next]_vars
             PROVE  ResolveInv'
  OBVIOUS
<1>0. NoOut.kind = "none"
  BY DEF NoOut
<1>1. ASSUME NEW rr \in RootFile, ParseRoot(rr)
      PROVE  ResolveInv'
  <2>1. rr \in Record
    BY InputsAssumption
  <2>2. /\ GoodZone(root', RootOrigin)
        /\ <<RootOrigin, "SOA">> \in DOMAIN root'.rrs
    BY <1>1, <2>1, ParseGood, OriginsAssumption
       DEF ParseRoot, ResolveInv, GoodState
  <2>3. out' = NoOut
    BY <1>1 DEF ParseRoot, ResolveInv
  <2>4. GoodState'
    BY <1>1, <2>2, Zenon DEF ParseRoot, ResolveInv, GoodState
  <2> QED
    BY <1>0, <2>3, <2>4 DEF ResolveInv
<1>2. ASSUME NEW rr \in BackupFile, ParseBackup(rr)
      PROVE  ResolveInv'
  <2>1. rr \in Record
    BY InputsAssumption
  <2>2. GoodZone(over', BackupOrigin)
    BY <1>2, <2>1, ParseGood, OriginsAssumption
       DEF ParseBackup, ResolveInv, GoodState
  <2>3. out' = NoOut
    BY <1>2 DEF ParseBackup, ResolveInv
  <2>4. GoodState'
    BY <1>2, <2>2, Zenon DEF ParseBackup, ResolveInv, GoodState
  <2> QED
    BY <1>0, <2>3, <2>4 DEF ResolveInv
<1>3. CASE Classify
  <2>1. GoodZone(over', BackupOrigin)
    <3> DEFINE g == over.rrs
               f == [k \in {x \in DOMAIN g : x[2] \in Overridable} |-> g[k]]
    <3>1. over = [origin |-> BackupOrigin, rrs |-> g]
      BY DEF ResolveInv, GoodState, GoodZone
    <3>2. over' = [over EXCEPT !.rrs = f]
      BY <1>3 DEF Classify, filterBackupRecords
    <3>3. \A k \in DOMAIN f : GoodRRset(k, f[k], BackupOrigin)
      BY DEF ResolveInv, GoodState, GoodZone
    <3> HIDE DEF f, g
    <3>4. over' = [origin |-> BackupOrigin, rrs |-> f]
      BY <3>1, <3>2
    <3> QED
      BY <3>3, <3>4 DEF GoodZone
  <2>2. out' = NoOut
    BY <1>3 DEF Classify, ResolveInv
  <2>3. GoodState'
    BY <1>3, <2>1, Zenon DEF Classify, ResolveInv, GoodState
  <2> QED
    BY <1>0, <2>2, <2>3 DEF ResolveInv
<1>4. ASSUME NEW n \in QNames, NEW t \in QTypes, Query(n, t)
      PROVE  ResolveInv'
  <2>1. n \in Name /\ t \in STRING
    BY InputsAssumption
  <2>2. /\ root' = root /\ over' = over /\ labels' = labels
        /\ collapse' = collapse /\ store' = store /\ phase' = "serve"
    BY <1>4 DEF Query, zoneVars
  <2>3. GoodState'
    BY <2>2, Zenon DEF ResolveInv, GoodState
  <2>4. out' = [kind |-> "reply", qname |-> n, qtype |-> t,
                reply |-> Respond(n, t, collapse, store)]
    BY <1>4, Zenon DEF Query, Respond
  <2>5. /\ out'.kind = "reply" /\ out'.qname = n /\ out'.qtype = t
        /\ out'.reply = Respond(n, t, collapse, store)
    BY <2>4
  <2>6. \A cf, txts : Respond(n, t, cf, txts)' = Respond(n, t, cf, txts)
    BY <2>2, RespondStable
  <2>7. GoodReply'
    BY <2>1, <2>2, <2>5, <2>6, Zenon DEF GoodReply
  <2> QED
    BY <2>2, <2>3, <2>5, <2>7 DEF ResolveInv
<1>5. CASE Sent
  <2>1. GoodState'
    BY <1>5, Zenon DEF Sent, zoneVars, ResolveInv, GoodState
  <2> QED
    BY <1>0, <1>5, <2>1 DEF Sent, ResolveInv
<1>6. ASSUME NEW n \in TxtNames, PutTXT(n) \/ DeleteTXT(n)
      PROVE  ResolveInv'
  <2>1. n \in Name
    BY InputsAssumption
  <2>2. \A m \in store' : /\ m \in Name
                          /\ \/ IsInZone(m, RootOrigin)
                             \/ IsInZone(m, BackupOrigin)
    BY <1>6, <2>1 DEF PutTXT, DeleteTXT, ResolveInv, GoodState
  <2>3. out' = NoOut
    BY <1>6 DEF PutTXT, DeleteTXT
  <2>4. GoodState'
    BY <1>6, <2>2, Zenon
       DEF PutTXT, DeleteTXT, zoneVars, ResolveInv, GoodState
  <2> QED
    BY <1>0, <2>3, <2>4 DEF ResolveInv
<1>7. ASSUME NEW n \in QNames, NEW allowed \in BOOLEAN, NEW udp \in BOOLEAN,
             Transfer(n, allowed, udp)
      PROVE  ResolveInv'
  <2>1. /\ root' = root /\ over' = over /\ labels' = labels
        /\ collapse' = collapse /\ store' = store /\ phase' = "serve"
    BY <1>7 DEF Transfer, zoneVars
  <2>2. GoodState'
    BY <2>1, Zenon DEF ResolveInv, GoodState
  <2>3. CASE out' = [kind |-> "refused"]
    <3>1. out'.kind = "refused"
      BY <2>3
    <3> QED
      BY <2>1, <2>2, <3>1 DEF ResolveInv
  <2>4. CASE ~(out' = [kind |-> "refused"])
    <3>1. PICK origin \in ZoneOf(n) :
            out' = [kind |-> "xfer", origin |-> origin,
                    soa |-> IF origin = BackupOrigin THEN backupSOA ELSE SOA,
                    records |-> IF origin = BackupOrigin
                                THEN buildAliasRecords
                                ELSE collectNonSOA(root)]
      BY <1>7, <2>4, Zenon DEF Transfer
    <3>2. /\ out'.kind = "xfer" /\ out'.origin = origin
          /\ out'.soa = IF origin = BackupOrigin THEN backupSOA ELSE SOA
          /\ out'.records = IF origin = BackupOrigin THEN buildAliasRecords
                            ELSE collectNonSOA(root)
      BY <3>1
    <3>3. origin \in {RootOrigin, BackupOrigin}
      BY DEF ZoneOf
    <3>4. buildAliasRecords' = buildAliasRecords
      BY <2>1, Zenon DEF buildAliasRecords, AliasRRset
    <3>5. GoodTransfer'
      BY <2>1, <3>2, <3>3, <3>4, Zenon DEF GoodTransfer
    <3> QED
      BY <2>1, <2>2, <3>2, <3>5 DEF ResolveInv
  <2> QED
    BY <2>3, <2>4
<1>8. CASE UNCHANGED vars
  <2>1. /\ root' = root /\ over' = over /\ labels' = labels
        /\ collapse' = collapse /\ store' = store /\ phase' = phase
        /\ out' = out
    BY <1>8 DEF vars, zoneVars
  <2>2. GoodState'
    BY <2>1, Zenon DEF ResolveInv, GoodState
  <2>3. \A n, t, cf, txts : Respond(n, t, cf, txts)' = Respond(n, t, cf, txts)
    BY <2>1, RespondStable
  <2>4. buildAliasRecords' = buildAliasRecords
    BY <2>1, Zenon DEF buildAliasRecords, AliasRRset
  <2>5. GoodReply => GoodReply'
    BY <2>1, <2>3, Zenon DEF GoodReply
  <2>6. GoodTransfer => GoodTransfer'
    BY <2>1, <2>4, Zenon DEF GoodTransfer
  <2> QED
    BY <2>1, <2>2, <2>5, <2>6, Zenon DEF ResolveInv
<1> QED
  BY <1>1, <1>2, <1>3, <1>4, <1>5, <1>6, <1>7, <1>8, Zenon DEF Next

LEMMA ResolveInvariance == Spec => []ResolveInv
<1>1. Init => ResolveInv
  BY InitResolveInv
<1>2. ResolveInv /\ [Next]_vars => ResolveInv'
  BY NextResolveInv
<1> QED
  BY <1>1, <1>2, PTL DEF Spec
----------------------------------------------------------------------------
(* What the lookups find: records of one type, and of one owner unless a   *)
(* wildcard gave them.                                                     *)
OfType(s, t) ==
  s \in Seq(Record) /\ \A i \in DOMAIN s : s[i] \in Record /\ s[i].type = t

OfOwner(s, n) == \A i \in DOMAIN s : s[i].owner = n

LEMMA LookupFacts ==
  ASSUME NEW z, NEW o, GoodZone(z, o), NEW n, NEW t
  PROVE  /\ OfType(Lookup(z, n, t), t)
         /\ OfOwner(Lookup(z, n, t), n)
         /\ Lookup(z, n, t) # <<>> <=> <<n, t>> \in DOMAIN z.rrs
         /\ <<n, t>> \in DOMAIN z.rrs => Lookup(z, n, t) = z.rrs[<<n, t>>]
         /\ Lookup(z, n, t) # <<>> => n \in Owners(z)
<1>1. CASE <<n, t>> \in DOMAIN z.rrs
  <2> DEFINE k == <<n, t>>
             s == z.rrs[k]
  <2>1. Lookup(z, n, t) = s
    BY <1>1 DEF Lookup
  <2>2. GoodRRset(k, s, o) /\ k[1] = n /\ k[2] = t
    BY <1>1 DEF GoodZone
  <2>3. n \in Owners(z)
    BY <1>1, <2>2 DEF Owners
  <2> HIDE DEF s, k
  <2>4. /\ s \in Seq(Record) /\ s # <<>>
        /\ \A i \in DOMAIN s : s[i].owner = n /\ s[i].type = t
    BY <2>2 DEF GoodRRset
  <2>5. \A i \in DOMAIN s : s[i] \in Record
    BY <2>4
  <2>6. OfType(s, t) /\ OfOwner(s, n)
    BY <2>4, <2>5 DEF OfType, OfOwner
  <2> QED
    BY <1>1, <2>1, <2>3, <2>4, <2>6 DEF s, k
<1>2. CASE <<n, t>> \notin DOMAIN z.rrs
  <2>1. Lookup(z, n, t) = <<>>
    BY <1>2 DEF Lookup
  <2>2. OfType(<<>>, t) /\ OfOwner(<<>>, n)
    BY DEF OfType, OfOwner
  <2> QED
    BY <1>2, <2>1, <2>2
<1> QED
  BY <1>1, <1>2

LEMMA WildcardFacts ==
  ASSUME NEW z, NEW o, GoodZone(z, o), NEW n, NEW t
  PROVE  /\ LookupWildcard(z, n, t) # <<>> =>
              HasWildcard(z, n)
                /\ \E w : LookupWildcard(z, n, t) = Lookup(z, w, t)
         /\ OfType(LookupWildcard(z, n, t), t)
<1>1. CASE Wildcards(z, n) = {}
  <2>1. LookupWildcard(z, n, t) = <<>>
    BY <1>1 DEF LookupWildcard, LookupAny
  <2> QED
    BY <2>1 DEF OfType
<1>2. CASE Wildcards(z, n) # {}
  <2>1. PICK w : LookupWildcard(z, n, t) = Lookup(z, w, t)
    BY <1>2 DEF LookupWildcard, LookupAny
  <2>2. OfType(Lookup(z, w, t), t)
    BY LookupFacts
  <2>3. HasWildcard(z, n)
    BY <1>2 DEF HasWildcard
  <2> QED
    BY <2>1, <2>2, <2>3
<1> QED
  BY <1>1, <1>2

LEMMA WithOwnerFacts ==
  ASSUME NEW s \in Seq(Record), NEW n \in Name
  PROVE  /\ WithOwner(s, n) \in Seq(Record)
         /\ Len(WithOwner(s, n)) = Len(s)
         /\ DOMAIN WithOwner(s, n) = DOMAIN s
         /\ s = <<>> <=> WithOwner(s, n) = <<>>
         /\ \A i \in DOMAIN s : /\ WithOwner(s, n)[i] \in Record
                                /\ WithOwner(s, n)[i].owner = n
                                /\ WithOwner(s, n)[i].type = s[i].type
                                /\ WithOwner(s, n)[i].data = s[i].data
                                /\ WithOwner(s, n)[i].ttl = s[i].ttl
         /\ (\A i \in DOMAIN s : s[i].owner = n) => WithOwner(s, n) = s
<1> DEFINE w == WithOwner(s, n)
<1>1. /\ Len(s) \in Nat /\ DOMAIN s = 1..Len(s)
      /\ \A i \in 1..Len(s) : s[i] \in Record
  OBVIOUS
<1>2. /\ DOMAIN w = 1..Len(s)
      /\ \A i \in 1..Len(s) : w[i] = [s[i] EXCEPT !.owner = n]
  BY <1>1 DEF WithOwner
<1>3. \A i \in 1..Len(s) : /\ w[i] \in Record /\ w[i].owner = n
                           /\ w[i].type = s[i].type /\ w[i].data = s[i].data
                           /\ w[i].ttl = s[i].ttl
  BY <1>1, <1>2 DEF Record
<1>4. w \in Seq(Record) /\ Len(w) = Len(s)
  <2>1. w = [i \in 1..Len(s) |-> [s[i] EXCEPT !.owner = n]]
    BY <1>1 DEF WithOwner
  <2> HIDE DEF w
  <2>2. w \in [1..Len(s) -> Record]
    BY <1>3, <2>1
  <2> QED
    BY <1>1, <2>2
<1>5. ASSUME \A i \in DOMAIN s : s[i].owner = n PROVE w = s
  <2>1. \A i \in 1..Len(s) : w[i] = s[i]
    BY <1>1, <1>2, <1>5 DEF Record
  <2> HIDE DEF w
  <2> QED
    BY <1>4, <2>1, SeqEqual
<1>6. s = <<>> <=> w = <<>>
  BY <1>1, <1>4
<1> QED
  BY <1>1, <1>2, <1>3, <1>4, <1>5, <1>6
----------------------------------------------------------------------------
(* The rewriting of records.                                               *)
LEMMA AnywhereIsName ==
  ASSUME NEW n \in Name, NEW a \in Name, NEW b \in Name
  PROVE  RewriteNameAnywhere(n, a, b) \in Name
<1> DEFINE at == Occurrences(n, a)
<1>1. CASE at = {}
  BY <1>1 DEF RewriteNameAnywhere
<1>2. CASE at # {}
  <2> DEFINE i == CHOOSE i \in at : \A j \in at : i <= j
  <2>1. RewriteNameAnywhere(n, a, b)
          = SubSeq(n, 1, i - 1) \o b \o SubSeq(n, i + Len(a), Len(n))
    BY <1>2 DEF RewriteNameAnywhere
  <2>2. i \in 1..(Len(n) - Len(a) + 1)
    <3>1. at \in SUBSET Nat /\ at \subseteq 1..(Len(n) - Len(a) + 1)
      BY DEF Occurrences, Name
    <3>2. \E m \in at : \A j \in at : m <= j
      BY <1>2, <3>1, LeastExists
    <3> HIDE DEF at
    <3>3. i \in at
      BY <3>2
    <3> QED
      BY <3>1, <3>3
  <2> HIDE DEF i
  <2>3. /\ Len(n) \in Nat /\ Len(a) \in Nat /\ i \in Nat /\ i >= 1
        /\ i - 1 <= Len(n) /\ i + Len(a) >= 1
    BY <2>2 DEF Name
  <2>4. /\ SubSeq(n, 1, i - 1) \in Name
        /\ SubSeq(n, i + Len(a), Len(n)) \in Name
    BY <2>3 DEF Name
  <2> QED
    BY <2>1, <2>4 DEF Name
<1> QED
  BY <1>1, <1>2

(* The data of a record after rewriteRDATANames.                           *)
NewData(rr, a, b, lb) ==
  IF rr.type \notin Covered THEN rr.data
  ELSE IF lb THEN RewriteNameAnywhere(rr.data, a, b)
  ELSE RewriteName(rr.data, a, b)

LEMMA RDATAFacts ==
  ASSUME NEW rr \in Record, NEW a \in Name, NEW b \in Name,
         NEW lb \in BOOLEAN
  PROVE  rewriteRDATANames(rr, a, b, lb)
           = [owner |-> rr.owner, type |-> rr.type,
              data |-> NewData(rr, a, b, lb), ttl |-> rr.ttl]
<1>1. rr = [owner |-> rr.owner, type |-> rr.type, data |-> rr.data,
            ttl |-> rr.ttl]
  BY DEF Record
<1> DEFINE d == NewData(rr, a, b, lb)
<1>2. rewriteRDATANames(rr, a, b, lb) = [rr EXCEPT !.data = d]
  <2>1. CASE rr.type \in Covered
    BY <2>1, Zenon DEF rewriteRDATANames, NewData
  <2>2. CASE rr.type \notin Covered
    <3>1. rewriteRDATANames(rr, a, b, lb) = rr /\ d = rr.data
      BY <2>2 DEF rewriteRDATANames, NewData
    <3> QED
      BY <3>1 DEF Record
  <2> QED
    BY <2>1, <2>2
<1> HIDE DEF d
<1>3. [rr EXCEPT !.data = d] = [owner |-> rr.owner, type |-> rr.type,
                                data |-> d, ttl |-> rr.ttl]
  BY DEF Record
<1> QED
  BY <1>2, <1>3 DEF d

LEMMA NewDataIsName ==
  ASSUME NEW rr \in Record, NEW a \in Name, NEW b \in Name,
         NEW lb \in BOOLEAN
  PROVE  NewData(rr, a, b, lb) \in Name
<1>1. rr.data \in Name
  BY DEF Record
<1> QED
  BY <1>1, RewriteNameFacts, AnywhereIsName DEF NewData

LEMMA RewriteRRFacts ==
  ASSUME NEW rr \in Record, NEW a \in Name, NEW b \in Name,
         NEW lb \in BOOLEAN
  PROVE  /\ RewriteRR(rr, a, b, lb)
              = [owner |-> RewriteName(rr.owner, a, b), type |-> rr.type,
                 data |-> NewData(rr, a, b, lb), ttl |-> rr.ttl]
         /\ RewriteRR(rr, a, b, lb) \in Record
<1> DEFINE m == RewriteName(rr.owner, a, b)
           x == [rr EXCEPT !.owner = m]
<1>1. rr.owner \in Name /\ rr.type \in STRING /\ rr.ttl \in Nat
  BY DEF Record
<1>2. m \in Name
  BY <1>1, RewriteNameFacts
<1> HIDE DEF m
<1>3. /\ x \in Record /\ x.owner = m /\ x.type = rr.type
      /\ x.data = rr.data /\ x.ttl = rr.ttl
  BY <1>2 DEF Record
<1>4. RewriteRR(rr, a, b, lb) = rewriteRDATANames(x, a, b, lb)
  BY DEF RewriteRR, m
<1> HIDE DEF x
<1>5. NewData(x, a, b, lb) = NewData(rr, a, b, lb)
  BY <1>3 DEF NewData
<1>6. NewData(rr, a, b, lb) \in Name
  BY NewDataIsName
<1>7. RewriteRR(rr, a, b, lb)
        = [owner |-> m, type |-> rr.type,
           data |-> NewData(rr, a, b, lb), ttl |-> rr.ttl]
  BY <1>3, <1>4, <1>5, RDATAFacts
<1>8. RewriteRR(rr, a, b, lb) \in Record
  BY <1>1, <1>2, <1>6, <1>7 DEF Record
<1> QED
  BY <1>7, <1>8 DEF m

LEMMA RewriteRRsFacts ==
  ASSUME NEW s \in Seq(Record), NEW a \in Name, NEW b \in Name,
         NEW lb \in BOOLEAN
  PROVE  /\ RewriteRRs(s, a, b, lb) \in Seq(Record)
         /\ Len(RewriteRRs(s, a, b, lb)) = Len(s)
         /\ DOMAIN RewriteRRs(s, a, b, lb) = DOMAIN s
         /\ s = <<>> <=> RewriteRRs(s, a, b, lb) = <<>>
         /\ \A i \in DOMAIN s :
              /\ RewriteRRs(s, a, b, lb)[i] = RewriteRR(s[i], a, b, lb)
              /\ RewriteRRs(s, a, b, lb)[i] \in Record
              /\ RewriteRRs(s, a, b, lb)[i].owner
                   = RewriteName(s[i].owner, a, b)
              /\ RewriteRRs(s, a, b, lb)[i].type = s[i].type
              /\ RewriteRRs(s, a, b, lb)[i].data = NewData(s[i], a, b, lb)
<1> DEFINE w == RewriteRRs(s, a, b, lb)
<1>1. /\ Len(s) \in Nat /\ DOMAIN s = 1..Len(s)
      /\ \A i \in 1..Len(s) : s[i] \in Record
  OBVIOUS
<1>2. w = [i \in 1..Len(s) |-> RewriteRR(s[i], a, b, lb)]
  BY <1>1 DEF RewriteRRs
<1> HIDE DEF w
<1>3. \A i \in 1..Len(s) :
        /\ w[i] = RewriteRR(s[i], a, b, lb) /\ w[i] \in Record
        /\ w[i] = [owner |-> RewriteName(s[i].owner, a, b),
                   type |-> s[i].type, data |-> NewData(s[i], a, b, lb),
                   ttl |-> s[i].ttl]
  BY <1>1, <1>2, RewriteRRFacts
<1>4. w \in [1..Len(s) -> Record]
  BY <1>2, <1>3
<1>5. w \in Seq(Record) /\ Len(w) = Len(s) /\ DOMAIN w = DOMAIN s
  BY <1>1, <1>4
<1>6. s = <<>> <=> w = <<>>
  BY <1>1, <1>5
<1> QED
  BY <1>1, <1>3, <1>5, <1>6 DEF w
----------------------------------------------------------------------------
(* The stages of resolution.                                               *)
LEMMA MinIs ==
  ASSUME NEW S \in SUBSET Int, NEW m \in S, \A y \in S : m <= y
  PROVE  Min(S) = m
<1> DEFINE P(x) == x \in S /\ \A y \in S : x <= y
<1>1. P(m)
  OBVIOUS
<1>2. \A x : P(x) => x = m
  OBVIOUS
<1>3. Min(S) = CHOOSE x : P(x)
  BY Zenon DEF Min
<1> HIDE DEF P
<1>4. P(CHOOSE x : P(x))
  BY <1>1, Zenon
<1> QED
  BY <1>2, <1>3, <1>4

LEMMA FirstOfFive ==
  ASSUME NEW a, NEW b, NEW c, NEW d, NEW e
  PROVE  FirstAnswer(<<a, b, c, d, e>>)
           = IF a # Miss THEN a ELSE IF b # Miss THEN b
             ELSE IF c # Miss THEN c ELSE IF d # Miss THEN d ELSE e
<1> DEFINE st   == <<a, b, c, d, e>>
           hits == {i \in DOMAIN st : Answered(st[i])}
<1>1. DOMAIN st = {1, 2, 3, 4, 5}
  OBVIOUS
<1>2. FirstAnswer(st) = IF hits = {} THEN Miss ELSE st[Min(hits)]
  BY DEF FirstAnswer
<1>3. /\ hits \in SUBSET Int /\ hits \subseteq {1, 2, 3, 4, 5}
      /\ (1 \in hits <=> a # Miss) /\ (2 \in hits <=> b # Miss)
      /\ (3 \in hits <=> c # Miss) /\ (4 \in hits <=> d # Miss)
      /\ (5 \in hits <=> e # Miss)
  BY <1>1 DEF Answered
<1>4. /\ st[1] = a /\ st[2] = b /\ st[3] = c /\ st[4] = d /\ st[5] = e
  OBVIOUS
<1> HIDE DEF hits, st
<1>5. CASE a # Miss
  <2>1. Min(hits) = 1
    BY <1>3, <1>5, MinIs
  <2> QED
    BY <1>2, <1>3, <1>4, <1>5, <2>1 DEF st
<1>6. CASE a = Miss /\ b # Miss
  <2>1. Min(hits) = 2
    <3>1. 2 \in hits /\ \A y \in hits : 2 <= y
      BY <1>3, <1>6
    <3> QED
      BY <1>3, <3>1, MinIs
  <2> QED
    BY <1>2, <1>3, <1>4, <1>6, <2>1 DEF st
<1>7. CASE a = Miss /\ b = Miss /\ c # Miss
  <2>1. Min(hits) = 3
    <3>1. 3 \in hits /\ \A y \in hits : 3 <= y
      BY <1>3, <1>7
    <3> QED
      BY <1>3, <3>1, MinIs
  <2> QED
    BY <1>2, <1>3, <1>4, <1>7, <2>1 DEF st
<1>8. CASE a = Miss /\ b = Miss /\ c = Miss /\ d # Miss
  <2>1. Min(hits) = 4
    <3>1. 4 \in hits /\ \A y \in hits : 4 <= y
      BY <1>3, <1>8
    <3> QED
      BY <1>3, <3>1, MinIs
  <2> QED
    BY <1>2, <1>3, <1>4, <1>8, <2>1 DEF st
<1>9. CASE a = Miss /\ b = Miss /\ c = Miss /\ d = Miss
  <2>1. CASE e # Miss
    <3>1. 5 \in hits /\ \A y \in hits : 5 <= y
      BY <1>3, <1>9, <2>1
    <3>2. Min(hits) = 5
      BY <1>3, <3>1, MinIs
    <3> QED
      BY <1>2, <1>4, <1>9, <3>1, <3>2 DEF st
  <2>2. CASE e = Miss
    <3>1. hits = {}
      BY <1>3, <1>9, <2>2
    <3> QED
      BY <1>2, <1>9, <2>2, <3>1 DEF st
  <2> QED
    BY <2>1, <2>2
<1> QED
  BY <1>5, <1>6, <1>7, <1>8, <1>9

(* A stage that is not a collapsed chain.                                  *)
Found(rrs, withheld) == Stage(rrs, FALSE, withheld)

LEMMA FoundFacts ==
  ASSUME NEW rrs, NEW withheld
  PROVE  /\ Found(rrs, withheld).rrs = rrs
         /\ Found(rrs, withheld).withheld = withheld
         /\ rrs # <<>> => Found(rrs, withheld) # Miss
         /\ withheld # {} => Found(rrs, withheld) # Miss
         /\ Found(<<>>, {}) = Miss
         /\ Miss.rrs = <<>>
<1>1. /\ Found(rrs, withheld).rrs = rrs
      /\ Found(rrs, withheld).withheld = withheld
      /\ Miss.rrs = <<>> /\ Miss.withheld = {}
      /\ Found(<<>>, {}) = Miss
  BY DEF Stage, Miss, Found
<1> QED
  BY <1>1, Zenon

(* Detect: a name is in one zone at most.                                  *)
LEMMA ZoneOfFacts ==
  ASSUME NEW n \in Name
  PROVE  /\ IsInZone(n, BackupOrigin) => ZoneOf(n) = {BackupOrigin}
         /\ IsInZone(n, RootOrigin) => ZoneOf(n) = {RootOrigin}
         /\ ZoneOf(n) # {} => \/ IsInZone(n, BackupOrigin)
                              \/ IsInZone(n, RootOrigin)
         /\ RootOrigin # BackupOrigin
<1>1. RootOrigin # BackupOrigin
  <2>1. IsInZone(RootOrigin, RootOrigin)
    BY OriginsAssumption DEF IsInZone, Name
  <2> QED
    BY <2>1, OriginsAssumption
<1> QED
  BY <1>1, OneZone DEF ZoneOf

(* The reply, from the stage that answered.                                *)
Negative(rcode, soa) == Reply(rcode, <<>>, <<cappedSOA(soa)>>)

LEMMA RespondBackup ==
  ASSUME NEW n \in Name, IsInZone(n, BackupOrigin), NEW t, NEW cf, NEW txts
  PROVE  LET st == BackupStage(n, t, cf, txts)
         IN Respond(n, t, cf, txts)
              = IF st.rrs # <<>> THEN Reply("NOERROR", st.rrs, <<>>)
                ELSE Negative(IF backupZoneHasName(n) THEN "NOERROR"
                              ELSE "NXDOMAIN", backupSOA)
<1>1. ZoneOf(n) = {BackupOrigin} /\ ZoneOf(n) # {}
  BY ZoneOfFacts
<1>2. StageOf(n, t, cf, txts) = BackupStage(n, t, cf, txts)
  BY <1>1, ZoneOfFacts DEF StageOf
<1>3. HasName(n) = backupZoneHasName(n)
  BY DEF HasName
<1> QED
  BY <1>1, <1>2, <1>3, Zenon DEF Respond, ReplyOf, Negative

LEMMA RespondRoot ==
  ASSUME NEW n \in Name, IsInZone(n, RootOrigin), NEW t, NEW cf, NEW txts
  PROVE  LET st == RootStage(n, t, cf, txts)
         IN Respond(n, t, cf, txts)
              = IF st.rrs # <<>> THEN Reply("NOERROR", st.rrs, <<>>)
                ELSE Negative(IF n \in Owners(root) \/ HasWildcard(root, n)
                              THEN "NOERROR" ELSE "NXDOMAIN", SOA)
<1>1. ZoneOf(n) = {RootOrigin} /\ ZoneOf(n) # {} /\ ~IsInZone(n, BackupOrigin)
  BY ZoneOfFacts, OneZone
<1>2. StageOf(n, t, cf, txts) = RootStage(n, t, cf, txts)
        /\ ZoneOf(n) # {BackupOrigin}
  BY <1>1, ZoneOfFacts DEF StageOf
<1>3. HasName(n) = (n \in Owners(root) \/ HasWildcard(root, n))
  BY <1>1, Zenon DEF HasName
<1> QED
  BY <1>1, <1>2, <1>3, Zenon DEF Respond, ReplyOf, Negative

LEMMA RespondOutside ==
  ASSUME NEW n \in Name, ~IsInZone(n, RootOrigin), ~IsInZone(n, BackupOrigin),
         NEW t, NEW cf, NEW txts
  PROVE  Respond(n, t, cf, txts) = Reply("REFUSED", <<>>, <<>>)
<1>1. ZoneOf(n) = {}
  BY ZoneOfFacts
<1> QED
  BY <1>1 DEF Respond, ReplyOf

LEMMA ReplyFacts ==
  ASSUME NEW rcode, NEW answer, NEW ns
  PROVE  /\ Reply(rcode, answer, ns).rcode = rcode
         /\ Reply(rcode, answer, ns).answer = answer
         /\ Reply(rcode, answer, ns).ns = ns
  BY DEF Reply
----------------------------------------------------------------------------
(* The stages that look for records of the query's own type.               *)
LEMMA UniformKept ==
  ASSUME NEW t, NEW s, OfType(s, t)
  PROVE  /\ t \notin Uncovered => Kept(s) = s /\ Withheld(s) = {}
         /\ t \in Uncovered /\ s # <<>> => Kept(s) = <<>> /\ Withheld(s) # {}
         /\ s = <<>> => Kept(s) = <<>> /\ Withheld(s) = {}
         /\ OfType(Kept(s), t)
<1>1. /\ s \in Seq(Record)
      /\ \A i \in DOMAIN s : s[i] \in Record /\ s[i].type = t
  BY DEF OfType
<1>2. t \notin Uncovered => Kept(s) = s
  BY <1>1, KeptFacts
<1>3. t \in Uncovered => Kept(s) = <<>>
  BY <1>1, KeptFacts
<1>4. t \notin Uncovered => Withheld(s) = {}
  BY <1>1 DEF Withheld, Range
<1>5. s = <<>> => Withheld(s) = {}
  BY <1>1 DEF Withheld, Range
<1>6. ASSUME t \in Uncovered, s # <<>> PROVE Withheld(s) # {}
  <2>1. 1 \in DOMAIN s
    BY <1>1, <1>6
  <2>2. <<s[1].owner, s[1].type>> \in Withheld(s)
    BY <1>1, <1>6, <2>1 DEF Withheld, Range
  <2> QED
    BY <2>2
<1>7. OfType(<<>>, t)
  BY DEF OfType
<1> QED
  BY <1>2, <1>3, <1>4, <1>5, <1>6, <1>7

LEMMA UniformEmitted ==
  ASSUME NEW z, GoodZone(z, RootOrigin), NEW t, NEW s,
         OfType(s, t), NEW b, NEW lb
  PROVE  /\ t \notin Uncovered =>
              Emitted(s, z, b, lb)
                = Found(RewriteRRs(s, RootOrigin, b, lb), {})
         /\ t \in Uncovered /\ s # <<>> =>
              /\ Emitted(s, z, b, lb) # Miss
              /\ Emitted(s, z, b, lb).rrs = <<>>
         /\ s = <<>> => Emitted(s, z, b, lb) = Miss
<1>1. z.origin = RootOrigin
  BY DEF GoodZone
<1>2. Emitted(s, z, b, lb)
        = Found(RewriteRRs(Kept(s), RootOrigin, b, lb), Withheld(s))
  BY <1>1, Zenon DEF Emitted, Found
<1>3. RewriteRRs(<<>>, RootOrigin, b, lb) = <<>>
  BY DEF RewriteRRs
<1>4. t \notin Uncovered =>
        Emitted(s, z, b, lb)
          = Found(RewriteRRs(s, RootOrigin, b, lb), {})
  BY <1>2, UniformKept, Zenon
<1>5. t \in Uncovered /\ s # <<>> =>
        Emitted(s, z, b, lb) = Found(<<>>, Withheld(s))
          /\ Withheld(s) # {}
  BY <1>2, <1>3, UniformKept, Zenon
<1>7. /\ Found(<<>>, Withheld(s)).rrs = <<>>
      /\ Withheld(s) # {} => Found(<<>>, Withheld(s)) # Miss
      /\ Found(<<>>, {}) = Miss
  BY FoundFacts
<1>6. s = <<>> => Emitted(s, z, b, lb) = Found(<<>>, {})
  BY <1>2, <1>3, UniformKept, Zenon
<1> QED
  BY <1>4, <1>5, <1>6, <1>7, Zenon

LEMMA ChasedSame ==
  ASSUME NEW t, NEW s, OfType(s, t), NEW qt, NEW z,
         qt = "CNAME" \/ t # "CNAME"
  PROVE  Chased(s, qt, z) = s
<1>1. CASE s = <<>> \/ qt = "CNAME"
  BY <1>1 DEF Chased
<1>2. CASE s # <<>> /\ t # "CNAME"
  <2>1. Len(s) \in DOMAIN s
    BY <1>2 DEF OfType
  <2>2. s[Len(s)].type = t
    BY <2>1 DEF OfType
  <2> QED
    BY <1>2, <2>2 DEF Chased
<1> QED
  BY <1>1, <1>2

LEMMA RootStageIs ==
  ASSUME NEW n, NEW t, NEW cf, NEW txts
  PROVE  LET a == ApexSOA(n, t, SOA)
             b == RootExact(n, t, cf)
             c == lookupEphemeralTXT(n, t, txts)
             d == RootCNAMEFallback(n, t, cf)
         IN RootStage(n, t, cf, txts)
              = IF a # Miss THEN a ELSE IF b # Miss THEN b
                ELSE IF c # Miss THEN c ELSE IF d # Miss THEN d
                ELSE RootWildcard(n, t, cf)
  BY FirstOfFive DEF RootStage

LEMMA BackupStageIs ==
  ASSUME NEW n, NEW t, NEW cf, NEW txts
  PROVE  LET a == ApexSOA(n, t, backupSOA)
             b == BackupExact(n, t, cf)
             c == lookupEphemeralTXT(n, t, txts)
             d == BackupCNAMEFallback(n, t, cf)
         IN BackupStage(n, t, cf, txts)
              = IF a # Miss THEN a ELSE IF b # Miss THEN b
                ELSE IF c # Miss THEN c ELSE IF d # Miss THEN d
                ELSE BackupWildcard(n, t, cf)
  BY FirstOfFive DEF BackupStage

LEMMA ApexIs ==
  ASSUME NEW n, NEW t, NEW soa
  PROVE  /\ t = "SOA" /\ n = soa.owner =>
              /\ ApexSOA(n, t, soa) = Found(<<soa>>, {})
              /\ ApexSOA(n, t, soa) # Miss
         /\ ~(t = "SOA" /\ n = soa.owner) => ApexSOA(n, t, soa) = Miss
<1>1. Found(<<soa>>, {}) # Miss
  BY FoundFacts
<1>2. t = "SOA" /\ n = soa.owner =>
        ApexSOA(n, t, soa) = Found(<<soa>>, {})
  BY Zenon DEF ApexSOA, Found
<1>3. ~(t = "SOA" /\ n = soa.owner) => ApexSOA(n, t, soa) = Miss
  BY Zenon DEF ApexSOA, Found
<1> QED
  BY <1>1, <1>2, <1>3, Zenon

TokenRR(n) == [owner |-> n, type |-> "TXT", data |-> Token, ttl |-> 0]

LEMMA EphemeralIs ==
  ASSUME NEW n, NEW t, NEW txts
  PROVE  /\ t = "TXT" /\ n \in txts =>
              /\ lookupEphemeralTXT(n, t, txts)
                   = Found(<<TokenRR(n)>>, {})
              /\ lookupEphemeralTXT(n, t, txts) # Miss
         /\ ~(t = "TXT" /\ n \in txts) =>
              lookupEphemeralTXT(n, t, txts) = Miss
<1>1. Found(<<TokenRR(n)>>, {}) # Miss
  BY FoundFacts
<1>2. t = "TXT" /\ n \in txts => lookupEphemeralTXT(n, t, txts)
                                   = Found(<<TokenRR(n)>>, {})
  BY Zenon DEF lookupEphemeralTXT, TokenRR, Found
<1>3. ~(t = "TXT" /\ n \in txts) => lookupEphemeralTXT(n, t, txts) = Miss
  BY Zenon DEF lookupEphemeralTXT
<1> QED
  BY <1>1, <1>2, <1>3, Zenon

(* The exact stages, when no chain is collapsed.                           *)
LEMMA RootExactIs ==
  ASSUME NEW n, NEW t, NEW cf \in BOOLEAN, t # "CNAME" \/ ~cf
  PROVE  RootExact(n, t, cf) = Found(Lookup(root, n, t), {})
  BY Zenon DEF RootExact, Found

LEMMA BackupExactIs ==
  ASSUME GoodState, NEW n \in Name, NEW t, NEW cf \in BOOLEAN,
         t # "CNAME" \/ ~cf
  PROVE  BackupExact(n, t, cf)
           = IF Overridden(n, t) THEN Found(Lookup(over, n, t), {})
             ELSE Emitted(Lookup(root, AtRoot(n), t), root, BackupOrigin,
                          labels)
<1> DEFINE s == Lookup(root, AtRoot(n), t)
<1>1. GoodZone(root, RootOrigin) /\ root.origin = RootOrigin
  BY DEF GoodState, GoodZone
<1>2. OfType(s, t)
  BY <1>1, LookupFacts
<1>3. Chased(s, t, root) = s
  BY <1>2, ChasedSame
<1>4. BackupExact(n, t, cf)
        = IF Overridden(n, t) THEN Found(Lookup(over, n, t), {})
          ELSE Emitted(Chased(s, t, root), root, BackupOrigin, labels)
  BY <1>1, Zenon DEF BackupExact, ResolveExactNoCNAME, Overridden, AtRoot,
                     finalizeBackupRRs, Found
<1> QED
  BY <1>3, <1>4
----------------------------------------------------------------------------
(* An ephemeral record is seen: only TXT records of a zone file at the     *)
(* very name come before it.                                               *)
LEMMA RootSeesTXT ==
  ASSUME GoodState, NEW n \in Name, NEW cf \in BOOLEAN, n \in store,
         NEW t, t = "TXT"
  PROVE  LET L == Lookup(root, n, t)
         IN RootStage(n, t, cf, store).rrs
              = IF L # <<>> THEN L ELSE <<TokenRR(n)>>
<1> DEFINE L == Lookup(root, n, t)
           e == Found(<<TokenRR(n)>>, {})
<1>1. ApexSOA(n, t, SOA) = Miss
  BY Zenon DEF ApexSOA, Found
<1>2. RootExact(n, t, cf) = Found(L, {})
  BY RootExactIs
<1>3. lookupEphemeralTXT(n, t, store) = e /\ e # Miss
  BY EphemeralIs
<1>4. L # <<>> => Found(L, {}) # Miss
  BY FoundFacts
<1>5. L = <<>> => Found(L, {}) = Miss
  BY FoundFacts
<1>6. Found(L, {}).rrs = L /\ e.rrs = <<TokenRR(n)>>
  BY FoundFacts
<1>7. RootStage(n, t, cf, store) = IF L # <<>> THEN Found(L, {})
                                       ELSE e
  BY <1>1, <1>2, <1>3, <1>4, <1>5, RootStageIs, Zenon
<1> QED
  BY <1>6, <1>7, Zenon

LEMMA BackupSeesTXT ==
  ASSUME GoodState, NEW n \in Name, NEW cf \in BOOLEAN, n \in store,
         NEW t, t = "TXT"
  PROVE  LET L == Lookup(root, AtRoot(n), t)
         IN BackupStage(n, t, cf, store).rrs
              = IF Overridden(n, t) THEN Lookup(over, n, t)
                ELSE IF L # <<>>
                THEN RewriteRRs(L, RootOrigin, BackupOrigin, labels)
                ELSE <<TokenRR(n)>>
<1> DEFINE L == Lookup(root, AtRoot(n), t)
           R == RewriteRRs(L, RootOrigin, BackupOrigin, labels)
           O == Lookup(over, n, t)
           e == Found(<<TokenRR(n)>>, {})
<1>0. /\ GoodZone(root, RootOrigin) /\ labels \in BOOLEAN
      /\ RootOrigin \in Name /\ BackupOrigin \in Name
  BY OriginsAssumption DEF GoodState
<1>1. ApexSOA(n, t, backupSOA) = Miss
  BY Zenon DEF ApexSOA, Found
<1>2. BackupExact(n, t, cf)
        = IF Overridden(n, t) THEN Found(O, {})
          ELSE Emitted(L, root, BackupOrigin, labels)
  BY BackupExactIs
<1>3. OfType(L, t) /\ L \in Seq(Record)
  <2>1. OfType(L, t)
    BY <1>0, LookupFacts
  <2> QED
    BY <2>1 DEF OfType
<1>4. Emitted(L, root, BackupOrigin, labels) = Found(R, {})
  <2>1. t \notin Uncovered
    BY DEF Uncovered
  <2> QED
    <3> HIDE DEF L
    <3> QED
      BY <1>0, <1>3, <2>1, UniformEmitted
<1>5. L = <<>> <=> R = <<>>
  BY <1>0, <1>3, RewriteRRsFacts
<1>6. lookupEphemeralTXT(n, t, store) = e /\ e # Miss
  BY EphemeralIs
<1>7. /\ R # <<>> => Found(R, {}) # Miss
      /\ O # <<>> => Found(O, {}) # Miss
      /\ Found(<<>>, {}) = Miss
  BY FoundFacts
<1>8. /\ Found(R, {}).rrs = R /\ e.rrs = <<TokenRR(n)>>
      /\ Found(O, {}).rrs = O
  BY FoundFacts
<1>9. Overridden(n, t) => O # <<>>
  BY DEF Overridden
<1> DEFINE bs == BackupStage(n, t, cf, store)
<1> HIDE DEF L, R, O, e
<1>10. CASE Overridden(n, t)
  <2>1. bs = Found(O, {})
    BY <1>1, <1>2, <1>7, <1>9, <1>10, BackupStageIs, Zenon
  <2> QED
    BY <1>8, <1>10, <2>1, Zenon DEF O
<1>11. CASE ~Overridden(n, t) /\ L # <<>>
  <2>1. bs = Found(R, {})
    BY <1>1, <1>2, <1>4, <1>5, <1>7, <1>11, BackupStageIs, Zenon
  <2> QED
    BY <1>8, <1>11, <2>1, Zenon DEF L, R
<1>12. CASE ~Overridden(n, t) /\ L = <<>>
  <2>1. bs = e
    BY <1>1, <1>2, <1>4, <1>5, <1>6, <1>7, <1>12, BackupStageIs, Zenon
  <2> QED
    BY <1>8, <1>12, <2>1, Zenon DEF L
<1> QED
  BY <1>10, <1>11, <1>12

LEMMA InvEphemeralVisible == ResolveInv => EphemeralVisible
<1> SUFFICES ASSUME ResolveInv, Replied, out.qtype = "TXT",
                    out.qname \in store
             PROVE  EphemeralVisible
  BY DEF EphemeralVisible
<1> DEFINE t == out.qtype
           n == out.qname
           a == out.reply.answer
           L == Lookup(root, AtRoot(n), t)
<1>1. /\ GoodState /\ n \in Name /\ n \in store /\ collapse \in BOOLEAN
      /\ t \in STRING /\ t = "TXT"
      /\ out.reply = Respond(n, t, collapse, store)
      /\ GoodZone(root, RootOrigin) /\ GoodZone(over, BackupOrigin)
      /\ labels \in BOOLEAN
      /\ RootOrigin \in Name /\ BackupOrigin \in Name
  BY OriginsAssumption DEF ResolveInv, Replied, GoodReply, GoodState
<1>2. /\ TokenRR(n).type = t /\ TokenRR(n).owner = n
      /\ TokenRR(n).data = Token
  BY DEF TokenRR
<1>3. OfType(L, t) /\ OfOwner(L, AtRoot(n))
  BY <1>1, LookupFacts
<1>4. SUFFICES /\ a # <<>>
               /\ \A i \in DOMAIN a :
                    /\ a[i].type = t /\ a[i].owner = n
                    /\ \/ a[i].data = Token \/ L # <<>>
                       \/ Overridden(n, t)
  BY DEF EphemeralVisible
<1> HIDE DEF n, t, a, L
<1>5. CASE IsInZone(n, RootOrigin)
  <2>1. AtRoot(n) = n
    BY <1>1, <1>5, OneZone, AtRootFacts
  <2>2. RootStage(n, t, collapse, store).rrs
          = IF L # <<>> THEN L ELSE <<TokenRR(n)>>
    BY <1>1, <2>1, RootSeesTXT DEF L
  <2>3. RootStage(n, t, collapse, store).rrs # <<>>
    BY <2>2
  <2>4. a = RootStage(n, t, collapse, store).rrs
    BY <1>1, <1>5, <2>3, RespondRoot, ReplyFacts DEF a
  <2>5. CASE L # <<>>
    BY <2>1, <2>2, <2>4, <2>5, <1>3 DEF OfType, OfOwner
  <2>6. CASE L = <<>>
    BY <1>2, <2>2, <2>4, <2>6
  <2> QED
    BY <2>5, <2>6
<1>6. CASE IsInZone(n, BackupOrigin)
  <2> DEFINE bs == BackupStage(n, t, collapse, store).rrs
             R  == RewriteRRs(L, RootOrigin, BackupOrigin, labels)
  <2>1. bs = IF Overridden(n, t) THEN Lookup(over, n, t)
             ELSE IF L # <<>> THEN R ELSE <<TokenRR(n)>>
    BY <1>1, BackupSeesTXT DEF L
  <2>2. L \in Seq(Record) /\ DOMAIN R = DOMAIN L /\ (L = <<>> <=> R = <<>>)
    BY <1>1, <1>3, RewriteRRsFacts DEF OfType
  <2>3. ASSUME NEW i \in DOMAIN R
        PROVE  R[i].type = t /\ R[i].owner = n
    <3>1. L[i].owner = AtRoot(n) /\ L[i].type = t
      BY <1>3, <2>2, <2>3 DEF OfType, OfOwner
    <3>2. /\ R[i].owner = RewriteName(L[i].owner, RootOrigin, BackupOrigin)
          /\ R[i].type = L[i].type
      <4>1. L[i] \in Record /\ i \in DOMAIN L
        BY <2>2, <2>3
      <4>2. R[i] = RewriteRR(L[i], RootOrigin, BackupOrigin, labels)
        BY <4>1 DEF RewriteRRs
      <4> QED
        BY <1>1, <4>1, <4>2, RewriteRRFacts
    <3> QED
      BY <1>1, <1>6, <3>1, <3>2, AtRootFacts
  <2>4. /\ Overridden(n, t) => Lookup(over, n, t) # <<>>
        /\ OfType(Lookup(over, n, t), t)
        /\ OfOwner(Lookup(over, n, t), n)
    BY <1>1, LookupFacts DEF Overridden
  <2> HIDE DEF R
  <2>5. bs # <<>>
    BY <2>1, <2>2, <2>4
  <2>6. a = bs
    BY <1>1, <1>6, <2>5, RespondBackup, ReplyFacts DEF a
  <2> HIDE DEF bs
  <2>7. CASE Overridden(n, t)
    BY <2>1, <2>4, <2>5, <2>6, <2>7 DEF OfType, OfOwner
  <2>8. CASE ~Overridden(n, t) /\ L # <<>>
    BY <2>1, <2>3, <2>5, <2>6, <2>8
  <2>9. CASE ~Overridden(n, t) /\ L = <<>>
    BY <1>2, <2>1, <2>5, <2>6, <2>9
  <2> QED
    BY <2>7, <2>8, <2>9
<1> QED
  BY <1>1, <1>5, <1>6 DEF GoodState

(* A record put through the API is seen by every TXT query at its name,    *)
(* under whatever CNAME, wildcard, override or collapsed chain.            *)
THEOREM ResolveEphemeralVisible == Spec => []EphemeralVisible
  BY ResolveInvariance, InvEphemeralVisible, PTL
----------------------------------------------------------------------------
(* A name that a zone does not have: every stage misses.                   *)
LEMMA FirstOfTwo ==
  ASSUME NEW a, NEW b
  PROVE  FirstNonEmpty(<<a, b>>) = IF a # <<>> THEN a ELSE b
<1> DEFINE s  == <<a, b>>
           at == {i \in DOMAIN s : s[i] # <<>>}
<1>1. /\ at \in SUBSET Int /\ at \subseteq {1, 2}
      /\ (1 \in at <=> a # <<>>) /\ (2 \in at <=> b # <<>>)
  OBVIOUS
<1>2. s[1] = a /\ s[2] = b
  OBVIOUS
<1>3. FirstNonEmpty(s) = IF at # {} THEN s[Min(at)] ELSE <<>>
  <2>1. (\E i \in DOMAIN s : s[i] # <<>>) <=> at # {}
    OBVIOUS
  <2> QED
    BY <2>1, Zenon DEF FirstNonEmpty
<1> HIDE DEF at, s
<1>4. CASE a # <<>>
  <2>1. Min(at) = 1
    BY <1>1, <1>4, MinIs
  <2> QED
    BY <1>1, <1>2, <1>3, <1>4, <2>1 DEF s
<1>5. CASE a = <<>> /\ b # <<>>
  <2>1. Min(at) = 2
    <3>1. 2 \in at /\ \A y \in at : 2 <= y
      BY <1>1, <1>5
    <3> QED
      BY <1>1, <3>1, MinIs
  <2> QED
    BY <1>1, <1>2, <1>3, <1>5, <2>1 DEF s
<1>6. CASE a = <<>> /\ b = <<>>
  <2>1. at = {}
    BY <1>1, <1>6
  <2> QED
    BY <1>3, <1>6, <2>1 DEF s
<1> QED
  BY <1>4, <1>5, <1>6

LEMMA EmptyEmitted ==
  ASSUME GoodState, NEW qt
  PROVE  /\ Kept(<<>>) = <<>> /\ Withheld(<<>>) = {}
         /\ Chased(<<>>, qt, root) = <<>>
         /\ finalizeBackupRRs(<<>>, qt, root, BackupOrigin, labels) = Miss
<1>1. GoodZone(root, RootOrigin)
  BY DEF GoodState
<1>2. PICK t \in STRING : OfType(<<>>, t)
  <2>1. OfType(<<>>, SOA.type) /\ SOA.type \in STRING
    BY SOAAssumption DEF OfType, Record
  <2> QED
    BY <2>1
<1>3. Chased(<<>>, qt, root) = <<>>
  BY DEF Chased
<1>4. Emitted(<<>>, root, BackupOrigin, labels) = Miss
  BY <1>1, <1>2, UniformEmitted
<1>5. Kept(<<>>) = <<>> /\ Withheld(<<>>) = {}
  BY <1>2, UniformKept
<1> QED
  BY <1>3, <1>4, <1>5 DEF finalizeBackupRRs

LEMMA NoNameNoRecords ==
  ASSUME NEW z, NEW o, GoodZone(z, o), NEW n, NEW t
  PROVE  /\ n \notin Owners(z) => Lookup(z, n, t) = <<>>
         /\ ~HasWildcard(z, n) => LookupWildcard(z, n, t) = <<>>
  BY LookupFacts, WildcardFacts

LEMMA RootMisses ==
  ASSUME GoodState, NEW n \in Name, NEW t, NEW cf, NEW txts,
         n \notin Owners(root), ~HasWildcard(root, n), n \notin txts
  PROVE  RootStage(n, t, cf, txts) = Miss
<1>0. /\ GoodZone(root, RootOrigin)
      /\ <<RootOrigin, "SOA">> \in DOMAIN root.rrs
  BY DEF GoodState
<1>1. ApexSOA(n, t, SOA) = Miss
  <2>1. <<RootOrigin, "SOA">>[1] \in Owners(root)
    BY <1>0, Zenon DEF Owners
  <2>2. n # SOA.owner
    BY <2>1, SOAAssumption
  <2> QED
    BY <2>2, Zenon DEF ApexSOA
<1>2. Lookup(root, n, t) = <<>> /\ LookupWildcard(root, n, t) = <<>>
  BY <1>0, NoNameNoRecords
<1>3. \A c :
        Lookup(root, n, c) = <<>> /\ LookupWildcard(root, n, c) = <<>>
  BY <1>0, NoNameNoRecords
<1>4. /\ Lookup(root, n, "CNAME") = <<>>
      /\ LookupWildcard(root, n, "CNAME") = <<>>
  BY <1>3, Zenon
<1>5. RootExact(n, t, cf) = Miss
  BY <1>2, Zenon DEF RootExact, Miss
<1>6. lookupEphemeralTXT(n, t, txts) = Miss
  BY Zenon DEF lookupEphemeralTXT
<1>7. RootCNAMEFallback(n, t, cf) = Miss
  BY <1>4, Zenon DEF RootCNAMEFallback, RootChain
<1>8. RootWildcard(n, t, cf) = Miss
  BY <1>2, <1>4, Zenon DEF RootWildcard, RootChain
<1> QED
  BY <1>1, <1>5, <1>6, <1>7, <1>8, RootStageIs, Zenon

LEMMA BackupApex ==
  /\ backupSOA.owner = BackupOrigin /\ backupSOA \in Record
  /\ AtRoot(BackupOrigin) = RootOrigin
<1>1. /\ SOA \in Record /\ RootOrigin \in Name /\ BackupOrigin \in Name
      /\ SOA.data \in Name
  BY SOAAssumption, OriginsAssumption DEF Record
<1> DEFINE d == RewriteName(SOA.data, RootOrigin, BackupOrigin)
<1>2. d \in Name
  BY <1>1, RewriteNameFacts
<1>3. backupSOA = [SOA EXCEPT !.owner = BackupOrigin, !.data = d]
  BY Zenon DEF backupSOA, BackupSOA
<1> HIDE DEF d
<1>4. backupSOA.owner = BackupOrigin /\ backupSOA \in Record
  BY <1>1, <1>2, <1>3 DEF Record
<1>5. <<>> \in Name /\ <<>> \o BackupOrigin = BackupOrigin
      /\ <<>> \o RootOrigin = RootOrigin
  BY <1>1 DEF Name
<1>6. AtRoot(BackupOrigin) = RootOrigin
  <2>1. RewriteName(<<>> \o BackupOrigin, BackupOrigin, RootOrigin)
          = <<>> \o RootOrigin
    BY <1>1, <1>5, RewritePrefix
  <2> QED
    BY <1>5, <2>1 DEF AtRoot
<1> QED
  BY <1>4, <1>6

LEMMA BackupMisses ==
  ASSUME GoodState, NEW n \in Name, NEW t, NEW cf \in BOOLEAN,
         NEW txts, ~backupZoneHasName(n), n \notin txts
  PROVE  BackupStage(n, t, cf, txts) = Miss
<1> DEFINE at == AtRoot(n)
<1>0. /\ GoodZone(root, RootOrigin)
      /\ <<RootOrigin, "SOA">> \in DOMAIN root.rrs
      /\ GoodZone(over, BackupOrigin) /\ root.origin = RootOrigin
  BY DEF GoodState, GoodZone
<1>1. /\ n \notin Owners(over) /\ at \notin Owners(root)
      /\ ~HasWildcard(root, at)
  BY DEF backupZoneHasName, AtRoot
<1>2. at = RewriteName(n, BackupOrigin, root.origin)
  BY <1>0 DEF AtRoot
<1> HIDE DEF at
<1>3. ApexSOA(n, t, backupSOA) = Miss
  <2>1. <<RootOrigin, "SOA">>[1] \in Owners(root)
    BY <1>0, Zenon DEF Owners
  <2>2. n # backupSOA.owner
    BY <2>1, <1>1, BackupApex DEF at
  <2> QED
    BY <2>2, Zenon DEF ApexSOA
<1>4. \A c :
        /\ Lookup(root, at, c) = <<>> /\ LookupWildcard(root, at, c) = <<>>
        /\ Lookup(over, n, c) = <<>>
  BY <1>0, <1>1, NoNameNoRecords
<1>5. /\ Lookup(root, at, t) = <<>> /\ LookupWildcard(root, at, t) = <<>>
      /\ Lookup(root, at, "CNAME") = <<>>
      /\ LookupWildcard(root, at, "CNAME") = <<>>
      /\ Lookup(over, n, t) = <<>>
  BY <1>4, Zenon
<1>6. /\ Kept(<<>>) = <<>> /\ Withheld(<<>>) = {}
      /\ finalizeBackupRRs(<<>>, t, root, BackupOrigin, labels) = Miss
  BY EmptyEmitted
<1>7. collapseChainAt(n, t, BackupOrigin, root, labels) = Miss
  BY <1>2, <1>5, Zenon DEF collapseChainAt
<1>8. BackupExact(n, t, cf) = Miss
  BY <1>2, <1>5, <1>6, <1>7, Zenon DEF BackupExact, ResolveExactNoCNAME
<1>9. lookupEphemeralTXT(n, t, txts) = Miss
  BY Zenon DEF lookupEphemeralTXT
<1>10. BackupCNAMEFallback(n, t, cf) = Miss
  BY <1>2, <1>5, <1>6, <1>7, Zenon
     DEF BackupCNAMEFallback, ResolveCNAMEFallback
<1>11. BackupWildcard(n, t, cf) = Miss
  <2>1. FirstNonEmpty(<<<<>>, <<>>>>) = <<>>
    BY FirstOfTwo
  <2>2. WithOwner(<<>>, at) = <<>>
    BY DEF WithOwner
  <2>3. [Miss EXCEPT !.withheld = @ \cup {}] = Miss
    BY Zenon DEF Miss, Stage
  <2>4. ResolveWildcard(n, t, BackupOrigin, root, labels) = Miss
    BY <1>2, <1>5, <1>6, <2>1, <2>2, <2>3, Zenon
       DEF ResolveWildcard, synthesizeWildcardRRs
  <2>5. ResolveWildcardCollapse(n, t, BackupOrigin, root, labels) = Miss
    BY <1>2, <1>5, Zenon DEF ResolveWildcardCollapse
  <2> QED
    BY <2>4, <2>5, Zenon DEF BackupWildcard
<1> QED
  BY <1>3, <1>8, <1>9, <1>10, <1>11, BackupStageIs, Zenon

LEMMA InvNxdomainIsTotal == ResolveInv => NxdomainIsTotal
<1> SUFFICES ASSUME ResolveInv, Replied, out.reply.rcode = "NXDOMAIN",
                    out.qname \notin store, NEW u \in QTypes
             PROVE  Denies(Respond(out.qname, u, collapse, store))
  BY DEF NxdomainIsTotal
<1> DEFINE n == out.qname
           t == out.qtype
<1>1. /\ GoodState /\ n \in Name /\ t \in STRING /\ collapse \in BOOLEAN
      /\ out.reply = Respond(n, t, collapse, store)
  BY DEF ResolveInv, Replied, GoodReply, GoodState
<1>2. u \in STRING /\ n \notin store /\ out.reply.rcode = "NXDOMAIN"
  BY InputsAssumption
<1>3. Miss.rrs = <<>>
  BY FoundFacts
<1> HIDE DEF n, t
<1>4. SUFFICES /\ Respond(n, u, collapse, store).answer = <<>>
               /\ Respond(n, u, collapse, store).rcode = "NXDOMAIN"
  BY DEF Denies, n
<1>5. CASE IsInZone(n, BackupOrigin)
  <2>1. ~backupZoneHasName(n)
    BY <1>1, <1>2, <1>5, RespondBackup, ReplyFacts DEF Negative
  <2>2. BackupStage(n, u, collapse, store) = Miss
    BY <1>1, <1>2, <2>1, BackupMisses
  <2> QED
    BY <1>1, <1>3, <1>5, <2>1, <2>2, RespondBackup, ReplyFacts DEF Negative
<1>6. CASE IsInZone(n, RootOrigin)
  <2>1. ~(n \in Owners(root) \/ HasWildcard(root, n))
    BY <1>1, <1>2, <1>6, RespondRoot, ReplyFacts DEF Negative
  <2>2. RootStage(n, u, collapse, store) = Miss
    BY <1>1, <1>2, <2>1, RootMisses
  <2> QED
    BY <1>1, <1>3, <1>6, <2>1, <2>2, RespondRoot, ReplyFacts DEF Negative
<1>7. CASE ~IsInZone(n, BackupOrigin) /\ ~IsInZone(n, RootOrigin)
  <2>1. out.reply = Reply("REFUSED", <<>>, <<>>)
    BY <1>1, <1>7, RespondOutside
  <2> QED
    BY <1>2, <2>1, ReplyFacts
<1> QED
  BY <1>5, <1>6, <1>7

(* A denial holds for every type: where negativeReply finds no name, none  *)
(* of the stages finds a record for any query.                             *)
THEOREM ResolveNxdomainIsTotal == Spec => []NxdomainIsTotal
  BY ResolveInvariance, InvNxdomainIsTotal, PTL
----------------------------------------------------------------------------
(* The zone transfer.  An RRset of the stream is what a query gets.        *)
LEMMA GoodKey ==
  ASSUME NEW z, NEW o, GoodZone(z, o), NEW k \in DOMAIN z.rrs
  PROVE  /\ k[1] \in Name /\ IsInZone(k[1], o) /\ k = <<k[1], k[2]>>
         /\ z.rrs[k] # <<>> /\ Lookup(z, k[1], k[2]) = z.rrs[k]
         /\ OfType(z.rrs[k], k[2]) /\ OfOwner(z.rrs[k], k[1])
<1>1. GoodRRset(k, z.rrs[k], o)
  BY DEF GoodZone
<1>2. /\ k[1] \in Name /\ IsInZone(k[1], o) /\ k = <<k[1], k[2]>>
      /\ z.rrs[k] # <<>>
  BY <1>1 DEF GoodRRset
<1>3. <<k[1], k[2]>> \in DOMAIN z.rrs
  BY <1>2
<1>4. Lookup(z, k[1], k[2]) = z.rrs[k]
  BY <1>2, <1>3 DEF Lookup
<1>5. OfType(z.rrs[k], k[2]) /\ OfOwner(z.rrs[k], k[1])
  BY <1>4, LookupFacts
<1> QED
  BY <1>2, <1>4, <1>5

(* A query for records the root has, with collapsing off.                  *)
LEMMA RootAnswersRRset ==
  ASSUME GoodState, NEW k \in DOMAIN root.rrs, k[2] # "SOA"
  PROVE  Respond(k[1], k[2], FALSE, {}).answer = root.rrs[k]
<1> DEFINE n == k[1]
           t == k[2]
           s == root.rrs[k]
           rs == RootStage(n, t, FALSE, {})
<1>0. GoodZone(root, RootOrigin)
  BY DEF GoodState
<1>1. n \in Name /\ IsInZone(n, RootOrigin) /\ s # <<>>
      /\ Lookup(root, n, t) = s
  BY <1>0, GoodKey
<1>2. ApexSOA(n, t, SOA) = Miss
  BY Zenon DEF ApexSOA
<1>3. RootExact(n, t, FALSE) = Found(s, {})
  BY <1>1, Zenon DEF RootExact, Found
<1>4. Found(s, {}) # Miss /\ Found(s, {}).rrs = s
  BY <1>1, FoundFacts
<1>5. rs = Found(s, {})
  BY <1>2, <1>3, <1>4, RootStageIs, Zenon
<1> HIDE DEF n, t, s
<1>6. Respond(n, t, FALSE, {})
        = IF rs.rrs # <<>> THEN Reply("NOERROR", rs.rrs, <<>>)
          ELSE Negative(IF n \in Owners(root) \/ HasWildcard(root, n)
                        THEN "NOERROR" ELSE "NXDOMAIN", SOA)
  BY <1>1, RespondRoot, Zenon
<1>7. Respond(n, t, FALSE, {}) = Reply("NOERROR", s, <<>>)
  BY <1>1, <1>4, <1>5, <1>6, Zenon
<1> DEFINE r == Respond(n, t, FALSE, {})
<1>8. r = Reply("NOERROR", s, <<>>)
  BY <1>7
<1> HIDE DEF r
<1>9. r.answer = s
  BY <1>8, ReplyFacts
<1> QED
  BY <1>9, Zenon DEF n, t, s, r

LEMMA BackupAnswersRRset ==
  ASSUME GoodState, NEW k \in DOMAIN root.rrs, k[2] # "SOA"
  PROVE  Respond(RewriteName(k[1], RootOrigin, BackupOrigin), k[2], FALSE,
                 {}).answer = AliasRRset(k)
<1> DEFINE n == RewriteName(k[1], RootOrigin, BackupOrigin)
           t == k[2]
           s == root.rrs[k]
           O == Lookup(over, n, t)
           bs == BackupStage(n, t, FALSE, {})
<1>0. /\ GoodZone(root, RootOrigin) /\ GoodZone(over, BackupOrigin)
      /\ RootOrigin \in Name /\ BackupOrigin \in Name
  BY OriginsAssumption DEF GoodState
<1>1. /\ k[1] \in Name /\ IsInZone(k[1], RootOrigin) /\ s # <<>>
      /\ Lookup(root, k[1], t) = s /\ OfType(s, t)
  BY <1>0, GoodKey
<1>2. n \in Name /\ IsInZone(n, BackupOrigin) /\ AtRoot(n) = k[1]
  BY <1>0, <1>1, RewriteNameFacts DEF AtRoot
<1>3. AliasRRset(k)
        = IF Overridden(n, t) THEN O
          ELSE RewriteRRs(Kept(s), RootOrigin, BackupOrigin, labels)
  BY Zenon DEF AliasRRset, Overridden
<1>4. Overridden(n, t) => O # <<>>
  BY DEF Overridden
<1> HIDE DEF n, t, s, O
<1>5. ApexSOA(n, t, backupSOA) = Miss
  BY Zenon DEF ApexSOA, t
<1>6. BackupExact(n, t, FALSE)
        = IF Overridden(n, t) THEN Found(O, {})
          ELSE Emitted(s, root, BackupOrigin, labels)
  BY <1>1, <1>2, BackupExactIs DEF O
<1> DEFINE a == AliasRRset(k)
           e == BackupExact(n, t, FALSE)
<1>7. e # Miss /\ e.rrs = a
  <2>1. CASE Overridden(n, t)
    <3>1. Found(O, {}) # Miss /\ Found(O, {}).rrs = O
      BY <1>4, <2>1, FoundFacts
    <3> QED
      BY <1>3, <1>6, <2>1, <3>1
  <2>2. CASE ~Overridden(n, t) /\ t \notin Uncovered
    <3> DEFINE r == RewriteRRs(s, RootOrigin, BackupOrigin, labels)
    <3>1. Kept(s) = s
      BY <1>1, <2>2, UniformKept
    <3>2. Emitted(s, root, BackupOrigin, labels) = Found(r, {})
      BY <1>0, <1>1, <2>2, UniformEmitted
    <3>3. r # <<>>
      <4>1. labels \in BOOLEAN /\ s \in Seq(Record)
        BY <1>1 DEF GoodState, OfType
      <4> QED
        BY <4>1, <1>0, <1>1, RewriteRRsFacts
    <3> HIDE DEF r
    <3>4. Found(r, {}) # Miss /\ Found(r, {}).rrs = r
      BY <3>3, FoundFacts
    <3> QED
      BY <1>3, <1>6, <2>2, <3>1, <3>2, <3>4 DEF r
  <2>3. CASE ~Overridden(n, t) /\ t \in Uncovered
    <3>1. Kept(s) = <<>>
      BY <1>1, <2>3, UniformKept
    <3>2. /\ Emitted(s, root, BackupOrigin, labels) # Miss
          /\ Emitted(s, root, BackupOrigin, labels).rrs = <<>>
      BY <1>0, <1>1, <2>3, UniformEmitted
    <3>3. RewriteRRs(<<>>, RootOrigin, BackupOrigin, labels) = <<>>
      BY DEF RewriteRRs
    <3> QED
      BY <1>3, <1>6, <2>3, <3>1, <3>2, <3>3
  <2> QED
    BY <2>1, <2>2, <2>3
<1> HIDE DEF a, e
<1>8. bs = e
  BY <1>5, <1>7, BackupStageIs, Zenon DEF e
<1>9. Respond(n, t, FALSE, {})
        = IF bs.rrs # <<>> THEN Reply("NOERROR", bs.rrs, <<>>)
          ELSE Negative(IF backupZoneHasName(n) THEN "NOERROR"
                        ELSE "NXDOMAIN", backupSOA)
  BY <1>2, RespondBackup, Zenon
<1> DEFINE r == Respond(n, t, FALSE, {})
<1>10. r = IF bs.rrs # <<>> THEN Reply("NOERROR", bs.rrs, <<>>)
           ELSE Negative(IF backupZoneHasName(n) THEN "NOERROR"
                         ELSE "NXDOMAIN", backupSOA)
  BY <1>9
<1> HIDE DEF r, bs
<1>11. r.answer = a
  BY <1>7, <1>8, <1>10, ReplyFacts DEF Negative
<1> QED
  BY <1>11, Zenon DEF a, n, t, r

LEMMA AliasRRsetFacts ==
  ASSUME GoodState, NEW k \in DOMAIN root.rrs
  PROVE  /\ OfType(AliasRRset(k), k[2])
         /\ OfOwner(AliasRRset(k), RewriteName(k[1], RootOrigin,
                                               BackupOrigin))
<1> DEFINE n == RewriteName(k[1], RootOrigin, BackupOrigin)
           t == k[2]
           s == root.rrs[k]
           r == RewriteRRs(Kept(s), RootOrigin, BackupOrigin, labels)
<1>0. /\ GoodZone(root, RootOrigin) /\ GoodZone(over, BackupOrigin)
      /\ RootOrigin \in Name /\ BackupOrigin \in Name
      /\ labels \in BOOLEAN
  BY OriginsAssumption DEF GoodState
<1>1. OfType(s, t) /\ OfOwner(s, k[1])
  BY <1>0, GoodKey
<1>2. AliasRRset(k) = Lookup(over, n, t) \/ AliasRRset(k) = r
  BY Zenon DEF AliasRRset
<1>3. OfType(Lookup(over, n, t), t) /\ OfOwner(Lookup(over, n, t), n)
  BY <1>0, LookupFacts
<1> HIDE DEF n, t, s
<1>4. /\ s \in Seq(Record)
      /\ \A i \in DOMAIN s : s[i].type = t /\ s[i].owner = k[1]
  BY <1>1 DEF OfType, OfOwner
<1>5. Kept(s) \in Seq(Record)
      /\ \A i \in DOMAIN Kept(s) : \E j \in DOMAIN s : Kept(s)[i] = s[j]
  BY <1>4, KeptFacts
<1> DEFINE q == Kept(s)
<1>6. /\ q \in Seq(Record)
      /\ \A i \in DOMAIN q : q[i].type = t /\ q[i].owner = k[1]
  BY <1>4, <1>5
<1> HIDE DEF q
<1>7. r \in Seq(Record) /\ DOMAIN r = DOMAIN q
  BY <1>0, <1>6, RewriteRRsFacts DEF q
<1>8. ASSUME NEW i \in DOMAIN r
      PROVE  r[i] \in Record /\ r[i].type = t /\ r[i].owner = n
  <2>1. /\ i \in DOMAIN q /\ q[i] \in Record /\ q[i].type = t
        /\ q[i].owner = k[1]
    BY <1>6, <1>7, <1>8
  <2>2. r[i] = RewriteRR(q[i], RootOrigin, BackupOrigin, labels)
    BY <2>1 DEF RewriteRRs, q
  <2> QED
    BY <1>0, <2>1, <2>2, RewriteRRFacts DEF n
<1> HIDE DEF r
<1>9. OfType(r, t) /\ OfOwner(r, n)
  BY <1>7, <1>8 DEF OfType, OfOwner
<1> QED
  BY <1>2, <1>3, <1>9 DEF n, t

LEMMA InvAxfrAgrees == ResolveInv => AxfrAgrees
<1> SUFFICES ASSUME ResolveInv, out.kind = "xfer",
                    NEW k \in {x \in DOMAIN root.rrs : x[2] # "SOA"}
             PROVE  LET n == RewriteName(k[1], RootOrigin, out.origin) IN
                    {rr \in out.records : rr.owner = n /\ rr.type = k[2]}
                      = Range(Respond(n, k[2], FALSE, {}).answer)
  BY DEF AxfrAgrees
<1> DEFINE n == RewriteName(k[1], RootOrigin, out.origin)
           D == {x \in DOMAIN root.rrs : x[2] # "SOA"}
<1>0. /\ GoodState /\ GoodTransfer /\ GoodZone(root, RootOrigin)
      /\ RootOrigin \in Name /\ BackupOrigin \in Name
      /\ RootOrigin # BackupOrigin
  BY OriginsAssumption, ZoneOfFacts DEF ResolveInv, GoodState
<1>1. k \in DOMAIN root.rrs /\ k[2] # "SOA" /\ k \in D
  OBVIOUS
<1>2. \A x \in D : /\ x \in DOMAIN root.rrs /\ x[1] \in Name
                   /\ IsInZone(x[1], RootOrigin) /\ x = <<x[1], x[2]>>
                   /\ OfType(root.rrs[x], x[2]) /\ OfOwner(root.rrs[x], x[1])
  BY <1>0, GoodKey
<1> HIDE DEF D
<1>3. CASE out.origin = RootOrigin
  <2>1. n = k[1]
    BY <1>0, <1>1, <1>2, <1>3, RewriteNameFacts
  <2>2. Respond(n, k[2], FALSE, {}).answer = root.rrs[k]
    BY <1>0, <1>1, <2>1, RootAnswersRRset
  <2>3. out.records = UNION {Range(root.rrs[x]) : x \in D}
    BY <1>0, <1>3, Zenon DEF GoodTransfer, collectNonSOA, D
  <2>4. \A x \in D : \A rr \in Range(root.rrs[x]) :
          rr.owner = x[1] /\ rr.type = x[2]
    BY <1>2 DEF Range, OfType, OfOwner
  <2>5. \A x \in D : x[1] = k[1] /\ x[2] = k[2] => x = k
    BY <1>1, <1>2
  <2>6. {rr \in out.records : rr.owner = n /\ rr.type = k[2]}
          = Range(root.rrs[k])
    BY <1>1, <2>1, <2>3, <2>4, <2>5
  <2> QED
    BY <2>2, <2>6
<1>4. CASE out.origin = BackupOrigin
  <2>0. n = RewriteName(k[1], RootOrigin, BackupOrigin)
    BY <1>4
  <2>2. Respond(n, k[2], FALSE, {}).answer = AliasRRset(k)
    BY <1>0, <1>1, <2>0, BackupAnswersRRset
  <2>3. out.records = UNION {Range(AliasRRset(x)) : x \in D}
    BY <1>0, <1>4, Zenon DEF GoodTransfer, buildAliasRecords, D
  <2>4. \A x \in D : \A rr \in Range(AliasRRset(x)) :
          /\ rr.owner = RewriteName(x[1], RootOrigin, BackupOrigin)
          /\ rr.type = x[2]
    <3>1. \A x \in D : /\ OfType(AliasRRset(x), x[2])
                       /\ OfOwner(AliasRRset(x),
                            RewriteName(x[1], RootOrigin, BackupOrigin))
      BY <1>0, <1>2, AliasRRsetFacts
    <3> QED
      BY <3>1 DEF Range, OfType, OfOwner
  <2>5. ASSUME NEW x \in D, x[2] = k[2],
               RewriteName(x[1], RootOrigin, BackupOrigin) = n
        PROVE  x = k
    <3>1. RewriteName(n, BackupOrigin, RootOrigin) = x[1]
      BY <1>0, <1>2, <2>5, RewriteNameFacts
    <3>2. RewriteName(n, BackupOrigin, RootOrigin) = k[1]
      BY <1>0, <1>1, <1>2, <2>0, RewriteNameFacts
    <3> QED
      BY <1>1, <1>2, <2>5, <3>1, <3>2
  <2> HIDE DEF n
  <2>6. {rr \in out.records : rr.owner = n /\ rr.type = k[2]}
          = Range(AliasRRset(k))
    BY <1>1, <2>0, <2>3, <2>4, <2>5
  <2> QED
    BY <2>2, <2>6 DEF n
<1> QED
  BY <1>0, <1>3, <1>4 DEF GoodTransfer

(* The zone transfer of either zone has, for each owner and type, exactly  *)
(* the records a query gets.                                               *)
THEOREM ResolveAxfrAgrees == Spec => []AxfrAgrees
  BY ResolveInvariance, InvAxfrAgrees, PTL
----------------------------------------------------------------------------
(* The two loops over a chain.  A loop of n turns over the states of a set *)
(* has a history of states.                                                *)
Runs(f, x, n, g) ==
  g[0] = x /\ \A i \in 1..n : g[i] = f[g[i - 1]]

LEMMA RunsExists ==
  ASSUME NEW S, NEW f \in [S -> S], NEW x \in S, NEW n \in Nat
  PROVE  \E g \in [0..n -> S] : Runs(f, x, n, g)
<1> DEFINE T == {m \in Nat : \E g \in [0..m -> S] : Runs(f, x, m, g)}
<1>1. 0 \in T
  <2> DEFINE g == [i \in 0..0 |-> x]
  <2>1. g \in [0..0 -> S] /\ g[0] = x
    OBVIOUS
  <2> HIDE DEF g
  <2>2. Runs(f, x, 0, g)
    BY <2>1 DEF Runs
  <2> QED
    BY <2>1, <2>2
<1>2. ASSUME NEW m \in T PROVE m + 1 \in T
  <2>0. m \in Nat /\ m + 1 \in Nat
    OBVIOUS
  <2>1. PICK g \in [0..m -> S] : Runs(f, x, m, g)
    OBVIOUS
  <2>2. g[m] \in S /\ f[g[m]] \in S
    BY <2>0
  <2> DEFINE h == [i \in 0..(m + 1) |-> IF i = m + 1 THEN f[g[m]] ELSE g[i]]
  <2>3. \A i \in 0..(m + 1) : i = m + 1 \/ i \in 0..m
    BY <2>0
  <2>4. h \in [0..(m + 1) -> S]
    BY <2>0, <2>2, <2>3
  <2>5. h[m + 1] = f[g[m]] /\ \A i \in 0..m : h[i] = g[i]
    BY <2>0
  <2> HIDE DEF h
  <2>6. h[0] = x
    BY <2>0, <2>1, <2>5 DEF Runs
  <2>7. ASSUME NEW i \in 1..(m + 1) PROVE h[i] = f[h[i - 1]]
    <3>1. CASE i = m + 1
      BY <2>0, <2>5, <3>1
    <3>2. CASE i # m + 1
      <4>1. i \in 1..m /\ i \in 0..m /\ i - 1 \in 0..m
        BY <2>0, <3>2
      <4> QED
        BY <2>1, <2>5, <4>1 DEF Runs
    <3> QED
      BY <3>1, <3>2
  <2>8. Runs(f, x, m + 1, h)
    BY <2>6, <2>7 DEF Runs
  <2> QED
    BY <2>0, <2>4, <2>8
<1>3. n \in T
  <2>1. T \in SUBSET Nat /\ \A m \in T : m + 1 \in T
    BY <1>2
  <2> HIDE DEF T
  <2> QED
    BY <1>1, <2>1, NatSetInduction
<1> QED
  BY <1>3

LEMMA MaxIs ==
  ASSUME NEW S \in SUBSET Int, NEW m \in S, \A y \in S : m >= y
  PROVE  Max(S) = m
<1> DEFINE P(x) == x \in S /\ \A y \in S : x >= y
<1>1. P(m)
  OBVIOUS
<1>2. \A x : P(x) => x = m
  OBVIOUS
<1>3. Max(S) = CHOOSE x : P(x)
  BY Zenon DEF Max
<1> HIDE DEF P
<1>4. P(CHOOSE x : P(x))
  BY <1>1, Zenon
<1> QED
  BY <1>2, <1>3, <1>4

Turns(initial) == IF MaxCNAMEDepth >= Len(initial)
                  THEN MaxCNAMEDepth - Len(initial) ELSE 0

(* FollowCNAME, through the answers after each of its turns.               *)
LEMMA FollowRuns ==
  ASSUME NEW z, NEW qt, NEW T, NEW initial \in T, Len(initial) \in Nat,
         \A s \in T : FollowOnce(z, s, qt) \in T
  PROVE  \E A \in [0..Turns(initial) -> T] :
           /\ FollowCNAME(z, initial, qt) = A[Turns(initial)]
           /\ A[0] = initial
           /\ \A i \in 1..Turns(initial) :
                A[i] = FollowOnce(z, A[i - 1], qt)
<1> DEFINE n == Turns(initial)
           f == [s \in T |-> FollowOnce(z, s, qt)]
           P(g) == g = [i \in 0..n |-> IF i = 0 THEN initial
                                       ELSE FollowOnce(z, g[i - 1], qt)]
           A == CHOOSE g : P(g)
<1>0. n \in Nat /\ Max({0, MaxCNAMEDepth - Len(initial)}) = n
  <2>1. MaxCNAMEDepth \in Nat
    BY DepthAssumption
  <2> DEFINE S == {0, MaxCNAMEDepth - Len(initial)}
  <2>2. S \in SUBSET Int /\ n \in S /\ n \in Nat /\ \A y \in S : n >= y
    BY <2>1 DEF Turns
  <2> HIDE DEF S, n
  <2>3. Max(S) = n
    BY <2>2, MaxIs
  <2> QED
    BY <2>2, <2>3 DEF S
<1>1. FollowCNAME(z, initial, qt) = A[n]
  BY <1>0, Zenon DEF FollowCNAME
<1> HIDE DEF n
<1>2. f \in [T -> T]
  OBVIOUS
<1>3. PICK h \in [0..n -> T] : Runs(f, initial, n, h)
  BY <1>0, <1>2, RunsExists
<1>4. P(h)
  <2> DEFINE b == [i \in 0..n |-> IF i = 0 THEN initial
                                  ELSE FollowOnce(z, h[i - 1], qt)]
  <2>1. ASSUME NEW i \in 0..n PROVE h[i] = b[i]
    <3>1. CASE i = 0
      BY <1>3, <3>1 DEF Runs
    <3>2. CASE i # 0
      <4>1. i \in 1..n /\ i - 1 \in 0..n
        BY <1>0, <3>2
      <4>2. h[i - 1] \in T /\ h[i] = f[h[i - 1]]
        BY <1>3, <4>1 DEF Runs
      <4> QED
        BY <3>2, <4>2
    <3> QED
      BY <3>1, <3>2
  <2>2. b = [i \in 0..n |-> b[i]] /\ h = [i \in 0..n |-> h[i]]
    OBVIOUS
  <2> HIDE DEF b
  <2>3. h = b
    BY <2>1, <2>2
  <2> QED
    BY <2>3 DEF b
<1> HIDE DEF P
<1>5. P(A)
  BY <1>4, Zenon
<1> USE DEF P
<1> HIDE DEF A
<1>6. \A i \in 0..n : A[i] = IF i = 0 THEN initial
                             ELSE FollowOnce(z, A[i - 1], qt)
  BY <1>5, Zenon
<1>7. A[0] = initial /\ \A i \in 1..n : A[i] = FollowOnce(z, A[i - 1], qt)
  BY <1>0, <1>6
<1>8. A \in [0..n -> T]
  <2> DEFINE Q == {m \in Nat : m <= n => A[m] \in T}
  <2>1. 0 \in Q
    BY <1>7
  <2>2. ASSUME NEW m \in Q PROVE m + 1 \in Q
    <3>1. SUFFICES ASSUME m + 1 <= n PROVE A[m + 1] \in T
      OBVIOUS
    <3>2. m \in Nat /\ m <= n /\ m + 1 \in 1..n /\ (m + 1) - 1 = m
      BY <1>0, <3>1
    <3>3. A[m + 1] = FollowOnce(z, A[m], qt) /\ A[m] \in T
      BY <1>7, <3>2
    <3> QED
      BY <3>3
  <2>3. Q \in SUBSET Nat /\ \A m \in Q : m + 1 \in Q
    BY <2>2
  <2>4. \A m \in Nat : m \in Q
    <3> HIDE DEF Q
    <3> QED
      BY <2>1, <2>3, NatSetInduction
  <2>5. \A i \in 0..n : A[i] \in T
    BY <1>0, <2>4
  <2>6. A = [i \in 0..n |-> A[i]]
    BY <1>5
  <2> QED
    BY <2>5, <2>6
<1> QED
  BY <1>1, <1>7, <1>8 DEF n
(* What a turn finds is an RRset of the zone, of the type asked for or     *)
(* CNAME.                                                                  *)
IsRRset(z, s, t) == \E k \in DOMAIN z.rrs : k[2] = t /\ s = z.rrs[k]

Finds(z, s, t) == s = <<>> \/ IsRRset(z, s, t) \/ IsRRset(z, s, "CNAME")

LEMMA RRsetFacts ==
  ASSUME NEW z, NEW o, GoodZone(z, o), NEW s, NEW t, IsRRset(z, s, t)
  PROVE  OfType(s, t) /\ s # <<>>
<1>1. PICK k \in DOMAIN z.rrs : k[2] = t /\ s = z.rrs[k]
  BY DEF IsRRset
<1> QED
  BY <1>1, GoodKey

LEMMA LookupIsRRset ==
  ASSUME NEW z, NEW o, GoodZone(z, o), NEW n, NEW t
  PROVE  /\ Lookup(z, n, t) # <<>> => IsRRset(z, Lookup(z, n, t), t)
         /\ LookupWildcard(z, n, t) # <<>> =>
              IsRRset(z, LookupWildcard(z, n, t), t)
<1>1. ASSUME NEW m, Lookup(z, m, t) # <<>>
      PROVE  IsRRset(z, Lookup(z, m, t), t)
  <2>1. /\ <<m, t>> \in DOMAIN z.rrs /\ <<m, t>>[2] = t
        /\ Lookup(z, m, t) = z.rrs[<<m, t>>]
    BY <1>1, LookupFacts
  <2> QED
    BY <2>1 DEF IsRRset
<1>2. ASSUME LookupWildcard(z, n, t) # <<>>
      PROVE  IsRRset(z, LookupWildcard(z, n, t), t)
  <2>1. PICK w : LookupWildcard(z, n, t) = Lookup(z, w, t)
    BY <1>2, WildcardFacts
  <2> QED
    BY <1>1, <1>2, <2>1
<1> QED
  BY <1>1, <1>2

LEMMA HopFinds ==
  ASSUME NEW z, NEW o, GoodZone(z, o), NEW n, NEW t
  PROVE  Finds(z, Hop(z, n, t), t)
<1> DEFINE a == Lookup(z, n, t)
           b == Lookup(z, n, "CNAME")
           c == LookupWildcard(z, n, t)
           d == LookupWildcard(z, n, "CNAME")
           s == <<a, b, c, d>>
<1>1. \A u : /\ Lookup(z, n, u) # <<>> => IsRRset(z, Lookup(z, n, u), u)
             /\ LookupWildcard(z, n, u) # <<>> =>
                  IsRRset(z, LookupWildcard(z, n, u), u)
  BY LookupIsRRset
<1>2. /\ a # <<>> => IsRRset(z, a, t)
      /\ b # <<>> => IsRRset(z, b, "CNAME")
      /\ c # <<>> => IsRRset(z, c, t)
      /\ d # <<>> => IsRRset(z, d, "CNAME")
  BY <1>1, Zenon
<1> HIDE DEF a, b, c, d
<1>3. Hop(z, n, t) = FirstNonEmpty(s)
  BY Zenon DEF Hop, a, b, c, d
<1> DEFINE at == {i \in DOMAIN s : s[i] # <<>>}
<1>4. FirstNonEmpty(s) = IF at # {} THEN s[Min(at)] ELSE <<>>
  <2>1. (\E i \in DOMAIN s : s[i] # <<>>) <=> at # {}
    OBVIOUS
  <2> QED
    BY <2>1, Zenon DEF FirstNonEmpty
<1>5. at \in SUBSET Nat /\ at \subseteq {1, 2, 3, 4}
  OBVIOUS
<1>6. s[1] = a /\ s[2] = b /\ s[3] = c /\ s[4] = d
  OBVIOUS
<1>7. at # {} => Min(at) \in at
  <2> HIDE DEF at
  <2> SUFFICES ASSUME at # {} PROVE Min(at) \in at
    OBVIOUS
  <2>1. PICK m \in at : \A y \in at : m <= y
    BY <1>5, LeastExists
  <2>2. at \in SUBSET Int
    BY <1>5
  <2>3. Min(at) = m
    BY <2>1, <2>2, MinIs
  <2> QED
    BY <2>3
<1>8. \A i \in at : s[i] # <<>>
  OBVIOUS
<1> HIDE DEF at, s
<1>9. CASE at = {}
  BY <1>3, <1>4, <1>9 DEF Finds
<1>10. CASE at # {}
  <2> DEFINE m == Min(at)
  <2>1. m \in {1, 2, 3, 4} /\ s[m] # <<>> /\ Hop(z, n, t) = s[m]
    BY <1>3, <1>4, <1>5, <1>7, <1>8, <1>10
  <2> HIDE DEF m
  <2>2. m = 1 \/ m = 2 \/ m = 3 \/ m = 4
    BY <2>1
  <2>3. CASE m = 1
    BY <1>2, <1>6, <2>1, <2>3, Zenon DEF Finds
  <2>4. CASE m = 2
    BY <1>2, <1>6, <2>1, <2>4, Zenon DEF Finds
  <2>5. CASE m = 3
    BY <1>2, <1>6, <2>1, <2>5, Zenon DEF Finds
  <2>6. CASE m = 4
    BY <1>2, <1>6, <2>1, <2>6, Zenon DEF Finds
  <2> QED
    BY <2>2, <2>3, <2>4, <2>5, <2>6
<1> QED
  BY <1>9, <1>10

(* What every full chain is: its first record is that of the name asked    *)
(* for, and the rest are stored records under the names they were found at.*)
FromZone(z, rr) ==
  \E k \in DOMAIN z.rrs : \E i \in DOMAIN z.rrs[k] :
    rr.type = z.rrs[k][i].type /\ rr.data = z.rrs[k][i].data

LEMMA NextHopFacts ==
  ASSUME NEW z, NEW o, GoodZone(z, o), NEW rr \in Record, NEW t
  PROVE  /\ NextHop(z, rr, t) \in Seq(Record)
         /\ NextHop(z, rr, t) # <<>> =>
              rr.type = "CNAME" /\ IsInZone(rr.data, o)
         /\ \A i \in DOMAIN NextHop(z, rr, t) :
              /\ NextHop(z, rr, t)[i].owner = rr.data
              /\ FromZone(z, NextHop(z, rr, t)[i])
<1>0. z.origin = o /\ rr.data \in Name
  BY DEF GoodZone, Record
<1>1. CASE ~(rr.type = "CNAME" /\ IsInZone(rr.data, o))
  <2>1. NextHop(z, rr, t) = <<>>
    BY <1>0, <1>1 DEF NextHop
  <2> QED
    BY <2>1
<1>2. CASE rr.type = "CNAME" /\ IsInZone(rr.data, o)
  <2> DEFINE h == Hop(z, rr.data, t)
             w == WithOwner(h, rr.data)
  <2>1. NextHop(z, rr, t) = w
    BY <1>0, <1>2 DEF NextHop
  <2>2. Finds(z, h, t)
    BY HopFinds
  <2> HIDE DEF h
  <2>3. CASE h = <<>>
    <3>1. w = <<>>
      BY <2>3 DEF WithOwner
    <3> QED
      BY <1>2, <2>1, <3>1
  <2>4. CASE h # <<>>
    <3>1. PICK k \in DOMAIN z.rrs : h = z.rrs[k]
      BY <2>2, <2>4 DEF Finds, IsRRset
    <3>2. OfType(z.rrs[k], k[2])
      BY GoodKey
    <3>3. h \in Seq(Record)
      BY <3>1, <3>2 DEF OfType
    <3>4. w \in Seq(Record) /\ DOMAIN w = DOMAIN h
      BY <1>0, <3>3, WithOwnerFacts
    <3>5. ASSUME NEW i \in DOMAIN w
          PROVE  w[i].owner = rr.data /\ FromZone(z, w[i])
      <4>1. h[i] \in Record /\ w[i] = [h[i] EXCEPT !.owner = rr.data]
        BY <3>3, <3>4, <3>5 DEF WithOwner
      <4>2. /\ w[i].owner = rr.data /\ w[i].type = h[i].type
            /\ w[i].data = h[i].data
        BY <4>1 DEF Record
      <4> QED
        BY <3>1, <3>4, <3>5, <4>2 DEF FromZone
    <3> HIDE DEF w
    <3> QED
      BY <1>2, <2>1, <3>4, <3>5
  <2> QED
    BY <2>3, <2>4
<1> QED
  BY <1>1, <1>2
(* The record i of a chain that starts at n is at n or at the target of a  *)
(* CNAME before it.                                                        *)
Linked(s, i, n, o) ==
  \/ s[i].owner = n
  \/ \E j \in 1..(i - 1) : /\ s[j].type = "CNAME" /\ s[j].data = s[i].owner
                           /\ IsInZone(s[j].data, o)

GoodAnswer(s, z, n, o) ==
  /\ s \in Seq(Record) /\ s # <<>>
  /\ s[1].owner = n /\ s[1].type = "CNAME"
  /\ \A i \in DOMAIN s : FromZone(z, s[i]) /\ Linked(s, i, n, o)

LEMMA FollowOnceGood ==
  ASSUME NEW z, NEW o, GoodZone(z, o), NEW n, NEW t, NEW s,
         GoodAnswer(s, z, n, o)
  PROVE  GoodAnswer(FollowOnce(z, s, t), z, n, o)
<1> DEFINE last == s[Len(s)]
           h == NextHop(z, last, t)
           r == s \o h
<1>0. FollowOnce(z, s, t) = r
  BY DEF FollowOnce
<1>1. /\ s \in Seq(Record) /\ s # <<>> /\ Len(s) \in Nat /\ Len(s) >= 1
      /\ DOMAIN s = 1..Len(s) /\ last \in Record
  BY DEF GoodAnswer
<1>2. h \in Seq(Record)
  BY <1>1, NextHopFacts
<1>3. ASSUME NEW i \in DOMAIN h
      PROVE  /\ h[i].owner = last.data /\ FromZone(z, h[i])
             /\ last.type = "CNAME" /\ IsInZone(last.data, o)
  BY <1>1, <1>3, NextHopFacts
<1> HIDE DEF h, last
<1>4. /\ r \in Seq(Record) /\ Len(h) \in Nat /\ DOMAIN h = 1..Len(h)
      /\ Len(r) = Len(s) + Len(h) /\ DOMAIN r = 1..Len(r) /\ r # <<>>
      /\ \A i \in 1..Len(s) : r[i] = s[i]
      /\ \A i \in 1..Len(r) : i > Len(s) => r[i] = h[i - Len(s)]
  BY <1>1, <1>2
<1> HIDE DEF r
<1>5. r[1].owner = n /\ r[1].type = "CNAME"
  BY <1>1, <1>4 DEF GoodAnswer
<1>6. ASSUME NEW i \in DOMAIN r
      PROVE  FromZone(z, r[i]) /\ Linked(r, i, n, o)
  <2>1. CASE i <= Len(s)
    <3>1. i \in DOMAIN s /\ r[i] = s[i] /\ \A j \in 1..(i - 1) : r[j] = s[j]
      BY <1>1, <1>4, <1>6, <2>1
    <3>2. FromZone(z, s[i]) /\ Linked(s, i, n, o)
      BY <3>1 DEF GoodAnswer
    <3> QED
      BY <3>1, <3>2 DEF Linked
  <2>2. CASE i > Len(s)
    <3>1. /\ i - Len(s) \in DOMAIN h /\ r[i] = h[i - Len(s)]
          /\ Len(s) \in 1..(i - 1) /\ r[Len(s)] = last
      BY <1>1, <1>4, <1>6, <2>2 DEF last
    <3>2. /\ r[i].owner = last.data /\ FromZone(z, r[i])
          /\ last.type = "CNAME" /\ IsInZone(last.data, o)
      BY <1>3, <3>1
    <3> QED
      BY <3>1, <3>2 DEF Linked
  <2> QED
    BY <1>1, <1>4, <1>6, <2>1, <2>2
<1> QED
  BY <1>0, <1>4, <1>5, <1>6 DEF GoodAnswer

LEMMA FollowGood ==
  ASSUME NEW z, NEW o, GoodZone(z, o), NEW n, NEW t, NEW s,
         GoodAnswer(s, z, n, o)
  PROVE  GoodAnswer(FollowCNAME(z, s, t), z, n, o)
<1> DEFINE T == {x \in Seq(Record) : GoodAnswer(x, z, n, o)}
           m == Turns(s)
<1>1. s \in T /\ Len(s) \in Nat
  BY DEF GoodAnswer
<1>2. \A x \in T : FollowOnce(z, x, t) \in T
  <2> SUFFICES ASSUME NEW x \in T PROVE FollowOnce(z, x, t) \in T
    OBVIOUS
  <2>1. GoodAnswer(FollowOnce(z, x, t), z, n, o)
    BY FollowOnceGood
  <2> QED
    BY <2>1 DEF GoodAnswer
<1> HIDE DEF T
<1>3. PICK A \in [0..m -> T] : FollowCNAME(z, s, t) = A[m]
  BY <1>1, <1>2, FollowRuns
<1>4. m \in 0..m
  BY <1>1, DepthAssumption DEF Turns
<1>5. FollowCNAME(z, s, t) \in T
  BY <1>3, <1>4
<1> QED
  BY <1>5 DEF T

LEMMA InitialGood ==
  ASSUME NEW z, NEW o, GoodZone(z, o), NEW n \in Name, NEW s, NEW t,
         IsRRset(z, s, t)
  PROVE  /\ \A i \in DOMAIN s : FromZone(z, s[i])
         /\ \A i \in DOMAIN s : FromZone(z, WithOwner(s, n)[i])
         /\ OfType(WithOwner(s, n), t) /\ OfOwner(WithOwner(s, n), n)
         /\ WithOwner(s, n) # <<>> /\ DOMAIN WithOwner(s, n) = DOMAIN s
         /\ t = "CNAME" => GoodAnswer(WithOwner(s, n), z, n, o)
<1> DEFINE w == WithOwner(s, n)
<1>1. PICK k \in DOMAIN z.rrs : k[2] = t /\ s = z.rrs[k]
  BY DEF IsRRset
<1>2. OfType(s, t) /\ s # <<>>
  BY RRsetFacts
<1>3. s \in Seq(Record) /\ \A i \in DOMAIN s : s[i] \in Record /\ s[i].type = t
  BY <1>2 DEF OfType
<1>4. w \in Seq(Record) /\ DOMAIN w = DOMAIN s /\ w # <<>>
  BY <1>2, <1>3, WithOwnerFacts
<1>5. \A i \in DOMAIN s : FromZone(z, s[i])
  BY <1>1 DEF FromZone
<1>6. ASSUME NEW i \in DOMAIN w
      PROVE  /\ w[i] \in Record /\ w[i].owner = n /\ w[i].type = t
             /\ FromZone(z, w[i])
  <2>1. /\ i \in DOMAIN s /\ s[i] \in Record /\ s[i].type = t
        /\ w[i] = [s[i] EXCEPT !.owner = n]
    BY <1>3, <1>4, <1>6 DEF WithOwner
  <2>2. /\ w[i].owner = n /\ w[i].type = s[i].type /\ w[i].data = s[i].data
        /\ w[i] \in Record
    BY <2>1 DEF Record
  <2> QED
    BY <1>1, <2>1, <2>2 DEF FromZone
<1> HIDE DEF w
<1>7. 1 \in DOMAIN w
  BY <1>4
<1>8. GoodAnswer(w, z, n, o) \/ t # "CNAME"
  BY <1>4, <1>6, <1>7 DEF GoodAnswer, Linked
<1>9. OfType(w, t) /\ OfOwner(w, n)
  BY <1>4, <1>6 DEF OfType, OfOwner
<1> QED
  BY <1>4, <1>5, <1>6, <1>8, <1>9 DEF w

(* CollapseCNAME.                                                          *)
LEMMA MinTTLFacts ==
  ASSUME NEW ttl \in Nat, NEW s \in Seq(Record)
  PROVE  /\ MinTTL(ttl, s) \in Nat
         /\ MinTTL(ttl, s) <= ttl
         /\ \A i \in DOMAIN s : MinTTL(ttl, s) <= s[i].ttl
         /\ MinTTL(ttl, s) = ttl
              \/ \E i \in DOMAIN s : MinTTL(ttl, s) = s[i].ttl
<1> DEFINE S == {ttl} \cup {s[i].ttl : i \in DOMAIN s}
<1>0. \A i \in DOMAIN s : s[i] \in Record
  OBVIOUS
<1>1. \A i \in DOMAIN s : s[i] \in Record /\ s[i].ttl \in Nat
  BY <1>0 DEF Record
<1>2. S \in SUBSET Nat /\ S # {} /\ S \in SUBSET Int
  BY <1>1
<1>3. /\ ttl \in S /\ \A i \in DOMAIN s : s[i].ttl \in S
      /\ \A y \in S : y = ttl \/ \E i \in DOMAIN s : y = s[i].ttl
  OBVIOUS
<1> HIDE DEF S
<1>4. PICK m \in S : \A y \in S : m <= y
  BY <1>2, LeastExists
<1>5. Min(S) = m
  BY <1>2, <1>4, MinIs
<1>6. MinTTL(ttl, s) = m
  BY <1>5, Zenon DEF MinTTL, S
<1> QED
  BY <1>2, <1>3, <1>4, <1>6

ChainState ==
  [outcome : {"chase", "records", "tail", "nodata"}, rrs : Seq(Record),
   target : Name, ttl : Nat, consumed : Nat]

CNAMETarget(z, d) ==
  \E k \in DOMAIN z.rrs :
    k[2] = "CNAME" /\ \E i \in DOMAIN z.rrs[k] : d = z.rrs[k][i].data

GoodChain(c, z, t) ==
  /\ c \in ChainState
  /\ c.outcome = "records" => t # "CNAME" /\ IsRRset(z, c.rrs, t)
  /\ c.outcome # "records" => c.rrs = <<>>
  /\ CNAMETarget(z, c.target)

Start(s) ==
  [outcome |-> "chase", rrs |-> <<>>, target |-> s[Len(s)].data,
   ttl |-> MinTTL(s[Len(s)].ttl, s), consumed |-> Len(s)]

LEMMA StartGood ==
  ASSUME NEW z, NEW o, GoodZone(z, o), NEW s, IsRRset(z, s, "CNAME"), NEW t
  PROVE  GoodChain(Start(s), z, t) /\ Start(s).consumed >= 1
<1> DEFINE l == s[Len(s)]
           m == MinTTL(l.ttl, s)
<1>1. PICK k \in DOMAIN z.rrs : k[2] = "CNAME" /\ s = z.rrs[k]
  BY DEF IsRRset
<1>2. OfType(s, "CNAME") /\ s # <<>>
  BY RRsetFacts
<1>3. s \in Seq(Record) /\ Len(s) \in Nat /\ Len(s) >= 1 /\ Len(s) \in DOMAIN s
  BY <1>2 DEF OfType
<1>4. l \in Record
  BY <1>3
<1>5. l.data \in Name /\ l.ttl \in Nat
  BY <1>4 DEF Record
<1>6. m \in Nat
  BY <1>3, <1>5, MinTTLFacts
<1>7. CNAMETarget(z, l.data)
  BY <1>1, <1>3 DEF CNAMETarget
<1>8. Start(s) = [outcome |-> "chase", rrs |-> <<>>, target |-> l.data,
                  ttl |-> m, consumed |-> Len(s)]
  BY DEF Start
<1> DEFINE d == l.data
<1> HIDE DEF m, d
<1>9. Start(s) \in ChainState
  BY <1>3, <1>5, <1>6, <1>8 DEF ChainState, d
<1> QED
  BY <1>3, <1>7, <1>8, <1>9 DEF GoodChain

LEMMA ConsumeGood ==
  ASSUME NEW z, NEW o, GoodZone(z, o), NEW t, NEW c, GoodChain(c, z, t),
         NEW x, Finds(z, x, t), NEW inZone \in BOOLEAN
  PROVE  /\ GoodChain(Consume(c, x, inZone), z, t)
         /\ Consume(c, x, inZone).outcome = "chase" =>
              /\ c.outcome = "chase" /\ c.consumed < MaxCNAMEDepth
              /\ Consume(c, x, inZone).consumed >= c.consumed + 1
<1> DEFINE r == Consume(c, x, inZone)
<1>0. c \in ChainState /\ MaxCNAMEDepth \in Nat /\ c.consumed \in Nat
      /\ c.ttl \in Nat
  BY DepthAssumption DEF GoodChain, ChainState
<1>1. CASE c.outcome # "chase"
  <2>1. r = c
    BY <1>1 DEF Consume
  <2> QED
    BY <1>1, <2>1
<1>2. CASE c.outcome = "chase" /\ ~inZone
  <2>1. r = [c EXCEPT !.outcome = "tail"]
    BY <1>2, Zenon DEF Consume
  <2>2. r \in ChainState /\ r.outcome = "tail" /\ r.rrs = c.rrs
        /\ r.target = c.target
    BY <1>0, <2>1 DEF ChainState
  <2> QED
    BY <1>2, <2>2 DEF GoodChain
<1>3. CASE c.outcome = "chase" /\ inZone /\ x = <<>>
  <2>1. r = [c EXCEPT !.outcome = "nodata"]
    BY <1>3, Zenon DEF Consume
  <2>2. r \in ChainState /\ r.outcome = "nodata" /\ r.rrs = c.rrs
        /\ r.target = c.target
    BY <1>0, <2>1 DEF ChainState
  <2> QED
    BY <1>3, <2>2 DEF GoodChain
<1>4. CASE c.outcome = "chase" /\ inZone /\ x # <<>> /\ x[1].type # "CNAME"
  <2> DEFINE m == MinTTL(c.ttl, x)
  <2>1. r = [c EXCEPT !.outcome = "records", !.rrs = x, !.ttl = m]
    BY <1>4, Zenon DEF Consume
  <2>2. ~IsRRset(z, x, "CNAME")
    <3>1. SUFFICES ASSUME IsRRset(z, x, "CNAME") PROVE FALSE
      OBVIOUS
    <3>2. OfType(x, "CNAME")
      BY <3>1, RRsetFacts
    <3>3. 1 \in DOMAIN x
      BY <1>4, <3>2 DEF OfType
    <3> QED
      BY <1>4, <3>2, <3>3 DEF OfType
  <2>3. IsRRset(z, x, t)
    BY <1>4, <2>2 DEF Finds
  <2>4. t # "CNAME"
    BY <2>2, <2>3
  <2>5. x \in Seq(Record)
    BY <2>3, RRsetFacts DEF OfType
  <2>6. m \in Nat
    BY <1>0, <2>5, MinTTLFacts
  <2> HIDE DEF m
  <2>7. r \in ChainState /\ r.outcome = "records" /\ r.rrs = x
        /\ r.target = c.target
    BY <1>0, <2>1, <2>5, <2>6 DEF ChainState
  <2> QED
    BY <2>3, <2>4, <2>7 DEF GoodChain
<1>5. CASE /\ c.outcome = "chase" /\ inZone /\ x # <<>>
           /\ x[1].type = "CNAME" /\ c.consumed >= MaxCNAMEDepth
  <2>1. r = [c EXCEPT !.outcome = "tail"]
    BY <1>5, Zenon DEF Consume
  <2>2. r \in ChainState /\ r.outcome = "tail" /\ r.rrs = c.rrs
        /\ r.target = c.target
    BY <1>0, <2>1 DEF ChainState
  <2> QED
    BY <1>5, <2>2 DEF GoodChain
<1>6. CASE /\ c.outcome = "chase" /\ inZone /\ x # <<>>
           /\ x[1].type = "CNAME" /\ ~(c.consumed >= MaxCNAMEDepth)
  <2> DEFINE m == MinTTL(c.ttl, x)
             d == x[Len(x)].data
  <2>1. r = [c EXCEPT !.target = d, !.consumed = c.consumed + Len(x),
                      !.ttl = m]
    BY <1>6, Zenon DEF Consume
  <2>2. IsRRset(z, x, "CNAME")
    <3>1. SUFFICES ASSUME IsRRset(z, x, t) PROVE IsRRset(z, x, "CNAME")
      BY <1>6 DEF Finds
    <3>2. OfType(x, t)
      BY <3>1, RRsetFacts
    <3>3. 1 \in DOMAIN x
      BY <1>6, <3>2 DEF OfType
    <3>4. t = "CNAME"
      BY <1>6, <3>2, <3>3 DEF OfType
    <3> QED
      BY <3>1, <3>4
  <2>3. x \in Seq(Record)
    BY <2>2, RRsetFacts DEF OfType
  <2>4. Len(x) \in Nat /\ Len(x) >= 1 /\ Len(x) \in DOMAIN x
    BY <1>6, <2>3
  <2>5. m \in Nat
    BY <1>0, <2>3, MinTTLFacts
  <2>6. x[Len(x)] \in Record
    BY <2>3, <2>4
  <2>7. d \in Name
    BY <2>6 DEF Record
  <2>8. CNAMETarget(z, d)
    BY <2>2, <2>4 DEF IsRRset, CNAMETarget
  <2> HIDE DEF m, d
  <2>9. c.consumed + Len(x) \in Nat
    BY <1>0, <2>4
  <2>10. /\ r \in ChainState /\ r.outcome = c.outcome /\ r.rrs = c.rrs
         /\ r.target = d /\ r.consumed = c.consumed + Len(x)
    BY <1>0, <2>1, <2>5, <2>7, <2>9 DEF ChainState
  <2> HIDE DEF r
  <2>11. GoodChain(r, z, t)
    BY <1>6, <2>8, <2>10 DEF GoodChain
  <2>12. r.consumed >= c.consumed + 1 /\ c.consumed < MaxCNAMEDepth
    BY <1>0, <1>6, <2>4, <2>10
  <2> QED
    BY <1>6, <2>11, <2>12 DEF r
<1> QED
  BY <1>1, <1>2, <1>3, <1>4, <1>5, <1>6
(* CollapseCNAME, through the states after each of its turns; the last one *)
(* is no longer chasing.                                                   *)
LEMMA CollapseRuns ==
  ASSUME NEW z, NEW o, GoodZone(z, o), NEW t, NEW s, IsRRset(z, s, "CNAME")
  PROVE  \E C : /\ CollapseCNAME(z, s, t) = C[MaxCNAMEDepth]
                /\ C[0] = Start(s)
                /\ \A i \in 1..MaxCNAMEDepth :
                     C[i] = CollapseOnce(z, C[i - 1], t)
                /\ \A i \in 0..MaxCNAMEDepth : GoodChain(C[i], z, t)
                /\ C[MaxCNAMEDepth].outcome # "chase"
<1> DEFINE n == MaxCNAMEDepth
           T == {c \in ChainState : GoodChain(c, z, t)}
           f == [c \in T |-> CollapseOnce(z, c, t)]
           P(g) == g = [i \in 0..n |-> IF i = 0 THEN Start(s)
                                       ELSE CollapseOnce(z, g[i - 1], t)]
           C == CHOOSE g : P(g)
<1>0. n \in Nat /\ n >= 1
  BY DepthAssumption
<1>1. CollapseCNAME(z, s, t) = C[n]
  BY Zenon DEF CollapseCNAME, Start
<1>2. ASSUME NEW c, GoodChain(c, z, t)
      PROVE  /\ GoodChain(CollapseOnce(z, c, t), z, t)
             /\ CollapseOnce(z, c, t).outcome = "chase" =>
                  /\ c.outcome = "chase" /\ c.consumed < n
                  /\ CollapseOnce(z, c, t).consumed >= c.consumed + 1
  <2> DEFINE x == Hop(z, c.target, t)
             b == IsInZone(c.target, z.origin)
  <2>1. Finds(z, x, t)
    BY HopFinds
  <2>2. b \in BOOLEAN
    BY DEF IsInZone
  <2>3. CollapseOnce(z, c, t) = Consume(c, x, b)
    BY Zenon DEF CollapseOnce
  <2> HIDE DEF x, b
  <2> QED
    BY <1>2, <2>1, <2>2, <2>3, ConsumeGood
<1>3. GoodChain(Start(s), z, t) /\ Start(s).consumed >= 1
  BY StartGood
<1>4. Start(s) \in T /\ \A c \in T : CollapseOnce(z, c, t) \in T
  BY <1>2, <1>3 DEF GoodChain
<1>5. f \in [T -> T]
  BY <1>4
<1> HIDE DEF n, T
<1>6. PICK h \in [0..n -> T] : Runs(f, Start(s), n, h)
  BY <1>0, <1>4, <1>5, RunsExists
<1>7. P(h)
  <2> DEFINE b == [i \in 0..n |-> IF i = 0 THEN Start(s)
                                  ELSE CollapseOnce(z, h[i - 1], t)]
  <2>1. ASSUME NEW i \in 0..n PROVE h[i] = b[i]
    <3>1. CASE i = 0
      BY <1>6, <3>1 DEF Runs
    <3>2. CASE i # 0
      <4>1. i \in 1..n /\ i - 1 \in 0..n
        BY <1>0, <3>2
      <4>2. h[i - 1] \in T /\ h[i] = f[h[i - 1]]
        BY <1>6, <4>1 DEF Runs
      <4> QED
        BY <3>2, <4>2
    <3> QED
      BY <3>1, <3>2
  <2>2. b = [i \in 0..n |-> b[i]] /\ h = [i \in 0..n |-> h[i]]
    OBVIOUS
  <2> HIDE DEF b
  <2>3. h = b
    BY <2>1, <2>2
  <2> QED
    BY <2>3 DEF b
<1> HIDE DEF P
<1>8. P(C)
  BY <1>7, Zenon
<1> USE DEF P
<1> HIDE DEF C
<1>9. \A i \in 0..n : C[i] = IF i = 0 THEN Start(s)
                             ELSE CollapseOnce(z, C[i - 1], t)
  BY <1>8, Zenon
<1>10. C[0] = Start(s) /\ \A i \in 1..n : C[i] = CollapseOnce(z, C[i - 1], t)
  BY <1>0, <1>9
(* After i turns that did not end the chase, i more CNAMEs are consumed.   *)
<1> DEFINE J(i) == /\ GoodChain(C[i], z, t)
                   /\ C[i].outcome = "chase" =>
                        C[i].consumed >= i + 1 /\ (i >= 1 => i < n)
           Q == {m \in Nat : m <= n => J(m)}
<1>11. \A m \in Nat : m \in Q
  <2>1. 0 \in Q
    BY <1>3, <1>10
  <2>2. ASSUME NEW m \in Q PROVE m + 1 \in Q
    <3>1. SUFFICES ASSUME m + 1 <= n PROVE J(m + 1)
      OBVIOUS
    <3>2. m \in Nat /\ m <= n /\ m + 1 \in 1..n /\ (m + 1) - 1 = m
      BY <1>0, <3>1
    <3>3. C[m + 1] = CollapseOnce(z, C[m], t)
      BY <1>10, <3>2
    <3>4. J(m)
      BY <3>2
    <3>5. /\ GoodChain(C[m + 1], z, t)
          /\ C[m + 1].outcome = "chase" =>
               /\ C[m].outcome = "chase" /\ C[m].consumed < n
               /\ C[m + 1].consumed >= C[m].consumed + 1
      BY <1>2, <3>3, <3>4
    <3>6. C[m].consumed \in Nat /\ C[m + 1].consumed \in Nat
      BY <3>4, <3>5 DEF GoodChain, ChainState
    <3> QED
      BY <1>0, <3>2, <3>4, <3>5, <3>6
  <2>3. Q \in SUBSET Nat /\ \A m \in Q : m + 1 \in Q
    BY <2>2
  <2> HIDE DEF Q
  <2> QED
    BY <2>1, <2>3, NatSetInduction
<1>12. \A i \in 0..n : J(i)
  BY <1>0, <1>11
<1>13. C[n].outcome # "chase"
  BY <1>0, <1>12
<1> QED
  BY <1>1, <1>10, <1>12, <1>13 DEF n

LEMMA CollapseGood ==
  ASSUME NEW z, NEW o, GoodZone(z, o), NEW t, NEW s, IsRRset(z, s, "CNAME")
  PROVE  /\ GoodChain(CollapseCNAME(z, s, t), z, t)
         /\ CollapseCNAME(z, s, t).outcome # "chase"
<1>1. PICK C : /\ CollapseCNAME(z, s, t) = C[MaxCNAMEDepth]
               /\ \A i \in 0..MaxCNAMEDepth : GoodChain(C[i], z, t)
               /\ C[MaxCNAMEDepth].outcome # "chase"
  BY CollapseRuns
<1>2. MaxCNAMEDepth \in 0..MaxCNAMEDepth
  BY DepthAssumption
<1> QED
  BY <1>1, <1>2
----------------------------------------------------------------------------
(* A collapsed chain, as the root and as the backup emit it.               *)
Collapsed(rrs, withheld) == Stage(rrs, rrs = <<>>, withheld)

LEMMA CollapsedFacts ==
  ASSUME NEW rrs, NEW withheld
  PROVE  /\ Collapsed(rrs, withheld).rrs = rrs
         /\ Collapsed(rrs, withheld) # Miss
<1>1. Collapsed(rrs, withheld).rrs = rrs
  BY Zenon DEF Stage, Collapsed
<1>2. Collapsed(rrs, withheld).nodata = (rrs = <<>>)
  BY Zenon DEF Stage, Collapsed
<1>3. Miss.rrs = <<>> /\ Miss.nodata = FALSE
  BY Zenon DEF Stage, Miss
<1> QED
  BY <1>1, <1>2, <1>3, Zenon

Stamp(s, n, ttl) ==
  [i \in DOMAIN s |-> [s[i] EXCEPT !.owner = n, !.ttl = ttl]]

TailRR(n, c) ==
  [owner |-> n, type |-> "CNAME", data |-> c.target, ttl |-> c.ttl]

LEMMA CollapsedRRsIs ==
  ASSUME NEW c, NEW n
  PROVE  /\ c.outcome = "records" =>
              CollapsedRRs(c, n) = Stamp(c.rrs, n, c.ttl)
         /\ c.outcome = "tail" => CollapsedRRs(c, n) = <<TailRR(n, c)>>
         /\ c.outcome = "nodata" => CollapsedRRs(c, n) = <<>>
<1>1. c.outcome = "records" => CollapsedRRs(c, n) = Stamp(c.rrs, n, c.ttl)
  BY DEF CollapsedRRs, Stamp
<1>2. c.outcome = "tail" => CollapsedRRs(c, n) = <<TailRR(n, c)>>
  BY DEF CollapsedRRs, TailRR
<1>3. c.outcome = "nodata" => CollapsedRRs(c, n) = <<>>
  BY DEF CollapsedRRs
<1> QED
  BY <1>1, <1>2, <1>3

LEMMA StampFacts ==
  ASSUME NEW s, NEW t, OfType(s, t), NEW n \in Name, NEW ttl \in Nat
  PROVE  /\ OfType(Stamp(s, n, ttl), t) /\ OfOwner(Stamp(s, n, ttl), n)
         /\ DOMAIN Stamp(s, n, ttl) = DOMAIN s
         /\ s # <<>> <=> Stamp(s, n, ttl) # <<>>
         /\ \A i \in DOMAIN s :
              Stamp(s, n, ttl)[i] = [owner |-> n, type |-> t,
                                     data |-> s[i].data, ttl |-> ttl]
<1> DEFINE w == Stamp(s, n, ttl)
<1>1. /\ s \in Seq(Record) /\ Len(s) \in Nat /\ DOMAIN s = 1..Len(s)
      /\ \A i \in DOMAIN s : s[i] \in Record /\ s[i].type = t
  BY DEF OfType
<1>2. w = [i \in 1..Len(s) |-> [s[i] EXCEPT !.owner = n, !.ttl = ttl]]
  BY <1>1 DEF Stamp
<1>3. ASSUME NEW i \in 1..Len(s)
      PROVE  /\ w[i] = [owner |-> n, type |-> t, data |-> s[i].data,
                        ttl |-> ttl]
             /\ w[i] \in Record /\ w[i].owner = n /\ w[i].type = t
  <2>1. s[i] \in Record /\ s[i].type = t
    BY <1>1
  <2>2. w[i] = [s[i] EXCEPT !.owner = n, !.ttl = ttl]
    BY <1>2
  <2> HIDE DEF w
  <2> QED
    BY <2>1, <2>2 DEF Record
<1> HIDE DEF w
<1>4. w \in [1..Len(s) -> Record]
  BY <1>2, <1>3
<1>5. w \in Seq(Record) /\ DOMAIN w = 1..Len(s) /\ Len(w) = Len(s)
  BY <1>1, <1>4
<1>6. OfType(w, t) /\ OfOwner(w, n)
  BY <1>3, <1>5 DEF OfType, OfOwner
<1>7. s # <<>> <=> w # <<>>
  BY <1>1, <1>5
<1> QED
  BY <1>1, <1>3, <1>5, <1>6, <1>7 DEF w

(* Rewriting the owner and the data at once is rewriting the data of the   *)
(* record that already has the backup's name.                              *)
LEMMA RewriteInPlace ==
  ASSUME NEW n \in Name, IsInZone(n, BackupOrigin), NEW t, NEW d \in Name,
         NEW ttl \in Nat, NEW lb \in BOOLEAN, t \in STRING
  PROVE  rewriteRDATANames([owner |-> n, type |-> t, data |-> d,
                            ttl |-> ttl], RootOrigin, BackupOrigin, lb)
           = RewriteRR([owner |-> AtRoot(n), type |-> t, data |-> d,
                        ttl |-> ttl], RootOrigin, BackupOrigin, lb)
<1> DEFINE x == [owner |-> AtRoot(n), type |-> t, data |-> d, ttl |-> ttl]
           y == [owner |-> n, type |-> t, data |-> d, ttl |-> ttl]
<1>1. /\ AtRoot(n) \in Name
      /\ RewriteName(AtRoot(n), RootOrigin, BackupOrigin) = n
      /\ RootOrigin \in Name /\ BackupOrigin \in Name
  BY AtRootFacts, OriginsAssumption
<1>2. /\ x \in Record /\ y \in Record
      /\ x.owner = AtRoot(n) /\ y.owner = n /\ x.type = t /\ y.type = t
      /\ x.data = d /\ y.data = d /\ x.ttl = ttl /\ y.ttl = ttl
  BY <1>1 DEF Record
<1> HIDE DEF x, y
<1>3. NewData(x, RootOrigin, BackupOrigin, lb)
        = NewData(y, RootOrigin, BackupOrigin, lb)
  BY <1>2 DEF NewData
<1>4. rewriteRDATANames(y, RootOrigin, BackupOrigin, lb)
        = [owner |-> n, type |-> t,
           data |-> NewData(y, RootOrigin, BackupOrigin, lb), ttl |-> ttl]
  BY <1>1, <1>2, RDATAFacts
<1>5. RewriteRR(x, RootOrigin, BackupOrigin, lb)
        = [owner |-> n, type |-> t,
           data |-> NewData(x, RootOrigin, BackupOrigin, lb), ttl |-> ttl]
  <2>1. RewriteRR(x, RootOrigin, BackupOrigin, lb)
          = [owner |-> RewriteName(x.owner, RootOrigin, BackupOrigin),
             type |-> x.type,
             data |-> NewData(x, RootOrigin, BackupOrigin, lb),
             ttl |-> x.ttl]
    <3>1. x \in Record /\ RootOrigin \in Name /\ BackupOrigin \in Name
      BY <1>1, <1>2
    <3> QED
      BY <3>1, RewriteRRFacts, Zenon
  <2> QED
    BY <1>1, <1>2, <2>1
<1> QED
  BY <1>3, <1>4, <1>5 DEF x, y
----------------------------------------------------------------------------
(* The backup's answer as a copy of the root's.                            *)
Rw(rrs) == RewriteRRs(Kept(rrs), RootOrigin, BackupOrigin, labels)

Mirrors(b, r) == (b # Miss <=> r # Miss) /\ b.rrs = Rw(r.rrs)

(* The records of a stage start at the name asked for.                     *)
StartsAt(r, n, t) ==
  r.rrs # <<>> => /\ r.rrs \in Seq(Record)
                  /\ r.rrs[1].owner = n
                  /\ r.rrs[1].type = t \/ r.rrs[1].type = "CNAME"

LEMMA RwEmpty == GoodState => Rw(<<>>) = <<>>
<1> SUFFICES ASSUME GoodState PROVE Rw(<<>>) = <<>>
  OBVIOUS
<1>1. Kept(<<>>) = <<>>
  BY EmptyEmitted
<1> QED
  BY <1>1 DEF Rw, RewriteRRs

LEMMA MissMirrors ==
  ASSUME GoodState, NEW n, NEW t
  PROVE  Mirrors(Miss, Miss) /\ StartsAt(Miss, n, t)
<1>1. Miss.rrs = <<>>
  BY FoundFacts
<1> QED
  BY <1>1, RwEmpty DEF Mirrors, StartsAt

LEMMA CNAMEIsString ==
  ASSUME NEW z, NEW o, GoodZone(z, o), NEW s, NEW t, IsRRset(z, s, t)
  PROVE  t \in STRING
<1>1. PICK k \in DOMAIN z.rrs : k[2] = t
  BY DEF IsRRset
<1>2. GoodRRset(k, z.rrs[k], o)
  BY DEF GoodZone
<1> QED
  BY <1>1, <1>2 DEF GoodRRset

LEMMA CollapsePair ==
  ASSUME GoodState, NEW n \in Name, IsInZone(n, BackupOrigin), NEW t, NEW s,
         IsRRset(root, s, "CNAME")
  PROVE  LET b == collapseBackupResult(CollapseCNAME(root, s, t), n, root,
                                       BackupOrigin, labels)
             r == collapseRootCNAME(AtRoot(n), t, s)
         IN Mirrors(b, r) /\ StartsAt(r, AtRoot(n), t)
<1> DEFINE at == AtRoot(n)
           c  == CollapseCNAME(root, s, t)
           kc == [c EXCEPT !.rrs = Kept(@)]
           R  == CollapsedRRs(c, at)
           K  == CollapsedRRs(kc, n)
           M  == [i \in DOMAIN K |->
                    rewriteRDATANames(K[i], RootOrigin, BackupOrigin, labels)]
           b  == collapseBackupResult(c, n, root, BackupOrigin, labels)
           r  == collapseRootCNAME(at, t, s)
<1>0. /\ GoodZone(root, RootOrigin) /\ root.origin = RootOrigin
      /\ RootOrigin \in Name /\ BackupOrigin \in Name
  BY OriginsAssumption DEF GoodState, GoodZone
<1>1. labels \in BOOLEAN
  BY DEF GoodState
<1>2. GoodChain(c, root, t) /\ c.outcome # "chase"
  BY <1>0, CollapseGood
<1>3. at \in Name /\ RewriteName(at, RootOrigin, BackupOrigin) = n
  BY AtRootFacts
<1>4. r = Collapsed(R, {})
  BY Zenon DEF collapseRootCNAME, Collapsed
<1>5. b = Stage(M, K = <<>>, Withheld(c.rrs))
  BY <1>0, Zenon DEF collapseBackupResult
<1> HIDE DEF c, at
<1>6. /\ c \in ChainState /\ c.ttl \in Nat /\ c.target \in Name
      /\ c.outcome \in {"records", "tail", "nodata"}
  BY <1>2 DEF GoodChain, ChainState
<1>7. /\ kc.outcome = c.outcome /\ kc.target = c.target /\ kc.ttl = c.ttl
      /\ kc.rrs = Kept(c.rrs)
  BY <1>6 DEF ChainState
<1> HIDE DEF kc
<1>8. /\ M = Rw(R) /\ (M = <<>> <=> K = <<>>)
      /\ R # <<>> => /\ R \in Seq(Record) /\ R[1].owner = at
                     /\ R[1].type = t \/ R[1].type = "CNAME"
  <2>1. CASE c.outcome = "nodata"
    <3>1. R = <<>> /\ K = <<>>
      BY <2>1, <1>7, CollapsedRRsIs
    <3>2. M = <<>>
      BY <3>1
    <3> QED
      BY <3>1, <3>2, RwEmpty
  <2>2. CASE c.outcome = "tail"
    <3> DEFINE x == TailRR(at, c)
               y == TailRR(n, kc)
    <3>1. R = <<x>> /\ K = <<y>>
      BY <2>2, <1>7, CollapsedRRsIs
    <3>2. "CNAME" \in STRING
      BY <1>0, CNAMEIsString
    <3>3. /\ y = [owner |-> n, type |-> "CNAME", data |-> c.target,
                  ttl |-> c.ttl]
          /\ x = [owner |-> at, type |-> "CNAME", data |-> c.target,
                  ttl |-> c.ttl]
      BY <1>7 DEF TailRR
    <3>4. rewriteRDATANames(y, RootOrigin, BackupOrigin, labels)
            = RewriteRR(x, RootOrigin, BackupOrigin, labels)
      BY <1>1, <1>6, <3>2, <3>3, RewriteInPlace DEF at
    <3>5. x \in Record /\ x.owner = at /\ x.type = "CNAME"
      BY <1>3, <1>6, <3>2, <3>3 DEF Record
    <3> HIDE DEF x, y
    <3>6. OfType(<<x>>, "CNAME") /\ <<x>> \in Seq(Record)
      BY <3>5 DEF OfType
    <3>7. Kept(<<x>>) = <<x>>
      <4>1. "CNAME" \notin Uncovered
        BY DEF Uncovered
      <4> QED
        BY <3>6, <4>1, UniformKept
    <3>8. RewriteRRs(<<x>>, RootOrigin, BackupOrigin, labels)
            = <<RewriteRR(x, RootOrigin, BackupOrigin, labels)>>
      BY DEF RewriteRRs
    <3>9. M = <<rewriteRDATANames(y, RootOrigin, BackupOrigin, labels)>>
      BY <3>1
    <3> QED
      BY <3>1, <3>4, <3>5, <3>6, <3>7, <3>8, <3>9 DEF Rw
  <2>3. CASE c.outcome = "records"
    <3> DEFINE q == c.rrs
    <3>1. IsRRset(root, q, t)
      BY <1>2, <2>3 DEF GoodChain
    <3>2. OfType(q, t) /\ q # <<>> /\ t \in STRING
      BY <1>0, <3>1, RRsetFacts, CNAMEIsString
    <3>3. R = Stamp(q, at, c.ttl) /\ K = Stamp(Kept(q), n, c.ttl)
      BY <2>3, <1>7, CollapsedRRsIs
    <3>4. /\ OfType(R, t) /\ OfOwner(R, at) /\ R # <<>>
          /\ DOMAIN R = DOMAIN q
      BY <1>3, <1>6, <3>2, <3>3, StampFacts
    <3>5. R \in Seq(Record) /\ R[1].owner = at /\ R[1].type = t
      <4>1. R \in Seq(Record)
        BY <3>4 DEF OfType
      <4>2. 1 \in DOMAIN R
        BY <3>4, <4>1
      <4> QED
        BY <3>4, <4>1, <4>2 DEF OfType, OfOwner
    <3>6. CASE t \in Uncovered
      <4>1. Kept(q) = <<>> /\ Kept(R) = <<>>
        BY <3>2, <3>4, <3>6, UniformKept
      <4>2. K = <<>>
        <5>1. OfType(Kept(q), t)
          BY <3>2, UniformKept
        <5> QED
          BY <1>6, <3>3, <4>1, <5>1, StampFacts
      <4>3. M = <<>>
        BY <4>2
      <4>4. Rw(R) = <<>>
        BY <4>1 DEF Rw, RewriteRRs
      <4> QED
        BY <3>5, <4>2, <4>3, <4>4
    <3>7. CASE t \notin Uncovered
      <4>1. Kept(q) = q /\ Kept(R) = R
        BY <3>2, <3>4, <3>7, UniformKept
      <4>2. K = Stamp(q, n, c.ttl)
        BY <3>3, <4>1
      <4>3. /\ OfType(K, t) /\ K # <<>> /\ DOMAIN K = DOMAIN q
        BY <1>6, <3>2, <4>2, StampFacts
      <4>4. ASSUME NEW i \in DOMAIN q
            PROVE  M[i] = RewriteRR(R[i], RootOrigin, BackupOrigin, labels)
        <5>1. q[i] \in Record
          BY <3>2, <4>4 DEF OfType
        <5>2. q[i].data \in Name
          BY <5>1 DEF Record
        <5>3. K[i] = [owner |-> n, type |-> t, data |-> q[i].data,
                      ttl |-> c.ttl]
          BY <1>6, <3>2, <4>2, <4>4, StampFacts
        <5>4. R[i] = [owner |-> at, type |-> t, data |-> q[i].data,
                      ttl |-> c.ttl]
          BY <1>3, <1>6, <3>2, <3>3, <4>4, StampFacts
        <5>5. M[i] = rewriteRDATANames(K[i], RootOrigin, BackupOrigin, labels)
          BY <4>3, <4>4
        <5> QED
          BY <1>1, <1>6, <3>2, <5>2, <5>3, <5>4, <5>5, RewriteInPlace DEF at
      <4> HIDE DEF q, R, K
      <4>5. M = [i \in DOMAIN q |-> M[i]]
        BY <4>3
      <4>6. Rw(R) = [i \in DOMAIN q |->
                       RewriteRR(R[i], RootOrigin, BackupOrigin, labels)]
        BY <3>4, <4>1, Zenon DEF Rw, RewriteRRs
      <4>7. M = Rw(R)
        <5> HIDE DEF M
        <5> QED
          BY <4>4, <4>5, <4>6
      <4>8. q \in Seq(Record) /\ q # <<>>
        BY <3>2 DEF OfType
      <4>9. M # <<>>
        <5>1. 1 \in DOMAIN q
          BY <4>8
        <5>2. 1 \in DOMAIN M
          BY <4>3, <5>1
        <5> HIDE DEF M
        <5> QED
          BY <5>2
      <4> QED
        BY <3>5, <4>3, <4>7, <4>9
    <3> QED
      BY <3>6, <3>7
  <2> QED
    BY <1>6, <2>1, <2>2, <2>3
<1> HIDE DEF M, K, R
<1>9. b = Collapsed(M, Withheld(c.rrs))
  BY <1>5, <1>8, Zenon DEF Collapsed
<1>10. b.rrs = M /\ b # Miss /\ r.rrs = R /\ r # Miss
  BY <1>4, <1>9, CollapsedFacts, Zenon
<1> HIDE DEF b, r
<1>11. Mirrors(b, r) /\ StartsAt(r, at, t)
  BY <1>8, <1>10 DEF Mirrors, StartsAt
<1> QED
  BY <1>11, Zenon DEF b, r, c, at

LEMMA KeptOfChain ==
  ASSUME NEW s \in Seq(Record), s # <<>>, s[1].type = "CNAME"
  PROVE  Kept(s) \in Seq(Record) /\ Kept(s) # <<>>
<1>1. PICK pos : Selected(s, Len(s), Kept(s), pos)
  BY KeptSelects
<1>2. 1 \in 1..Len(s) /\ "CNAME" \notin Uncovered
  BY DEF Uncovered
<1> DEFINE k == Kept(s)
<1> HIDE DEF k
<1>3. k \in Seq(Record) /\ \E a \in 1..Len(k) : pos[a] = 1
  BY <1>1, <1>2 DEF Selected, k
<1>4. k # <<>>
  BY <1>3
<1> QED
  BY <1>3, <1>4 DEF k

LEMMA FollowPair ==
  ASSUME GoodState, NEW n, NEW t, NEW F,
         GoodAnswer(F, root, n, RootOrigin), NEW w
  PROVE  /\ Mirrors(Found(Rw(F), w), Found(F, {}))
         /\ StartsAt(Found(F, {}), n, t)
<1>0. labels \in BOOLEAN /\ RootOrigin \in Name /\ BackupOrigin \in Name
  BY OriginsAssumption DEF GoodState
<1>1. /\ F \in Seq(Record) /\ F # <<>> /\ F[1].owner = n
      /\ F[1].type = "CNAME"
  BY DEF GoodAnswer
<1>2. Kept(F) \in Seq(Record) /\ Kept(F) # <<>>
  BY <1>1, KeptOfChain
<1>3. Rw(F) # <<>>
  BY <1>0, <1>2, RewriteRRsFacts DEF Rw
<1>4. /\ Found(Rw(F), w).rrs = Rw(F) /\ Found(Rw(F), w) # Miss
      /\ Found(F, {}).rrs = F /\ Found(F, {}) # Miss
  BY <1>1, <1>3, FoundFacts
<1> QED
  BY <1>1, <1>4 DEF Mirrors, StartsAt

(* An RRset, all of whose records are withheld or none.                    *)
LEMMA UniformPair ==
  ASSUME GoodState, NEW n, NEW t, NEW S, OfType(S, t), OfOwner(S, n),
         S # <<>>, NEW b, b # Miss,
         t \notin Uncovered =>
           b.rrs = RewriteRRs(S, RootOrigin, BackupOrigin, labels),
         t \in Uncovered => b.rrs = <<>>
  PROVE  Mirrors(b, Found(S, {})) /\ StartsAt(Found(S, {}), n, t)
<1>1. S \in Seq(Record)
  BY DEF OfType
<1>2. 1 \in DOMAIN S
  BY <1>1
<1>3. S[1].owner = n /\ S[1].type = t
  BY <1>2 DEF OfType, OfOwner
<1>4. Found(S, {}).rrs = S /\ Found(S, {}) # Miss
  BY FoundFacts
<1>5. t \notin Uncovered => Kept(S) = S
  BY UniformKept
<1>6. t \in Uncovered => Kept(S) = <<>>
  BY UniformKept
<1>7. RewriteRRs(<<>>, RootOrigin, BackupOrigin, labels) = <<>>
  BY DEF RewriteRRs
<1>8. b.rrs = Rw(S)
  BY <1>5, <1>6, <1>7, Zenon DEF Rw
<1> QED
  BY <1>1, <1>3, <1>4, <1>8 DEF Mirrors, StartsAt

LEMMA ExactPair ==
  ASSUME GoodState, NEW n \in Name, IsInZone(n, BackupOrigin), NEW t,
         NEW cf \in BOOLEAN, ~Overridden(n, t)
  PROVE  LET b == BackupExact(n, t, cf)
             r == RootExact(AtRoot(n), t, cf)
         IN Mirrors(b, r) /\ StartsAt(r, AtRoot(n), t)
<1> DEFINE at == AtRoot(n)
           L  == Lookup(root, at, t)
           b  == BackupExact(n, t, cf)
           r  == RootExact(at, t, cf)
           e  == Emitted(L, root, BackupOrigin, labels)
<1>0. GoodZone(root, RootOrigin) /\ root.origin = RootOrigin
  BY DEF GoodState, GoodZone
<1>1. OfType(L, t) /\ OfOwner(L, at) /\ (L # <<>> => IsRRset(root, L, t))
  BY <1>0, LookupFacts, LookupIsRRset
<1>2. CASE t # "CNAME" \/ ~cf
  <2>1. b = e /\ r = Found(L, {})
    BY <1>2, BackupExactIs, RootExactIs, Zenon
  <2> HIDE DEF b, r, L
  <2>2. CASE L = <<>>
    <3>1. e = Miss
      BY <1>0, <1>1, <2>2, UniformEmitted
    <3>2. Found(L, {}) = Miss
      BY <2>2, FoundFacts
    <3> QED
      BY <2>1, <3>1, <3>2, MissMirrors DEF b, r
  <2>3. CASE L # <<>>
    <3> DEFINE w == RewriteRRs(L, RootOrigin, BackupOrigin, labels)
    <3>1. t \notin Uncovered => e = Found(w, {})
      BY <1>0, <1>1, UniformEmitted
    <3>2. t \in Uncovered => e # Miss /\ e.rrs = <<>>
      BY <1>0, <1>1, <2>3, UniformEmitted
    <3>3. w # <<>>
      <4>1. /\ labels \in BOOLEAN /\ L \in Seq(Record)
            /\ RootOrigin \in Name /\ BackupOrigin \in Name
        BY <1>1, OriginsAssumption DEF GoodState, OfType
      <4> QED
        BY <2>3, <4>1, RewriteRRsFacts
    <3> HIDE DEF w, e
    <3>4. Found(w, {}) # Miss /\ Found(w, {}).rrs = w
      BY <3>3, FoundFacts
    <3>5. e # Miss /\ (t \notin Uncovered => e.rrs = w)
      BY <3>1, <3>2, <3>4
    <3>6. Mirrors(e, Found(L, {})) /\ StartsAt(Found(L, {}), at, t)
      BY <1>1, <2>3, <3>2, <3>5, UniformPair DEF w
    <3> QED
      BY <2>1, <3>6, Zenon DEF b, r
  <2> QED
    BY <2>2, <2>3
<1>3. CASE t = "CNAME" /\ cf
  <2>1. b = collapseChainAt(n, t, BackupOrigin, root, labels)
    BY <1>3, Zenon DEF BackupExact
  <2>2. CASE L = <<>>
    <3>1. b = Miss
      BY <1>0, <1>3, <2>1, <2>2, Zenon DEF collapseChainAt, AtRoot
    <3>2. r = Found(L, {}) /\ Found(L, {}) = Miss
      <4>1. r = Found(L, {})
        BY <2>2, Zenon DEF RootExact, Found
      <4> QED
        BY <2>2, <4>1, FoundFacts
    <3> QED
      BY <3>1, <3>2, MissMirrors
  <2>3. CASE L # <<>>
    <3>1. b = collapseBackupResult(CollapseCNAME(root, L, t), n, root,
                                   BackupOrigin, labels)
      BY <1>0, <1>3, <2>1, <2>3, Zenon DEF collapseChainAt, AtRoot
    <3>2. r = collapseRootCNAME(at, t, L)
      BY <1>3, <2>3, Zenon DEF RootExact
    <3>3. IsRRset(root, L, "CNAME")
      BY <1>1, <1>3, <2>3
    <3> HIDE DEF L, b, r
    <3>4. Mirrors(b, r) /\ StartsAt(r, at, t)
      BY <3>1, <3>2, <3>3, CollapsePair, Zenon
    <3> QED
      BY <3>4 DEF b, r
  <2> QED
    BY <2>2, <2>3
<1> QED
  BY <1>2, <1>3

LEMMA EmittedIs ==
  ASSUME GoodState, NEW s
  PROVE  Emitted(s, root, BackupOrigin, labels) = Found(Rw(s), Withheld(s))
<1>1. root.origin = RootOrigin
  BY DEF GoodState, GoodZone
<1> QED
  BY <1>1, Zenon DEF Emitted, Found, Rw

LEMMA ChasedChain ==
  ASSUME NEW s, OfType(s, "CNAME"), s # <<>>, NEW t, t # "CNAME", NEW z
  PROVE  Chased(s, t, z) = FollowCNAME(z, s, t)
<1>1. Len(s) \in DOMAIN s
  BY DEF OfType
<1>2. s[Len(s)].type = "CNAME"
  BY <1>1 DEF OfType
<1> QED
  BY <1>2 DEF Chased

(* The chain behind CNAMEs found at the name or through a wildcard.        *)
LEMMA ChainPair ==
  ASSUME GoodState, NEW n \in Name, IsInZone(n, BackupOrigin), NEW t,
         t # "CNAME", NEW s, IsRRset(root, s, "CNAME"), NEW w
  PROVE  LET X == Chased(WithOwner(s, AtRoot(n)), t, root)
             r == RootChain(AtRoot(n), t, s, FALSE)
         IN Mirrors(Found(Rw(X), w), r) /\ StartsAt(r, AtRoot(n), t)
<1> DEFINE at == AtRoot(n)
           S  == WithOwner(s, at)
           F  == FollowCNAME(root, S, t)
<1>0. GoodZone(root, RootOrigin) /\ at \in Name
  BY AtRootFacts DEF GoodState
<1>1. s # <<>>
  BY <1>0, RRsetFacts
<1>2. /\ OfType(S, "CNAME") /\ S # <<>> /\ GoodAnswer(S, root, at, RootOrigin)
  BY <1>0, InitialGood
<1> HIDE DEF at
<1>3. RootChain(at, t, s, FALSE) = Found(F, {})
  BY <1>1, Zenon DEF RootChain, Found
<1> HIDE DEF S
<1>4. Chased(S, t, root) = F
  BY <1>2, ChasedChain
<1>5. GoodAnswer(F, root, at, RootOrigin)
  BY <1>0, <1>2, FollowGood
<1> HIDE DEF F
<1>6. Mirrors(Found(Rw(F), w), Found(F, {})) /\ StartsAt(Found(F, {}), at, t)
  BY <1>5, FollowPair
<1> QED
  BY <1>3, <1>4, <1>6, Zenon DEF S, at

LEMMA CNAMEPair ==
  ASSUME GoodState, NEW n \in Name, IsInZone(n, BackupOrigin), NEW t,
         NEW cf \in BOOLEAN
  PROVE  LET b == BackupCNAMEFallback(n, t, cf)
             r == RootCNAMEFallback(AtRoot(n), t, cf)
         IN Mirrors(b, r) /\ StartsAt(r, AtRoot(n), t)
<1> DEFINE at == AtRoot(n)
           L  == Lookup(root, at, "CNAME")
           b  == BackupCNAMEFallback(n, t, cf)
           r  == RootCNAMEFallback(at, t, cf)
<1>0. GoodZone(root, RootOrigin) /\ root.origin = RootOrigin /\ at \in Name
  BY AtRootFacts DEF GoodState, GoodZone
<1>1. /\ OfType(L, "CNAME") /\ OfOwner(L, at)
      /\ L # <<>> => IsRRset(root, L, "CNAME")
  BY <1>0, LookupFacts, LookupIsRRset
<1>2. CASE t = "CNAME"
  <2>1. b = Miss /\ r = Miss
    BY <1>2, Zenon DEF BackupCNAMEFallback, ResolveCNAMEFallback,
                       RootCNAMEFallback, RootChain
  <2> QED
    BY <2>1, MissMirrors
<1>3. CASE t # "CNAME" /\ L = <<>>
  <2>1. r = Miss
    BY <1>3, Zenon DEF RootCNAMEFallback, RootChain
  <2>2. finalizeBackupRRs(<<>>, t, root, BackupOrigin, labels) = Miss
    BY EmptyEmitted
  <2>3. b = Miss
    BY <1>0, <1>3, <2>2, Zenon DEF BackupCNAMEFallback, AtRoot,
                                   ResolveCNAMEFallback, collapseChainAt
  <2> QED
    BY <2>1, <2>3, MissMirrors
<1>4. CASE t # "CNAME" /\ L # <<>> /\ cf
  <2>1. b = collapseBackupResult(CollapseCNAME(root, L, t), n, root,
                                 BackupOrigin, labels)
    BY <1>0, <1>4, Zenon DEF BackupCNAMEFallback, AtRoot, collapseChainAt
  <2>2. r = collapseRootCNAME(at, t, L)
    BY <1>4, Zenon DEF RootCNAMEFallback, RootChain
  <2>3. IsRRset(root, L, "CNAME")
    BY <1>1, <1>4
  <2> HIDE DEF L
  <2> QED
    BY <2>1, <2>2, <2>3, CollapsePair, Zenon
<1>5. CASE t # "CNAME" /\ L # <<>> /\ ~cf
  <2> DEFINE X == Chased(L, t, root)
  <2>1. b = Emitted(X, root, BackupOrigin, labels)
    BY <1>0, <1>5, Zenon DEF BackupCNAMEFallback, AtRoot,
                             ResolveCNAMEFallback, finalizeBackupRRs
  <2>2. r = RootChain(at, t, L, FALSE)
    BY <1>5, Zenon DEF RootCNAMEFallback, RootChain
  <2>3. IsRRset(root, L, "CNAME")
    BY <1>1, <1>5
  <2>4. WithOwner(L, at) = L
    <3>1. L \in Seq(Record) /\ \A i \in DOMAIN L : L[i].owner = at
      BY <1>1 DEF OfType, OfOwner
    <3> HIDE DEF L
    <3> QED
      BY <1>0, <3>1, WithOwnerFacts
  <2>5. b = Found(Rw(X), Withheld(X))
    BY <2>1, EmittedIs
  <2> DEFINE w == Withheld(X)
  <2>6. t # "CNAME"
    BY <1>5
  <2> HIDE DEF L, w
  <2>7. Mirrors(Found(Rw(Chased(WithOwner(L, at), t, root)), w),
                RootChain(at, t, L, FALSE))
        /\ StartsAt(RootChain(at, t, L, FALSE), at, t)
    BY <2>3, <2>6, ChainPair, Zenon
  <2> QED
    BY <2>2, <2>4, <2>5, <2>7, Zenon DEF w
<1> QED
  BY <1>2, <1>3, <1>4, <1>5

LEMMA SynthesizedIs ==
  ASSUME GoodState, NEW n, NEW t, NEW s
  PROVE  LET X == Chased(WithOwner(Kept(s), AtRoot(n)), t, root)
         IN synthesizeWildcardRRs(s, n, t, BackupOrigin, root, labels)
              = Found(Rw(X), Withheld(X) \cup Withheld(s))
<1> DEFINE X == Chased(WithOwner(Kept(s), AtRoot(n)), t, root)
           e == Emitted(X, root, BackupOrigin, labels)
           v == Withheld(s)
           w == Withheld(X)
           a == Rw(X)
<1>0. root.origin = RootOrigin
  BY DEF GoodState, GoodZone
<1>1. synthesizeWildcardRRs(s, n, t, BackupOrigin, root, labels)
        = [e EXCEPT !.withheld = @ \cup v]
  BY <1>0, Zenon DEF synthesizeWildcardRRs, finalizeBackupRRs, AtRoot
<1>2. e = Found(a, w)
  BY EmittedIs
<1> HIDE DEF e, v, w, a
<1>3. [Found(a, w) EXCEPT !.withheld = @ \cup v] = Found(a, w \cup v)
  <2> DEFINE f == FALSE
  <2>1. /\ Found(a, w) = [rrs |-> a, nodata |-> f, withheld |-> w]
        /\ Found(a, w \cup v)
             = [rrs |-> a, nodata |-> f, withheld |-> w \cup v]
    BY Zenon DEF Found, Stage
  <2> HIDE DEF f
  <2> QED
    BY <2>1
<1> QED
  BY <1>1, <1>2, <1>3, Zenon DEF v, w, a

LEMMA WildcardPair ==
  ASSUME GoodState, NEW n \in Name, IsInZone(n, BackupOrigin), NEW t,
         NEW cf \in BOOLEAN
  PROVE  LET b == BackupWildcard(n, t, cf)
             r == RootWildcard(AtRoot(n), t, cf)
         IN Mirrors(b, r) /\ StartsAt(r, AtRoot(n), t)
<1> DEFINE at == AtRoot(n)
           W  == LookupWildcard(root, at, t)
           C  == LookupWildcard(root, at, "CNAME")
           b  == BackupWildcard(n, t, cf)
           r  == RootWildcard(at, t, cf)
           S(s) == synthesizeWildcardRRs(s, n, t, BackupOrigin, root, labels)
<1>0. GoodZone(root, RootOrigin) /\ root.origin = RootOrigin /\ at \in Name
  BY AtRootFacts DEF GoodState, GoodZone
<1>1. \A u : /\ OfType(LookupWildcard(root, at, u), u)
             /\ LookupWildcard(root, at, u) # <<>> =>
                  IsRRset(root, LookupWildcard(root, at, u), u)
  BY <1>0, WildcardFacts, LookupIsRRset
<1>2. /\ OfType(W, t) /\ (W # <<>> => IsRRset(root, W, t))
      /\ OfType(C, "CNAME") /\ (C # <<>> => IsRRset(root, C, "CNAME"))
  BY <1>1, Zenon
<1>3. FirstNonEmpty(<<W, C>>) = IF W # <<>> THEN W ELSE C
  BY FirstOfTwo
<1>4. t = "CNAME" => W = C
  OBVIOUS
<1>5. ASSUME W # <<>>, t # "CNAME" \/ ~cf
      PROVE  Mirrors(b, r) /\ StartsAt(r, at, t)
  <2> DEFINE O == WithOwner(W, at)
             X == Chased(WithOwner(Kept(W), at), t, root)
             w == Withheld(X) \cup Withheld(W)
             e == Found(Rw(X), w)
  <2>1. b = S(W)
    BY <1>0, <1>3, <1>5, Zenon DEF BackupWildcard, ResolveWildcard, AtRoot,
                                   ResolveWildcardCollapse
  <2>2. r = Found(O, {})
    BY <1>5, Zenon DEF RootWildcard, Found
  <2>3. S(W) = e
    BY SynthesizedIs
  <2> HIDE DEF b, r, S
  <2>4. OfType(O, t) /\ OfOwner(O, at) /\ O # <<>>
    <3> HIDE DEF W
    <3> QED
      BY <1>0, <1>2, <1>5, InitialGood
  <2>5. CASE t \notin Uncovered
    <3>1. Kept(W) = W
      BY <1>2, <2>5, UniformKept
    <3>2. X = O
      <4>1. CASE t # "CNAME"
        BY <2>4, <3>1, <4>1, ChasedSame
      <4>2. CASE t = "CNAME"
        BY <3>1, <4>2 DEF Chased
      <4> QED
        BY <4>1, <4>2
    <3>3. Kept(O) = O
      BY <2>4, <2>5, UniformKept
    <3> DEFINE q == RewriteRRs(O, RootOrigin, BackupOrigin, labels)
    <3>4. Rw(X) = q
      BY <3>2, <3>3, Zenon DEF Rw
    <3>5. q # <<>>
      <4>1. /\ labels \in BOOLEAN /\ O \in Seq(Record)
            /\ RootOrigin \in Name /\ BackupOrigin \in Name
        BY <2>4, OriginsAssumption DEF GoodState, OfType
      <4> HIDE DEF O
      <4> QED
        BY <2>4, <4>1, RewriteRRsFacts
    <3> HIDE DEF q, w, O, X
    <3>6. e # Miss /\ e.rrs = q
      BY <3>4, <3>5, FoundFacts
    <3> HIDE DEF e
    <3>7. Mirrors(e, Found(O, {})) /\ StartsAt(Found(O, {}), at, t)
      BY <2>4, <2>5, <3>6, UniformPair DEF q
    <3> QED
      BY <2>1, <2>2, <2>3, <3>7, Zenon
  <2>6. CASE t \in Uncovered
    <3>1. Kept(W) = <<>> /\ Withheld(W) # {}
      BY <1>2, <1>5, <2>6, UniformKept
    <3>2. WithOwner(<<>>, at) = <<>>
      BY DEF WithOwner
    <3>3. X = <<>>
      BY <3>1, <3>2 DEF Chased
    <3>4. Rw(X) = <<>>
      BY <3>3, RwEmpty
    <3>5. w # {}
      BY <3>1
    <3> HIDE DEF w, O, X
    <3>6. e # Miss /\ e.rrs = <<>>
      BY <3>4, <3>5, FoundFacts
    <3> HIDE DEF e
    <3>7. Mirrors(e, Found(O, {})) /\ StartsAt(Found(O, {}), at, t)
      BY <2>4, <2>6, <3>6, UniformPair
    <3> QED
      BY <2>1, <2>2, <2>3, <3>7, Zenon
  <2> QED
    BY <2>5, <2>6
<1>6. ASSUME C # <<>>, cf, t = "CNAME" \/ W = <<>>
      PROVE  Mirrors(b, r) /\ StartsAt(r, at, t)
  <2>1. b = collapseBackupResult(CollapseCNAME(root, C, t), n, root,
                                 BackupOrigin, labels)
    BY <1>0, <1>6, Zenon DEF BackupWildcard, AtRoot, ResolveWildcardCollapse
  <2>2. r = collapseRootCNAME(at, t, C)
    BY <1>4, <1>6, Zenon DEF RootWildcard, RootChain
  <2>3. IsRRset(root, C, "CNAME")
    BY <1>2, <1>6
  <2> HIDE DEF C, b, r
  <2>4. Mirrors(b, r) /\ StartsAt(r, at, t)
    BY <2>1, <2>2, <2>3, CollapsePair, Zenon
  <2> QED
    BY <2>4
<1>7. ASSUME W = <<>>, C # <<>>, ~cf
      PROVE  Mirrors(b, r) /\ StartsAt(r, at, t)
  <2> DEFINE X == Chased(WithOwner(Kept(C), at), t, root)
             w == Withheld(X) \cup Withheld(C)
  <2>1. b = S(C)
    BY <1>0, <1>3, <1>7, Zenon DEF BackupWildcard, ResolveWildcard, AtRoot
  <2>2. r = RootChain(at, t, C, FALSE)
    BY <1>7, Zenon DEF RootWildcard, RootChain
  <2>3. S(C) = Found(Rw(X), w)
    BY SynthesizedIs
  <2>4. t # "CNAME"
    BY <1>4, <1>7
  <2>5. Kept(C) = C
    <3>1. "CNAME" \notin Uncovered
      BY DEF Uncovered
    <3> QED
      BY <1>2, <3>1, UniformKept
  <2>6. IsRRset(root, C, "CNAME")
    BY <1>2, <1>7
  <2> HIDE DEF C, b, r, w, S
  <2>7. Mirrors(Found(Rw(Chased(WithOwner(C, at), t, root)), w),
                RootChain(at, t, C, FALSE))
        /\ StartsAt(RootChain(at, t, C, FALSE), at, t)
    BY <2>4, <2>6, ChainPair, Zenon
  <2> QED
    BY <2>1, <2>2, <2>3, <2>5, <2>7, Zenon
<1>8. ASSUME W = <<>>, C = <<>>
      PROVE  Mirrors(b, r) /\ StartsAt(r, at, t)
  <2>1. r = Miss
    BY <1>8, Zenon DEF RootWildcard, RootChain
  <2>2. S(<<>>) = Miss
    <3>1. Kept(<<>>) = <<>> /\ Withheld(<<>>) = {}
          /\ Chased(<<>>, t, root) = <<>>
      BY EmptyEmitted
    <3>2. WithOwner(<<>>, at) = <<>>
      BY DEF WithOwner
    <3>3. S(<<>>) = Found(Rw(<<>>), {} \cup {})
      BY <3>1, <3>2, SynthesizedIs
    <3>4. {} \cup {} = {} /\ Rw(<<>>) = <<>>
      BY RwEmpty
    <3>5. Found(<<>>, {}) = Miss
      BY FoundFacts
    <3> HIDE DEF S
    <3> QED
      BY <3>3, <3>4, <3>5, Zenon
  <2>3. b = Miss
    BY <1>0, <1>3, <1>8, <2>2, Zenon
       DEF BackupWildcard, ResolveWildcard, AtRoot, ResolveWildcardCollapse
  <2> QED
    BY <2>1, <2>3, MissMirrors
<1> HIDE DEF b, r, W, C
<1>9. Mirrors(b, r) /\ StartsAt(r, at, t)
  BY <1>4, <1>5, <1>6, <1>7, <1>8, Zenon
<1> QED
  BY <1>9 DEF b, r

LEMMA StageMirrors ==
  ASSUME GoodState, NEW n \in Name, IsInZone(n, BackupOrigin), NEW t,
         NEW cf \in BOOLEAN, ~Overridden(n, t), NEW txts,
         t = "TXT" => n \notin txts
  PROVE  LET b == BackupStage(n, t, cf, txts).rrs
             r == RootStage(AtRoot(n), t, cf, {}).rrs
         IN b = MirrorRRs(r) /\ (b = <<>> <=> Kept(r) = <<>>)
<1> DEFINE at == AtRoot(n)
           B  == BackupStage(n, t, cf, txts)
           R  == RootStage(at, t, cf, {})
<1>0. /\ RootOrigin \in Name /\ BackupOrigin \in Name
      /\ at \in Name /\ RewriteName(at, RootOrigin, BackupOrigin) = n
      /\ SOA \in Record /\ SOA.type = "SOA" /\ SOA.owner = RootOrigin
      /\ backupSOA.owner = BackupOrigin /\ AtRoot(BackupOrigin) = RootOrigin
  BY OriginsAssumption, SOAAssumption, AtRootFacts, BackupApex
<1>1. at = RootOrigin <=> n = BackupOrigin
  <2>1. IsInZone(BackupOrigin, BackupOrigin)
    BY OriginsAssumption DEF IsInZone, Name
  <2>2. RewriteName(RootOrigin, RootOrigin, BackupOrigin) = BackupOrigin
    BY <1>0, <2>1, AtRootFacts
  <2> QED
    BY <1>0, <2>2
<1>2. CASE t = "SOA" /\ n = BackupOrigin
  <2>1. /\ ApexSOA(n, t, backupSOA) = Found(<<backupSOA>>, {})
        /\ ApexSOA(n, t, backupSOA) # Miss
    BY <1>0, <1>2, ApexIs
  <2>2. ApexSOA(at, t, SOA) = Found(<<SOA>>, {}) /\ ApexSOA(at, t, SOA) # Miss
    BY <1>0, <1>1, <1>2, ApexIs
  <2>3. B = Found(<<backupSOA>>, {}) /\ R = Found(<<SOA>>, {})
    BY <2>1, <2>2, BackupStageIs, RootStageIs, Zenon
  <2> HIDE DEF B, R
  <2>4. B.rrs = <<backupSOA>> /\ R.rrs = <<SOA>>
    BY <2>3, FoundFacts
  <2>5. OfType(<<SOA>>, "SOA")
    BY <1>0 DEF OfType
  <2>6. Kept(<<SOA>>) # <<>>
    <3>1. "SOA" \notin Uncovered /\ <<SOA>> # <<>>
      BY DEF Uncovered
    <3> QED
      BY <2>5, <3>1, UniformKept
  <2> QED
    BY <2>4, <2>6 DEF MirrorRRs, B, R
<1>3. CASE ~(t = "SOA" /\ n = BackupOrigin)
  <2>1. ApexSOA(n, t, backupSOA) = Miss
    BY <1>0, <1>3, Zenon DEF ApexSOA
  <2>2. ApexSOA(at, t, SOA) = Miss
    <3>1. ~(t = "SOA" /\ at = SOA.owner)
      BY <1>0, <1>1, <1>3
    <3> QED
      BY <3>1, Zenon DEF ApexSOA
  <2>3. /\ lookupEphemeralTXT(n, t, txts) = Miss
        /\ lookupEphemeralTXT(at, t, {}) = Miss
    <3>1. ~(t = "TXT" /\ n \in txts)
      BY Zenon
    <3>2. ~(t = "TXT" /\ at \in {})
      BY Zenon
    <3> QED
      BY <3>1, <3>2, Zenon DEF lookupEphemeralTXT
  <2> DEFINE b2 == BackupExact(n, t, cf)
             r2 == RootExact(at, t, cf)
             b4 == BackupCNAMEFallback(n, t, cf)
             r4 == RootCNAMEFallback(at, t, cf)
             b5 == BackupWildcard(n, t, cf)
             r5 == RootWildcard(at, t, cf)
  <2>4. Mirrors(b2, r2) /\ StartsAt(r2, at, t)
    BY ExactPair
  <2>5. Mirrors(b4, r4) /\ StartsAt(r4, at, t)
    BY CNAMEPair
  <2>6. Mirrors(b5, r5) /\ StartsAt(r5, at, t)
    BY WildcardPair
  <2>7. B = IF b2 # Miss THEN b2 ELSE IF b4 # Miss THEN b4 ELSE b5
    BY <2>1, <2>3, BackupStageIs, Zenon
  <2>8. R = IF r2 # Miss THEN r2 ELSE IF r4 # Miss THEN r4 ELSE r5
    BY <2>2, <2>3, RootStageIs, Zenon
  <2> HIDE DEF b2, b4, b5, r2, r4, r5, B, R
  <2>9. Mirrors(B, R) /\ StartsAt(R, at, t)
    <3>1. /\ b2 # Miss <=> r2 # Miss
          /\ b4 # Miss <=> r4 # Miss
      BY <2>4, <2>5 DEF Mirrors
    <3> QED
      BY <2>4, <2>5, <2>6, <2>7, <2>8, <3>1, Zenon
  <2>10. R.rrs # <<SOA>>
    <3>1. SUFFICES ASSUME R.rrs = <<SOA>> PROVE FALSE
      OBVIOUS
    <3>2. R.rrs[1] = SOA /\ R.rrs # <<>>
      BY <3>1
    <3>3. RootOrigin = at /\ ("SOA" = t \/ "SOA" = "CNAME")
      BY <1>0, <2>9, <3>2 DEF StartsAt
    <3> QED
      BY <1>1, <1>3, <3>3
  <2>11. B.rrs = Rw(R.rrs)
    BY <2>9 DEF Mirrors
  <2>12. B.rrs = MirrorRRs(R.rrs)
    BY <2>10, <2>11 DEF MirrorRRs, Rw
  <2>13. Kept(R.rrs) \in Seq(Record)
    <3>1. CASE R.rrs = <<>>
      <4>1. Kept(<<>>) = <<>>
        BY EmptyEmitted
      <4>2. <<>> \in Seq(Record)
        OBVIOUS
      <4> QED
        BY <3>1, <4>1, <4>2, Zenon
    <3>2. CASE R.rrs # <<>>
      BY <2>9, <3>2, KeptFacts DEF StartsAt
    <3> QED
      BY <3>1, <3>2
  <2>14. Kept(R.rrs) = <<>> <=> B.rrs = <<>>
    <3> DEFINE k == Kept(R.rrs)
    <3>1. labels \in BOOLEAN
      BY DEF GoodState
    <3>2. B.rrs = RewriteRRs(k, RootOrigin, BackupOrigin, labels)
      BY <2>11 DEF Rw
    <3> HIDE DEF k
    <3>3. k \in Seq(Record)
      BY <2>13 DEF k
    <3>4. Len(RewriteRRs(k, RootOrigin, BackupOrigin, labels)) = Len(k)
      BY <3>1, <3>3, OriginsAssumption, RewriteRRsFacts
    <3>5. RewriteRRs(k, RootOrigin, BackupOrigin, labels) \in Seq(Record)
      BY <3>1, <3>3, OriginsAssumption, RewriteRRsFacts
    <3>6. k = <<>> <=> B.rrs = <<>>
      BY <3>2, <3>3, <3>4, <3>5
    <3> QED
      BY <3>6 DEF k
  <2> QED
    BY <2>12, <2>14 DEF B, R
<1> QED
  BY <1>2, <1>3

LEMMA InvBackupMirrorsRoot == ResolveInv => BackupMirrorsRoot
<1> SUFFICES ASSUME ResolveInv, ForBackup,
                    ~Overridden(out.qname, out.qtype),
                    out.qtype = "TXT" => out.qname \notin store
             PROVE  out.reply
                      = MirrorOf(Respond(AtRoot(out.qname), out.qtype,
                                         collapse, {}), out.qname)
  BY DEF BackupMirrorsRoot
<1> DEFINE n  == out.qname
           t  == out.qtype
           at == AtRoot(n)
           ref == Respond(at, t, collapse, {})
           b  == BackupStage(n, t, collapse, store).rrs
           r  == RootStage(at, t, collapse, {}).rrs
           has == at \in Owners(root) \/ HasWildcard(root, at)
<1>0. /\ GoodState /\ n \in Name /\ collapse \in BOOLEAN
      /\ out.reply = Respond(n, t, collapse, store)
      /\ IsInZone(n, BackupOrigin)
  BY DEF ResolveInv, ForBackup, Replied, GoodReply, GoodState
<1>1. at \in Name /\ IsInZone(at, RootOrigin)
  BY <1>0, AtRootFacts
<1>2. b = MirrorRRs(r) /\ (b = <<>> <=> Kept(r) = <<>>)
  BY <1>0, StageMirrors
<1>3. out.reply = IF b # <<>> THEN Reply("NOERROR", b, <<>>)
                  ELSE Negative(IF backupZoneHasName(n) THEN "NOERROR"
                                ELSE "NXDOMAIN", backupSOA)
  <2>1. Respond(n, t, collapse, store)
          = IF b # <<>> THEN Reply("NOERROR", b, <<>>)
            ELSE Negative(IF backupZoneHasName(n) THEN "NOERROR"
                          ELSE "NXDOMAIN", backupSOA)
    <3>1. n \in Name /\ IsInZone(n, BackupOrigin)
      BY <1>0
    <3> HIDE DEF n, t
    <3> QED
      BY <3>1, RespondBackup, Zenon
  <2> QED
    BY <1>0, <2>1, Zenon
<1>4. ref = IF r # <<>> THEN Reply("NOERROR", r, <<>>)
            ELSE Negative(IF has THEN "NOERROR" ELSE "NXDOMAIN", SOA)
  BY <1>1, RespondRoot, Zenon
<1>5. r # <<>> => has
  <2>1. ~has => RootStage(at, t, collapse, {}) = Miss
    BY <1>0, <1>1, RootMisses
  <2>2. Miss.rrs = <<>>
    BY FoundFacts
  <2> QED
    BY <2>1, <2>2
<1>6. backupZoneHasName(n) <=> n \in Owners(over) \/ has
  BY Zenon DEF backupZoneHasName, AtRoot
<1>7. MirrorOf(ref, n)
        = [rcode |-> IF n \in Owners(over) THEN "NOERROR" ELSE ref.rcode,
           answer |-> MirrorRRs(ref.answer),
           ns |-> IF Kept(ref.answer) # <<>> THEN <<>>
                  ELSE <<cappedSOA(backupSOA)>>]
  BY Zenon DEF MirrorOf
<1>8. Kept(<<>>) = <<>>
  BY <1>0, EmptyEmitted
<1> HIDE DEF n, t, at, ref, b, r, has
<1>9. /\ ref.answer = r
      /\ ref.rcode = IF has THEN "NOERROR" ELSE "NXDOMAIN"
  <2>1. CASE r # <<>>
    BY <1>4, <1>5, <2>1, ReplyFacts
  <2>2. CASE r = <<>>
    BY <1>4, <2>2, ReplyFacts DEF Negative
  <2> QED
    BY <2>1, <2>2
<1>10. CASE b # <<>>
  <2>1. r # <<>> /\ Kept(r) # <<>>
    BY <1>2, <1>8, <1>10
  <2>2. has
    BY <1>5, <2>1
  <2>3. MirrorOf(ref, n) = [rcode |-> "NOERROR", answer |-> b, ns |-> <<>>]
    BY <1>2, <1>7, <1>9, <2>1, <2>2
  <2> QED
    BY <1>3, <1>10, <2>3 DEF Reply, n, t, at, ref
<1>11. CASE b = <<>>
  <2> DEFINE rc == IF n \in Owners(over) \/ has THEN "NOERROR"
                   ELSE "NXDOMAIN"
  <2>1. MirrorOf(ref, n) = [rcode |-> rc, answer |-> <<>>,
                            ns |-> <<cappedSOA(backupSOA)>>]
    BY <1>2, <1>7, <1>9, <1>11
  <2>2. out.reply = Negative(rc, backupSOA)
    BY <1>3, <1>6, <1>11, Zenon
  <2> HIDE DEF rc
  <2> QED
    BY <2>1, <2>2 DEF Negative, Reply, n, t, at, ref
<1> QED
  BY <1>10, <1>11

(* A backup answers as a rewritten copy of its root would, at every name,  *)
(* for every type, through every stage of resolution, collapsing or not.   *)
THEOREM ResolveBackupMirrorsRoot == Spec => []BackupMirrorsRoot
  BY ResolveInvariance, InvBackupMirrorsRoot, PTL
----------------------------------------------------------------------------
(* The records of a stage: each has the type and the data of a record of   *)
(* the root zone, and stands at the name asked for or at a target in the   *)
(* zone of a CNAME before it.                                              *)
Walk(s, n) ==
  /\ s \in Seq(Record)
  /\ \A i \in DOMAIN s : FromZone(root, s[i]) /\ Linked(s, i, n, RootOrigin)

LEMMA EmptyWalk == ASSUME NEW n PROVE Walk(<<>>, n)
  BY DEF Walk

LEMMA UniformWalk ==
  ASSUME NEW s, NEW n, NEW t, OfType(s, t), OfOwner(s, n),
         \A i \in DOMAIN s : FromZone(root, s[i])
  PROVE  Walk(s, n)
<1>1. s \in Seq(Record)
  BY DEF OfType
<1>2. \A i \in DOMAIN s : Linked(s, i, n, RootOrigin)
  BY DEF OfOwner, Linked
<1> QED
  BY <1>1, <1>2 DEF Walk

LEMMA ChainWalk ==
  ASSUME NEW s, NEW n, GoodAnswer(s, root, n, RootOrigin)
  PROVE  Walk(s, n)
  BY DEF GoodAnswer, Walk

(* An RRset of the zone, under the name asked for.                         *)
LEMMA RRsetWalk ==
  ASSUME GoodState, NEW s, NEW n \in Name, NEW t, IsRRset(root, s, t)
  PROVE  Walk(WithOwner(s, n), n)
<1>1. GoodZone(root, RootOrigin)
  BY DEF GoodState
<1>2. /\ \A i \in DOMAIN s : FromZone(root, WithOwner(s, n)[i])
      /\ DOMAIN WithOwner(s, n) = DOMAIN s
  BY <1>1, InitialGood
<1>3. OfType(WithOwner(s, n), t) /\ OfOwner(WithOwner(s, n), n)
  BY <1>1, InitialGood
<1> QED
  BY <1>2, <1>3, UniformWalk

LEMMA CollapseWalk ==
  ASSUME GoodState, NEW n \in Name, NEW t, NEW s, IsRRset(root, s, "CNAME")
  PROVE  Walk(collapseRootCNAME(n, t, s).rrs, n)
<1> DEFINE c == CollapseCNAME(root, s, t)
           R == CollapsedRRs(c, n)
<1>0. GoodZone(root, RootOrigin)
  BY DEF GoodState
<1>1. collapseRootCNAME(n, t, s).rrs = R
  <2>1. collapseRootCNAME(n, t, s) = Collapsed(R, {})
    BY Zenon DEF collapseRootCNAME, Collapsed
  <2> QED
    BY <2>1, CollapsedFacts
<1>2. GoodChain(c, root, t) /\ c.outcome # "chase"
  BY <1>0, CollapseGood
<1> HIDE DEF c
<1>3. /\ c \in ChainState /\ c.ttl \in Nat /\ c.target \in Name
      /\ c.outcome \in {"records", "tail", "nodata"}
  BY <1>2 DEF GoodChain, ChainState
<1>4. CASE c.outcome = "nodata"
  BY <1>1, <1>4, CollapsedRRsIs, EmptyWalk
<1>5. CASE c.outcome = "tail"
  <2> DEFINE x == TailRR(n, c)
  <2>1. R = <<x>>
    BY <1>5, CollapsedRRsIs
  <2>2. "CNAME" \in STRING
    BY <1>0, CNAMEIsString
  <2>3. /\ x \in Record /\ x.owner = n /\ x.type = "CNAME"
        /\ x.data = c.target
    BY <1>3, <2>2 DEF TailRR, Record
  <2>4. PICK k \in DOMAIN root.rrs :
          k[2] = "CNAME" /\ \E i \in DOMAIN root.rrs[k] :
                              c.target = root.rrs[k][i].data
    BY <1>2 DEF GoodChain, CNAMETarget
  <2>5. PICK i \in DOMAIN root.rrs[k] : c.target = root.rrs[k][i].data
    BY <2>4
  <2>6. root.rrs[k][i].type = "CNAME"
    BY <1>0, <2>4 DEF GoodZone, GoodRRset
  <2> HIDE DEF x
  <2>7. FromZone(root, x)
    BY <2>3, <2>5, <2>6 DEF FromZone
  <2>8. /\ OfType(<<x>>, "CNAME") /\ OfOwner(<<x>>, n)
        /\ \A j \in DOMAIN <<x>> : FromZone(root, <<x>>[j])
    BY <2>3, <2>7 DEF OfType, OfOwner
  <2> QED
    BY <1>1, <2>1, <2>8, UniformWalk
<1>6. CASE c.outcome = "records"
  <2> DEFINE q == c.rrs
             S == Stamp(q, n, c.ttl)
  <2>1. IsRRset(root, q, t)
    BY <1>2, <1>6 DEF GoodChain
  <2>2. OfType(q, t) /\ q # <<>> /\ \A i \in DOMAIN q : FromZone(root, q[i])
    BY <1>0, <2>1, RRsetFacts, InitialGood
  <2>3. R = S
    BY <1>6, CollapsedRRsIs
  <2>4. OfType(S, t) /\ OfOwner(S, n) /\ DOMAIN S = DOMAIN q
    BY <1>3, <2>2, StampFacts
  <2>5. \A i \in DOMAIN q : S[i] = [owner |-> n, type |-> t,
                                    data |-> q[i].data, ttl |-> c.ttl]
    BY <1>3, <2>2, StampFacts
  <2> HIDE DEF S
  <2>6. ASSUME NEW i \in DOMAIN S PROVE FromZone(root, S[i])
    <3>1. S[i].type = q[i].type /\ S[i].data = q[i].data
      <4>1. S[i] = [owner |-> n, type |-> t, data |-> q[i].data, ttl |-> c.ttl]
        BY <2>4, <2>5
      <4>2. q[i].type = t
        BY <2>2, <2>4 DEF OfType
      <4> QED
        BY <4>1, <4>2
    <3> QED
      BY <2>2, <2>4, <3>1 DEF FromZone
  <2> QED
    BY <1>1, <2>3, <2>4, <2>6, UniformWalk
<1> QED
  BY <1>3, <1>4, <1>5, <1>6

LEMMA FoundWalk ==
  ASSUME NEW s, NEW n, Walk(s, n)
  PROVE  Walk(Found(s, {}).rrs, n)
<1>1. Found(s, {}).rrs = s
  BY FoundFacts
<1> QED
  BY <1>1

LEMMA MissWalk == ASSUME NEW n PROVE Walk(Miss.rrs, n)
<1>1. Miss.rrs = <<>>
  BY FoundFacts
<1> QED
  BY <1>1, EmptyWalk

LEMMA RootChainWalk ==
  ASSUME GoodState, NEW n \in Name, NEW t, NEW cf \in BOOLEAN, NEW s,
         s = <<>> \/ IsRRset(root, s, "CNAME")
  PROVE  Walk(RootChain(n, t, s, cf).rrs, n)
<1> DEFINE r == RootChain(n, t, s, cf)
<1>1. CASE t = "CNAME" \/ s = <<>>
  <2>1. r = Miss
    BY <1>1, Zenon DEF RootChain
  <2> QED
    BY <2>1, MissWalk
<1>2. CASE ~(t = "CNAME" \/ s = <<>>) /\ cf
  <2>1. r = collapseRootCNAME(n, t, s)
    BY <1>2, Zenon DEF RootChain
  <2> QED
    BY <1>2, <2>1, CollapseWalk, Zenon
<1>3. CASE ~(t = "CNAME" \/ s = <<>>) /\ ~cf
  <2> DEFINE S == WithOwner(s, n)
             F == FollowCNAME(root, S, t)
  <2>1. r = Found(F, {})
    BY <1>3, Zenon DEF RootChain, Found
  <2>2. GoodZone(root, RootOrigin)
    BY DEF GoodState
  <2>3. GoodAnswer(S, root, n, RootOrigin)
    BY <1>3, <2>2, InitialGood
  <2> HIDE DEF S
  <2>4. GoodAnswer(F, root, n, RootOrigin)
    BY <2>2, <2>3, FollowGood
  <2> HIDE DEF F
  <2>5. Walk(Found(F, {}).rrs, n)
    BY <2>4, ChainWalk, FoundWalk
  <2> QED
    BY <2>1, <2>5, Zenon
<1> QED
  BY <1>1, <1>2, <1>3

LEMMA RootExactWalk ==
  ASSUME GoodState, NEW n \in Name, NEW t, NEW cf \in BOOLEAN
  PROVE  Walk(RootExact(n, t, cf).rrs, n)
<1> DEFINE L == Lookup(root, n, t)
           r == RootExact(n, t, cf)
<1>0. GoodZone(root, RootOrigin)
  BY DEF GoodState
<1>1. OfType(L, t) /\ OfOwner(L, n) /\ (L # <<>> => IsRRset(root, L, t))
  BY <1>0, LookupFacts, LookupIsRRset
<1>2. CASE L # <<>> /\ t = "CNAME" /\ cf
  <2>1. r = collapseRootCNAME(n, t, L)
    BY <1>2, Zenon DEF RootExact
  <2>2. IsRRset(root, L, "CNAME")
    BY <1>1, <1>2
  <2> HIDE DEF L, r
  <2>3. Walk(r.rrs, n)
    BY <2>1, <2>2, CollapseWalk, Zenon
  <2> QED
    BY <2>3 DEF r
<1>3. CASE ~(L # <<>> /\ t = "CNAME" /\ cf)
  <2>1. r = Found(L, {})
    BY <1>3, Zenon DEF RootExact, Found
  <2> HIDE DEF L
  <2>2. Walk(L, n)
    <3>1. CASE L = <<>>
      BY <3>1, EmptyWalk
    <3>2. CASE L # <<>>
      <4>1. \A i \in DOMAIN L : FromZone(root, L[i])
        BY <1>0, <1>1, <3>2, InitialGood
      <4> QED
        BY <1>1, <4>1, UniformWalk
    <3> QED
      BY <3>1, <3>2
  <2> QED
    BY <2>1, <2>2, FoundWalk, Zenon
<1> QED
  BY <1>2, <1>3

LEMMA RootCNAMEWalk ==
  ASSUME GoodState, NEW n \in Name, NEW t, NEW cf \in BOOLEAN
  PROVE  Walk(RootCNAMEFallback(n, t, cf).rrs, n)
<1> DEFINE L == Lookup(root, n, "CNAME")
<1>0. GoodZone(root, RootOrigin)
  BY DEF GoodState
<1>1. L = <<>> \/ IsRRset(root, L, "CNAME")
  BY <1>0, LookupIsRRset
<1>2. RootCNAMEFallback(n, t, cf) = RootChain(n, t, L, cf)
  BY Zenon DEF RootCNAMEFallback
<1> HIDE DEF L
<1>3. Walk(RootChain(n, t, L, cf).rrs, n)
  BY <1>1, RootChainWalk, Zenon
<1> QED
  BY <1>2, <1>3, Zenon

LEMMA RootWildcardWalk ==
  ASSUME GoodState, NEW n \in Name, NEW t, NEW cf \in BOOLEAN
  PROVE  Walk(RootWildcard(n, t, cf).rrs, n)
<1> DEFINE W == LookupWildcard(root, n, t)
           C == LookupWildcard(root, n, "CNAME")
           r == RootWildcard(n, t, cf)
<1>0. GoodZone(root, RootOrigin)
  BY DEF GoodState
<1>1. \A u : LookupWildcard(root, n, u) # <<>> =>
               IsRRset(root, LookupWildcard(root, n, u), u)
  BY <1>0, LookupIsRRset
<1>2. /\ W # <<>> => IsRRset(root, W, t)
      /\ C = <<>> \/ IsRRset(root, C, "CNAME")
  BY <1>1, Zenon
<1>3. CASE W = <<>>
  <2>1. r = RootChain(n, t, C, cf)
    BY <1>3, Zenon DEF RootWildcard
  <2> HIDE DEF C, r
  <2>2. Walk(r.rrs, n)
    BY <1>2, <2>1, RootChainWalk, Zenon
  <2> QED
    BY <2>2 DEF r
<1>4. CASE W # <<>> /\ t = "CNAME" /\ cf
  <2>1. r = collapseRootCNAME(n, t, W)
    BY <1>4, Zenon DEF RootWildcard
  <2>2. IsRRset(root, W, "CNAME")
    BY <1>2, <1>4
  <2> HIDE DEF W, r
  <2>3. Walk(r.rrs, n)
    BY <2>1, <2>2, CollapseWalk, Zenon
  <2> QED
    BY <2>3 DEF r
<1>5. CASE W # <<>> /\ ~(t = "CNAME" /\ cf)
  <2>1. r = Found(WithOwner(W, n), {})
    BY <1>5, Zenon DEF RootWildcard, Found
  <2>2. IsRRset(root, W, t)
    BY <1>2, <1>5
  <2> HIDE DEF W
  <2>3. Walk(WithOwner(W, n), n)
    BY <2>2, RRsetWalk
  <2> QED
    BY <2>1, <2>3, FoundWalk, Zenon
<1> QED
  BY <1>3, <1>4, <1>5

(* The records of the root for a name of its zone.                         *)
LEMMA RootStageWalk ==
  ASSUME GoodState, NEW n \in Name, NEW t, NEW cf \in BOOLEAN, NEW txts
  PROVE  LET s == RootStage(n, t, cf, txts).rrs
         IN \/ Walk(s, n)
            \/ s = <<SOA>> /\ n = RootOrigin
            \/ s = <<TokenRR(n)>> /\ t = "TXT" /\ n \in txts
<1> DEFINE a == ApexSOA(n, t, SOA)
           b == RootExact(n, t, cf)
           c == lookupEphemeralTXT(n, t, txts)
           d == RootCNAMEFallback(n, t, cf)
           e == RootWildcard(n, t, cf)
           R == RootStage(n, t, cf, txts)
<1>1. R = IF a # Miss THEN a ELSE IF b # Miss THEN b
          ELSE IF c # Miss THEN c ELSE IF d # Miss THEN d ELSE e
  BY RootStageIs, Zenon
<1>2. Walk(b.rrs, n) /\ Walk(d.rrs, n) /\ Walk(e.rrs, n)
  BY RootExactWalk, RootCNAMEWalk, RootWildcardWalk
<1>3. a # Miss => a.rrs = <<SOA>> /\ n = RootOrigin
  <2>1. CASE t = "SOA" /\ n = SOA.owner
    <3>1. a = Found(<<SOA>>, {})
      BY <2>1, Zenon DEF ApexSOA, Found
    <3> HIDE DEF a
    <3> QED
      BY <2>1, <3>1, FoundFacts, SOAAssumption
  <2>2. CASE ~(t = "SOA" /\ n = SOA.owner)
    BY <2>2, Zenon DEF ApexSOA
  <2> QED
    BY <2>1, <2>2
<1>4. c # Miss => c.rrs = <<TokenRR(n)>> /\ t = "TXT" /\ n \in txts
  <2>1. CASE t = "TXT" /\ n \in txts
    <3>1. c = Found(<<TokenRR(n)>>, {})
      BY <2>1, EphemeralIs, Zenon
    <3> HIDE DEF c
    <3> QED
      BY <2>1, <3>1, FoundFacts
  <2>2. CASE ~(t = "TXT" /\ n \in txts)
    BY <2>2, Zenon DEF lookupEphemeralTXT
  <2> QED
    BY <2>1, <2>2
<1> HIDE DEF a, b, c, d, e, R
<1>5. \/ Walk(R.rrs, n)
      \/ R.rrs = <<SOA>> /\ n = RootOrigin
      \/ R.rrs = <<TokenRR(n)>> /\ t = "TXT" /\ n \in txts
  BY <1>1, <1>2, <1>3, <1>4, Zenon
<1> QED
  BY <1>5 DEF R
----------------------------------------------------------------------------
(* RewriteNameAnywhere under the convention it relies on.                  *)
OneOccurrence(n) ==
  \A a, b \in Occurrences(n, RootOrigin) : a = b

LastLabelOK ==
  \A i \in 1..(Len(RootOrigin) - 1) :
    RootOrigin[i] # BackupOrigin[Len(BackupOrigin)]

LEMMA OriginLengths ==
  Len(RootOrigin) \in Nat \ {0} /\ Len(BackupOrigin) \in Nat \ {0}
<1>1. /\ Len(RootOrigin) \in Nat /\ Len(BackupOrigin) \in Nat
      /\ RootOrigin \in Seq(STRING) /\ BackupOrigin \in Seq(STRING)
  BY OriginsAssumption DEF Name
<1>2. ASSUME Len(RootOrigin) = 0 PROVE FALSE
  <2>1. RootOrigin = <<>>
    BY <1>1, <1>2
  <2>2. SubSeq(BackupOrigin, Len(BackupOrigin) + 1, Len(BackupOrigin)) = <<>>
    BY <1>1
  <2> QED
    BY <1>1, <1>2, <2>1, <2>2, OriginsAssumption DEF IsInZone
<1>3. ASSUME Len(BackupOrigin) = 0 PROVE FALSE
  <2>1. BackupOrigin = <<>>
    BY <1>1, <1>3
  <2>2. SubSeq(RootOrigin, Len(RootOrigin) + 1, Len(RootOrigin)) = <<>>
    BY <1>1
  <2> QED
    BY <1>1, <1>3, <2>1, <2>2, OriginsAssumption DEF IsInZone
<1> QED
  BY <1>1, <1>2, <1>3

(* A name in the zone has an occurrence at its end.                        *)
LEMMA SuffixOccurs ==
  ASSUME NEW n \in Name, IsInZone(n, RootOrigin)
  PROVE  Len(n) - Len(RootOrigin) + 1 \in Occurrences(n, RootOrigin)
<1>1. /\ Len(n) \in Nat /\ Len(RootOrigin) \in Nat
      /\ Len(n) >= Len(RootOrigin)
      /\ SubSeq(n, Len(n) - Len(RootOrigin) + 1, Len(n)) = RootOrigin
  BY OriginLengths DEF Name, IsInZone
<1> DEFINE i == Len(n) - Len(RootOrigin) + 1
<1>2. i \in 1..(Len(n) - Len(RootOrigin) + 1) /\ i + Len(RootOrigin) - 1 = Len(n)
  BY <1>1
<1>3. SubSeq(n, i, i + Len(RootOrigin) - 1) = RootOrigin
  BY <1>1, <1>2
<1> QED
  BY <1>2, <1>3 DEF Occurrences

(* What replaces the only occurrence.                                      *)
LEMMA AnywhereSplits ==
  ASSUME NEW n \in Name, OneOccurrence(n), NEW i,
         i \in Occurrences(n, RootOrigin)
  PROVE  /\ i \in 1..(Len(n) - Len(RootOrigin) + 1)
         /\ RewriteNameAnywhere(n, RootOrigin, BackupOrigin)
              = SubSeq(n, 1, i - 1) \o BackupOrigin
                  \o SubSeq(n, i + Len(RootOrigin), Len(n))
<1> DEFINE at == Occurrences(n, RootOrigin)
           m  == CHOOSE x \in at : \A j \in at : x <= j
<1>1. at # {} /\ at \in SUBSET Nat /\ i \in 1..(Len(n) - Len(RootOrigin) + 1)
  <2>1. Len(n) \in Nat /\ Len(RootOrigin) \in Nat
    BY OriginLengths DEF Name
  <2>2. i \in at /\ \A x \in at : x \in 1..(Len(n) - Len(RootOrigin) + 1)
    BY DEF Occurrences
  <2> QED
    BY <2>1, <2>2
<1>2. \E x \in at : \A j \in at : x <= j
  BY <1>1, LeastExists
<1>3. RewriteNameAnywhere(n, RootOrigin, BackupOrigin)
        = SubSeq(n, 1, m - 1) \o BackupOrigin
            \o SubSeq(n, m + Len(RootOrigin), Len(n))
  BY <1>1 DEF RewriteNameAnywhere
<1> HIDE DEF at
<1>4. m \in at
  BY <1>2
<1> HIDE DEF m
<1>5. m = i
  BY <1>4 DEF OneOccurrence, at
<1> QED
  BY <1>1, <1>3, <1>5

(* In the zone, it is the suffix that is replaced.                         *)
LEMMA AnywhereIsSuffix ==
  ASSUME NEW n \in Name, OneOccurrence(n), IsInZone(n, RootOrigin)
  PROVE  RewriteNameAnywhere(n, RootOrigin, BackupOrigin)
           = RewriteName(n, RootOrigin, BackupOrigin)
<1> DEFINE i == Len(n) - Len(RootOrigin) + 1
           p == SubSeq(n, 1, Len(n) - Len(RootOrigin))
<1>0. /\ Len(n) \in Nat /\ Len(RootOrigin) \in Nat
      /\ Len(n) >= Len(RootOrigin) /\ n \in Seq(STRING)
      /\ BackupOrigin \in Seq(STRING)
  BY OriginLengths, OriginsAssumption DEF Name, IsInZone
<1>1. i \in Occurrences(n, RootOrigin)
  BY SuffixOccurs
<1>2. RewriteNameAnywhere(n, RootOrigin, BackupOrigin)
        = SubSeq(n, 1, i - 1) \o BackupOrigin
            \o SubSeq(n, i + Len(RootOrigin), Len(n))
  <2> HIDE DEF i
  <2> QED
    BY <1>1, AnywhereSplits
<1>3. i - 1 = Len(n) - Len(RootOrigin) /\ i + Len(RootOrigin) = Len(n) + 1
  BY <1>0
<1>4. SubSeq(n, Len(n) + 1, Len(n)) = <<>>
  BY <1>0
<1>5. p \in Seq(STRING)
  BY <1>0
<1>6. p \o BackupOrigin \in Seq(STRING)
  BY <1>0, <1>5
<1>7. (p \o BackupOrigin) \o <<>> = p \o BackupOrigin
  <2> HIDE DEF p
  <2> QED
    BY <1>6
<1>8. RewriteName(n, RootOrigin, BackupOrigin) = p \o BackupOrigin
  BY DEF RewriteName
<1> QED
  BY <1>2, <1>3, <1>4, <1>7, <1>8

(* A name that was rewritten does not lie in the root zone.                *)
LEMMA AnywhereLeavesRoot ==
  ASSUME NEW n \in Name, OneOccurrence(n), LastLabelOK
  PROVE  ~IsInZone(RewriteNameAnywhere(n, RootOrigin, BackupOrigin),
                   RootOrigin)
<1> DEFINE R == RootOrigin
           B == BackupOrigin
           x == RewriteNameAnywhere(n, R, B)
<1>0. /\ Len(n) \in Nat /\ Len(R) \in Nat \ {0} /\ Len(B) \in Nat \ {0}
      /\ n \in Seq(STRING) /\ R \in Seq(STRING) /\ B \in Seq(STRING)
  BY OriginLengths, OriginsAssumption DEF Name
<1>1. CASE Occurrences(n, R) = {}
  <2>1. x = n
    BY <1>1 DEF RewriteNameAnywhere
  <2>2. ~IsInZone(n, R)
    BY <1>1, SuffixOccurs
  <2> QED
    BY <2>1, <2>2
<1>2. CASE Occurrences(n, R) # {}
  <2>1. PICK i : i \in Occurrences(n, R)
    BY <1>2
  <2> DEFINE p == SubSeq(n, 1, i - 1)
             q == SubSeq(n, i + Len(R), Len(n))
  <2>2. i \in 1..(Len(n) - Len(R) + 1) /\ x = p \o B \o q
    BY <2>1, AnywhereSplits
  <2>3. /\ p \in Seq(STRING) /\ q \in Seq(STRING)
        /\ Len(p) = i - 1 /\ Len(q) = Len(n) - Len(R) - i + 1
        /\ \A k \in 1..Len(q) : q[k] = n[i + Len(R) - 1 + k]
    BY <1>0, <2>2
  <2> HIDE DEF p, q
  <2>4. /\ x \in Seq(STRING) /\ Len(x) = Len(p) + Len(B) + Len(q)
        /\ Len(p) \in Nat /\ Len(q) \in Nat
        /\ x[Len(p) + Len(B)] = B[Len(B)]
        /\ \A k \in 1..Len(q) : x[Len(p) + Len(B) + k] = q[k]
    <3>1. p \o B \in Seq(STRING) /\ Len(p \o B) = Len(p) + Len(B)
      BY <1>0, <2>3, ConcatProperties
    <3>2. (p \o B)[Len(p) + Len(B)] = B[Len(B)]
      BY <1>0, <2>3
    <3> DEFINE y == p \o B
    <3> HIDE DEF y
    <3>3. /\ y \in Seq(STRING) /\ Len(y) = Len(p) + Len(B)
          /\ y[Len(y)] = B[Len(B)] /\ Len(y) \in Nat \ {0}
      BY <1>0, <2>3, <3>1, <3>2 DEF y
    <3>4. /\ y \o q \in Seq(STRING) /\ Len(y \o q) = Len(y) + Len(q)
          /\ (y \o q)[Len(y)] = y[Len(y)]
          /\ \A k \in 1..Len(q) : (y \o q)[Len(y) + k] = q[k]
      <4>1. /\ y \o q \in Seq(STRING) /\ Len(y \o q) = Len(y) + Len(q)
            /\ \A k \in 1..Len(y) + Len(q) :
                 (y \o q)[k] = IF k <= Len(y) THEN y[k] ELSE q[k - Len(y)]
        <5>1. y \in Seq(STRING) /\ q \in Seq(STRING)
          BY <2>3, <3>3
        <5> QED
          BY <5>1, ConcatProperties, Zenon
      <4>2. Len(q) \in Nat
        BY <2>3
      <4> QED
        BY <3>3, <4>1, <4>2
    <3>5. x = y \o q
      BY <2>2 DEF y
    <3> QED
      BY <2>3, <3>3, <3>4, <3>5
  <2>5. SUFFICES ASSUME IsInZone(x, R) PROVE FALSE
    OBVIOUS
  <2>6. /\ Len(x) >= Len(R)
        /\ \A k \in 1..Len(R) : R[k] = x[Len(x) - Len(R) + k]
    <3>1. x \in Name /\ R \in Name
      BY <1>0, <2>4 DEF Name
    <3> HIDE DEF x
    <3> QED
      BY <2>5, <3>1, SuffixLabels DEF IsInZone
  <2> HIDE DEF x
  <2>7. CASE Len(q) = 0
    <3>1. q = <<>>
      BY <2>3, <2>7
    <3>2. x = p \o B
      <4>1. p \o B \in Seq(STRING)
        BY <1>0, <2>3
      <4> QED
        BY <2>2, <3>1, <4>1
    <3>3. x \in Name /\ IsInZone(x, B)
      <4>1. p \in Name /\ B \in Name
        BY <1>0, <2>3 DEF Name
      <4> QED
        BY <3>2, <4>1, PrefixInZone
    <3> QED
      BY <2>5, <3>3, OneZone
  <2>8. CASE Len(q) >= Len(R)
    <3> DEFINE j == Len(n) - Len(R) + 1
               s == SubSeq(n, j, j + Len(R) - 1)
    <3>1. j \in 1..(Len(n) - Len(R) + 1) /\ j # i
      BY <1>0, <2>2, <2>3, <2>8
    <3>2. s \in Seq(STRING) /\ Len(s) = Len(R)
          /\ \A k \in 1..Len(R) : s[k] = n[Len(n) - Len(R) + k]
      BY <1>0, <2>2, <2>3, <2>8
    <3>3. ASSUME NEW k \in 1..Len(R)
          PROVE  s[k] = R[k]
      <4> DEFINE l == Len(q) - Len(R) + k
      <4>1. /\ l \in 1..Len(q)
            /\ Len(p) + Len(B) + l = Len(x) - Len(R) + k
            /\ i + Len(R) - 1 + l = Len(n) - Len(R) + k
        BY <1>0, <2>2, <2>3, <2>4, <2>8
      <4> HIDE DEF l
      <4>2. x[Len(x) - Len(R) + k] = q[l]
        BY <2>4, <4>1
      <4>3. q[l] = n[Len(n) - Len(R) + k]
        BY <2>3, <4>1
      <4> HIDE DEF s
      <4> QED
        BY <2>6, <3>2, <4>2, <4>3
    <3>4. s = R
      <4> HIDE DEF s
      <4> QED
        BY <1>0, <3>2, <3>3, SeqEqual
    <3>5. j \in Occurrences(n, R)
      BY <3>1, <3>4 DEF Occurrences
    <3> QED
      BY <2>1, <3>1, <3>5 DEF OneOccurrence
  <2>9. CASE Len(q) # 0 /\ Len(q) < Len(R)
    <3> DEFINE k == Len(R) - Len(q)
    <3>1. /\ k \in 1..(Len(R) - 1) /\ k \in 1..Len(R)
          /\ Len(x) - Len(R) + k = Len(p) + Len(B)
      BY <1>0, <2>4, <2>9
    <3>2. R[k] = B[Len(B)]
      <4> HIDE DEF k
      <4> QED
        BY <2>4, <2>6, <3>1
    <3> QED
      BY <3>1, <3>2 DEF LastLabelOK
  <2> QED
    BY <1>0, <2>4, <2>7, <2>8, <2>9
<1> QED
  BY <1>1, <1>2
----------------------------------------------------------------------------
(* Where the records of a backup's answer come from.                       *)
LEMMA BackupStageRRs ==
  ASSUME GoodState, NEW n \in Name, IsInZone(n, BackupOrigin), NEW t,
         NEW cf \in BOOLEAN
  PROVE  LET b == BackupStage(n, t, cf, store).rrs
         IN \/ b = Lookup(over, n, t)
            \/ b = <<TokenRR(n)>>
            \/ b = <<backupSOA>> /\ n = BackupOrigin
            \/ \E r : Walk(r, AtRoot(n)) /\ b = Rw(r)
<1> DEFINE at == AtRoot(n)
           B  == BackupStage(n, t, cf, store)
           b  == B.rrs
<1>0. /\ GoodZone(root, RootOrigin) /\ at \in Name
      /\ RewriteName(at, RootOrigin, BackupOrigin) = n
  BY AtRootFacts DEF GoodState
<1>1. CASE t = "TXT" /\ n \in store
  <2> DEFINE L == Lookup(root, at, t)
             w == RewriteRRs(L, RootOrigin, BackupOrigin, labels)
  <2>1. b = IF Overridden(n, t) THEN Lookup(over, n, t)
            ELSE IF L # <<>> THEN w ELSE <<TokenRR(n)>>
    BY <1>1, BackupSeesTXT
  <2>2. OfType(L, t) /\ OfOwner(L, at) /\ (L # <<>> => IsRRset(root, L, t))
    BY <1>0, LookupFacts, LookupIsRRset
  <2> HIDE DEF L, b, B
  <2>3. t \notin Uncovered
    BY <1>1 DEF Uncovered
  <2>4. Kept(L) = L
    BY <2>2, <2>3, UniformKept
  <2>5. w = Rw(L)
    BY <2>4, Zenon DEF Rw
  <2>6. L # <<>> => Walk(L, at)
    <3>1. L # <<>> => \A i \in DOMAIN L : FromZone(root, L[i])
      BY <1>0, <2>2, InitialGood
    <3> QED
      BY <2>2, <3>1, UniformWalk
  <2> HIDE DEF w
  <2>7. \/ b = Lookup(over, n, t) \/ b = <<TokenRR(n)>>
        \/ Walk(L, at) /\ b = Rw(L)
    BY <2>1, <2>5, <2>6
  <2> QED
    BY <2>7 DEF b, B
<1>2. CASE Overridden(n, t)
  <2> DEFINE O == Lookup(over, n, t)
  <2>1. O # <<>> /\ t \in Overridable
    BY <1>2 DEF Overridden
  <2>2. t # "SOA" /\ t # "CNAME"
    BY <2>1 DEF Overridable
  <2>3. ApexSOA(n, t, backupSOA) = Miss
    BY <2>2, Zenon DEF ApexSOA
  <2>4. BackupExact(n, t, cf) = Found(O, {})
    BY <1>2, <2>2, BackupExactIs, Zenon
  <2>5. Found(O, {}) # Miss /\ Found(O, {}).rrs = O
    BY <2>1, FoundFacts
  <2>6. B = Found(O, {})
    BY <2>3, <2>4, <2>5, BackupStageIs, Zenon
  <2> QED
    BY <2>5, <2>6
<1>3. CASE ~Overridden(n, t) /\ ~(t = "TXT" /\ n \in store)
  <2> DEFINE r == RootStage(at, t, cf, {}).rrs
  <2>1. b = MirrorRRs(r)
    BY <1>3, StageMirrors
  <2>2. Walk(r, at) \/ (r = <<SOA>> /\ at = RootOrigin)
    <3>1. \/ Walk(r, at) \/ (r = <<SOA>> /\ at = RootOrigin)
          \/ r = <<TokenRR(at)>> /\ t = "TXT" /\ at \in {}
      <4> DEFINE none == {}
      <4> HIDE DEF at, none
      <4>1. LET q == RootStage(at, t, cf, none).rrs
            IN \/ Walk(q, at) \/ (q = <<SOA>> /\ at = RootOrigin)
               \/ q = <<TokenRR(at)>> /\ t = "TXT" /\ at \in none
        <5>1. at \in Name
          BY <1>0
        <5> QED
          BY <5>1, RootStageWalk
      <4> QED
        BY <4>1 DEF none
    <3> QED
      BY <3>1
  <2> HIDE DEF r, b, B
  <2>3. CASE r = <<SOA>>
    <3>1. at = RootOrigin
      <4>1. CASE Walk(r, at)
        <5>1. 1 \in DOMAIN r /\ r[1] = SOA
          BY <2>3
        <5>2. Linked(r, 1, at, RootOrigin)
          BY <4>1, <5>1 DEF Walk
        <5>3. r[1].owner = at
          BY <5>2 DEF Linked
        <5> QED
          BY <5>1, <5>3, SOAAssumption
      <4> QED
        BY <2>2, <4>1
    <3>2. n = BackupOrigin
      <4>1. IsInZone(BackupOrigin, BackupOrigin) /\ BackupOrigin \in Name
        BY OriginsAssumption DEF IsInZone, Name
      <4>2. RewriteName(RootOrigin, RootOrigin, BackupOrigin) = BackupOrigin
        BY <4>1, BackupApex, AtRootFacts
      <4> QED
        BY <1>0, <3>1, <4>2
    <3>3. b = <<backupSOA>>
      BY <2>1, <2>3 DEF MirrorRRs
    <3> QED
      BY <3>2, <3>3 DEF b, B
  <2>4. CASE r # <<SOA>>
    <3>1. b = Rw(r) /\ Walk(r, at)
      BY <2>1, <2>2, <2>4 DEF MirrorRRs, Rw
    <3> QED
      BY <3>1 DEF b, B
  <2> QED
    BY <2>3, <2>4
<1> QED
  BY <1>1, <1>2, <1>3

(* No rewritten record names the root domain.                              *)
LEMMA MarkedOnce ==
  ASSUME SingleMarker, labels, NEW rr, FromZone(root, rr)
  PROVE  OneOccurrence(rr.data) /\ LastLabelOK
<1>1. PICK k \in DOMAIN root.rrs : \E i \in DOMAIN root.rrs[k] :
        rr.data = root.rrs[k][i].data
  BY DEF FromZone
<1>2. PICK i \in DOMAIN root.rrs[k] : rr.data = root.rrs[k][i].data
  BY <1>1
<1>3. OneOccurrence(root.rrs[k][i].data)
  BY Zenon DEF SingleMarker, OneOccurrence
<1>4. LastLabelOK
  BY Zenon DEF SingleMarker, LastLabelOK
<1> QED
  BY <1>2, <1>3, <1>4

LEMMA RewrittenSafe ==
  ASSUME GoodState, SingleMarker, NEW rr \in Record, FromZone(root, rr),
         rr.type \notin Uncovered
  PROVE  ~LeaksRoot(RewriteRR(rr, RootOrigin, BackupOrigin, labels))
<1> DEFINE x == RewriteRR(rr, RootOrigin, BackupOrigin, labels)
           d == NewData(rr, RootOrigin, BackupOrigin, labels)
<1>0. rr.owner \in Name /\ rr.data \in Name
  BY DEF Record
<1>1. labels \in BOOLEAN
  BY DEF GoodState
<1>2. x = [owner |-> RewriteName(rr.owner, RootOrigin, BackupOrigin),
           type |-> rr.type, data |-> d, ttl |-> rr.ttl]
  BY <1>1, OriginsAssumption, RewriteRRFacts
<1>3. rr.type \in Covered => ~IsInZone(d, RootOrigin)
  <2>1. ASSUME rr.type \in Covered, labels
        PROVE  ~IsInZone(d, RootOrigin)
    <3>1. d = RewriteNameAnywhere(rr.data, RootOrigin, BackupOrigin)
      BY <2>1, Zenon DEF NewData
    <3>2. OneOccurrence(rr.data) /\ LastLabelOK
      BY <2>1, MarkedOnce
    <3> HIDE DEF d
    <3> QED
      BY <1>0, <3>1, <3>2, AnywhereLeavesRoot
  <2>2. ASSUME rr.type \in Covered, ~labels
        PROVE  ~IsInZone(d, RootOrigin)
    <3>1. d = RewriteName(rr.data, RootOrigin, BackupOrigin)
      BY <2>2, Zenon DEF NewData
    <3> HIDE DEF d
    <3> QED
      BY <1>0, <3>1, RewrittenLeavesRoot
  <2> QED
    BY <2>1, <2>2
<1> HIDE DEF d
<1>4. /\ x.owner = RewriteName(rr.owner, RootOrigin, BackupOrigin)
      /\ x.type = rr.type /\ x.data = d
  BY <1>2
<1> HIDE DEF x
<1>5. ~IsInZone(x.owner, RootOrigin)
  BY <1>0, <1>4, RewrittenLeavesRoot
<1>6. ~LeaksRoot(x)
  BY <1>3, <1>4, <1>5 DEF LeaksRoot
<1> QED
  BY <1>6 DEF x

LEMMA RwSafe ==
  ASSUME GoodState, SingleMarker, NEW s \in Seq(Record),
         \A i \in DOMAIN s : FromZone(root, s[i])
  PROVE  /\ Rw(s) \in Seq(Record)
         /\ \A rr \in Range(Rw(s)) : ~LeaksRoot(rr)
<1> DEFINE k == Kept(s)
           w == RewriteRRs(k, RootOrigin, BackupOrigin, labels)
<1>0. labels \in BOOLEAN /\ RootOrigin \in Name /\ BackupOrigin \in Name
  BY OriginsAssumption DEF GoodState
<1>1. k \in Seq(Record)
  BY KeptFacts
<1>2. ASSUME NEW i \in DOMAIN k
      PROVE  ~LeaksRoot(RewriteRR(k[i], RootOrigin, BackupOrigin, labels))
  <2>1. /\ k[i] \in Record /\ k[i].type \notin Uncovered
        /\ \E j \in DOMAIN s : k[i] = s[j]
    BY KeptFacts
  <2>2. FromZone(root, k[i])
    BY <2>1
  <2> HIDE DEF k
  <2> QED
    BY <2>1, <2>2, RewrittenSafe
<1>3. Rw(s) = w
  BY Zenon DEF Rw
<1> HIDE DEF k
<1>4. w \in Seq(Record) /\ DOMAIN w = DOMAIN k
  BY <1>0, <1>1, RewriteRRsFacts
<1>5. \A i \in DOMAIN k :
        w[i] = RewriteRR(k[i], RootOrigin, BackupOrigin, labels)
  BY DEF RewriteRRs
<1> HIDE DEF w
<1> QED
  BY <1>2, <1>3, <1>4, <1>5 DEF Range

LEMMA SOASafe ==
  /\ backupSOA \in Record /\ ~LeaksRoot(backupSOA)
  /\ ~LeaksRoot(cappedSOA(backupSOA))
<1> DEFINE x == backupSOA
<1>1. /\ x.owner = BackupOrigin /\ x \in Record
      /\ x.data = RewriteName(SOA.data, RootOrigin, BackupOrigin)
  <2>1. x.owner = BackupOrigin /\ x \in Record
    BY BackupApex
  <2>2. x.data = RewriteName(SOA.data, RootOrigin, BackupOrigin)
    BY SOAAssumption DEF backupSOA, BackupSOA, Record
  <2> QED
    BY <2>1, <2>2
<1>2. SOA.data \in Name
  BY SOAAssumption DEF Record
<1>3. cappedSOA(x).owner = x.owner /\ cappedSOA(x).data = x.data
  <2> HIDE DEF x
  <2> QED
    BY <1>1 DEF cappedSOA, Record
<1>4. ~IsInZone(x.owner, RootOrigin) /\ ~IsInZone(x.data, RootOrigin)
  BY <1>1, <1>2, RewrittenLeavesRoot, OriginsAssumption
<1> QED
  BY <1>1, <1>3, <1>4 DEF LeaksRoot

LEMMA OverrideRecords ==
  ASSUME GoodState, NEW n, NEW t
  PROVE  /\ Lookup(over, n, t) \in Seq(Record)
         /\ \A rr \in Range(Lookup(over, n, t)) : FromOverride(rr)
<1> DEFINE L == Lookup(over, n, t)
<1>1. OfType(L, t) /\ OfOwner(L, n)
  BY LookupFacts DEF GoodState
<1>2. ASSUME NEW rr \in Range(L) PROVE FromOverride(rr)
  <2>1. rr.owner = n /\ rr.type = t
    <3> HIDE DEF L
    <3> QED
      BY <1>1 DEF Range, OfType, OfOwner
  <2> QED
    BY <2>1 DEF FromOverride
<1> QED
  BY <1>1, <1>2 DEF OfType

LEMMA TokenSafe ==
  ASSUME NEW n \in Name, IsInZone(n, BackupOrigin)
  PROVE  ~LeaksRoot(TokenRR(n))
<1>1. TokenRR(n).owner = n /\ TokenRR(n).type = "TXT"
  BY DEF TokenRR
<1>2. ~IsInZone(n, RootOrigin)
  BY OneZone
<1>3. "TXT" \notin Covered \cup Uncovered
  BY DEF Covered, Uncovered
<1> QED
  BY <1>1, <1>2, <1>3 DEF LeaksRoot

LEMMA StageSafe ==
  ASSUME GoodState, SingleMarker, NEW n \in Name, IsInZone(n, BackupOrigin),
         NEW t, NEW cf \in BOOLEAN
  PROVE  LET b == BackupStage(n, t, cf, store).rrs
         IN \A rr \in Range(b) : LeaksRoot(rr) => FromOverride(rr)
<1> DEFINE b == BackupStage(n, t, cf, store).rrs
<1>1. \/ b = Lookup(over, n, t)
      \/ b = <<TokenRR(n)>>
      \/ b = <<backupSOA>> /\ n = BackupOrigin
      \/ \E r : Walk(r, AtRoot(n)) /\ b = Rw(r)
  BY BackupStageRRs
<1> SUFFICES \A rr \in Range(b) : LeaksRoot(rr) => FromOverride(rr)
  OBVIOUS
<1> HIDE DEF b
<1>2. CASE b = Lookup(over, n, t)
  BY <1>2, OverrideRecords
<1>3. CASE b = <<TokenRR(n)>>
  <2>1. Range(<<TokenRR(n)>>) = {TokenRR(n)}
    BY DEF Range
  <2> QED
    BY <1>3, <2>1, TokenSafe
<1>4. CASE b = <<backupSOA>>
  <2>1. Range(<<backupSOA>>) = {backupSOA}
    BY DEF Range
  <2> QED
    BY <1>4, <2>1, SOASafe
<1>5. CASE \E r : Walk(r, AtRoot(n)) /\ b = Rw(r)
  <2>1. PICK r : Walk(r, AtRoot(n)) /\ b = Rw(r)
    BY <1>5
  <2>2. r \in Seq(Record) /\ \A i \in DOMAIN r : FromZone(root, r[i])
    BY <2>1 DEF Walk
  <2> QED
    BY <2>1, <2>2, RwSafe
<1> QED
  BY <1>1, <1>2, <1>3, <1>4, <1>5

LEMMA StageIsSequence ==
  ASSUME GoodState, SingleMarker, NEW n \in Name, IsInZone(n, BackupOrigin),
         NEW t, NEW cf \in BOOLEAN
  PROVE  \E S : BackupStage(n, t, cf, store).rrs \in Seq(S)
<1> DEFINE b == BackupStage(n, t, cf, store).rrs
<1>1. \/ b = Lookup(over, n, t)
      \/ b = <<TokenRR(n)>>
      \/ b = <<backupSOA>> /\ n = BackupOrigin
      \/ \E r : Walk(r, AtRoot(n)) /\ b = Rw(r)
  BY BackupStageRRs
<1> HIDE DEF b
<1>2. CASE b = Lookup(over, n, t)
  BY <1>2, OverrideRecords DEF b
<1>3. CASE b = <<TokenRR(n)>>
  <2> DEFINE x == TokenRR(n)
  <2> HIDE DEF x
  <2>1. <<x>> \in Seq({x})
    OBVIOUS
  <2> QED
    BY <1>3, <2>1 DEF b, x
<1>4. CASE b = <<backupSOA>>
  <2> DEFINE x == backupSOA
  <2> HIDE DEF x
  <2>1. <<x>> \in Seq({x})
    OBVIOUS
  <2> QED
    BY <1>4, <2>1 DEF b, x
<1>5. CASE \E r : Walk(r, AtRoot(n)) /\ b = Rw(r)
  <2>1. PICK r : Walk(r, AtRoot(n)) /\ b = Rw(r)
    BY <1>5
  <2>2. r \in Seq(Record) /\ \A i \in DOMAIN r : FromZone(root, r[i])
    BY <2>1 DEF Walk
  <2>3. b \in Seq(Record)
    BY <2>1, <2>2, RwSafe
  <2> QED
    BY <2>3 DEF b
<1> QED
  BY <1>1, <1>2, <1>3, <1>4, <1>5

LEMMA InvNoRootLeak == ResolveInv => NoRootLeak
<1> SUFFICES ASSUME ResolveInv, SingleMarker
             PROVE  /\ ForBackup =>
                         \A rr \in Range(out.reply.answer \o out.reply.ns) :
                           LeaksRoot(rr) => FromOverride(rr)
                    /\ out.kind = "xfer" /\ out.origin = BackupOrigin =>
                         \A rr \in out.records \cup {out.soa} :
                           LeaksRoot(rr) => FromOverride(rr)
  BY DEF NoRootLeak
<1>0. GoodState /\ GoodZone(root, RootOrigin)
  BY DEF ResolveInv, GoodState
<1>1. ASSUME ForBackup,
             NEW rr \in Range(out.reply.answer \o out.reply.ns),
             LeaksRoot(rr)
      PROVE  FromOverride(rr)
  <2> DEFINE n == out.qname
             t == out.qtype
             b == BackupStage(n, t, collapse, store).rrs
  <2>1. /\ n \in Name /\ IsInZone(n, BackupOrigin)
        /\ out.reply = Respond(n, t, collapse, store)
    BY <1>1 DEF ResolveInv, ForBackup, Replied, GoodReply
  <2>2. collapse \in BOOLEAN
    BY <1>0 DEF GoodState
  <2> HIDE DEF n, t
  <2>3. Respond(n, t, collapse, store)
          = IF b # <<>> THEN Reply("NOERROR", b, <<>>)
            ELSE Negative(IF backupZoneHasName(n) THEN "NOERROR"
                          ELSE "NXDOMAIN", backupSOA)
    BY <2>1, RespondBackup, Zenon
  <2>4. \A x \in Range(b) : LeaksRoot(x) => FromOverride(x)
    BY <1>0, <2>1, <2>2, StageSafe
  <2>5. PICK S : b \in Seq(S)
    BY <1>0, <2>1, <2>2, StageIsSequence
  <2> HIDE DEF b
  <2>6. CASE b # <<>>
    <3>1. out.reply = Reply("NOERROR", b, <<>>)
      BY <2>1, <2>3, <2>6
    <3>2. out.reply.answer = b /\ out.reply.ns = <<>>
      BY <3>1, ReplyFacts
    <3>3. b \o <<>> = b
      BY <2>5
    <3> QED
      BY <1>1, <2>4, <3>2, <3>3
  <2>7. CASE b = <<>>
    <3> DEFINE c == cappedSOA(backupSOA)
               rc == IF backupZoneHasName(n) THEN "NOERROR" ELSE "NXDOMAIN"
    <3>1. out.reply = Reply(rc, <<>>, <<c>>)
      BY <2>1, <2>3, <2>7, Zenon DEF Negative
    <3> HIDE DEF c, rc
    <3>2. out.reply.answer = <<>> /\ out.reply.ns = <<c>>
      BY <3>1, ReplyFacts
    <3>3. <<>> \o <<c>> = <<c>> /\ Range(<<c>>) = {c}
      BY DEF Range
    <3>4. rr = c
      BY <1>1, <3>2, <3>3
    <3> QED
      BY <1>1, <3>4, SOASafe DEF c
  <2> QED
    BY <2>6, <2>7
<1>2. ASSUME out.kind = "xfer", out.origin = BackupOrigin,
             NEW rr \in out.records \cup {out.soa}, LeaksRoot(rr)
      PROVE  FromOverride(rr)
  <2>1. out.soa = backupSOA /\ out.records = buildAliasRecords
    BY <1>2 DEF ResolveInv, GoodTransfer
  <2>2. rr # out.soa
    BY <1>2, <2>1, SOASafe
  <2>3. PICK k \in DOMAIN root.rrs : rr \in Range(AliasRRset(k))
    BY <1>2, <2>1, <2>2 DEF buildAliasRecords
  <2> DEFINE o == RewriteName(k[1], RootOrigin, BackupOrigin)
  <2>4. \/ AliasRRset(k) = Lookup(over, o, k[2])
        \/ AliasRRset(k) = Rw(root.rrs[k])
    BY Zenon DEF AliasRRset, Rw
  <2>5. /\ root.rrs[k] \in Seq(Record)
        /\ \A i \in DOMAIN root.rrs[k] : FromZone(root, root.rrs[k][i])
    <3>1. root.rrs[k] \in Seq(Record)
      BY <1>0 DEF GoodZone, GoodRRset
    <3> QED
      BY <3>1 DEF FromZone
  <2>6. \A x \in Range(Rw(root.rrs[k])) : ~LeaksRoot(x)
    BY <1>0, <2>5, RwSafe
  <2>7. \A x \in Range(Lookup(over, o, k[2])) : FromOverride(x)
    BY <1>0, OverrideRecords
  <2> HIDE DEF o
  <2> QED
    BY <1>2, <2>3, <2>4, <2>6, <2>7
<1> QED
  BY <1>1, <1>2

(* No response for a backup, zone transfer included, names the root domain *)
(* other than in a record of the backup's own file.                        *)
THEOREM ResolveNoRootLeak == Spec => []NoRootLeak
  BY ResolveInvariance, InvNoRootLeak, PTL
----------------------------------------------------------------------------
(* A resolver can walk the answer section.                                 *)
Connected(a, n) ==
  \A i \in DOMAIN a :
    \/ a[i].owner = n
    \/ \E j \in 1..(i - 1) : a[j].type = "CNAME" /\ a[j].data = a[i].owner

LEMMA WalkConnected ==
  ASSUME NEW s, NEW n, Walk(s, n)
  PROVE  Connected(s, n)
  BY DEF Walk, Linked, Connected

LEMMA OwnedConnected ==
  ASSUME NEW s, NEW n, OfOwner(s, n)
  PROVE  Connected(s, n)
  BY DEF OfOwner, Connected

(* The target of a CNAME in the zone is rewritten as an owner is, whatever *)
(* the group's flag.                                                       *)
LEMMA TargetRewritten ==
  ASSUME GoodState, SingleMarker, NEW rr \in Record, FromZone(root, rr),
         rr.type = "CNAME", IsInZone(rr.data, RootOrigin)
  PROVE  NewData(rr, RootOrigin, BackupOrigin, labels)
           = RewriteName(rr.data, RootOrigin, BackupOrigin)
<1>0. rr.data \in Name
  BY DEF Record
<1>1. rr.type \in Covered
  BY DEF Covered
<1>2. CASE labels
  <2>1. NewData(rr, RootOrigin, BackupOrigin, labels)
          = RewriteNameAnywhere(rr.data, RootOrigin, BackupOrigin)
    BY <1>1, <1>2, Zenon DEF NewData
  <2>2. OneOccurrence(rr.data)
    BY <1>2, MarkedOnce
  <2>3. RewriteNameAnywhere(rr.data, RootOrigin, BackupOrigin)
          = RewriteName(rr.data, RootOrigin, BackupOrigin)
    BY <1>0, <2>2, AnywhereIsSuffix
  <2> QED
    BY <2>1, <2>3, Zenon
<1>3. CASE ~labels
  BY <1>1, <1>3, Zenon DEF NewData
<1> QED
  BY <1>2, <1>3

LEMMA RwConnected ==
  ASSUME GoodState, SingleMarker, NEW n \in Name, IsInZone(n, BackupOrigin),
         NEW r, Walk(r, AtRoot(n))
  PROVE  Connected(Rw(r), n)
<1> DEFINE k == Kept(r)
           w == RewriteRRs(k, RootOrigin, BackupOrigin, labels)
           New(name) == RewriteName(name, RootOrigin, BackupOrigin)
<1>0. RootOrigin \in Name /\ BackupOrigin \in Name /\ r \in Seq(Record)
  BY OriginsAssumption DEF Walk
<1>1. labels \in BOOLEAN
  BY DEF GoodState
<1>2. PICK pos : Selected(r, Len(r), k, pos)
  BY <1>0, KeptSelects
<1>3. Rw(r) = w
  BY Zenon DEF Rw
<1> HIDE DEF k
<1>4. /\ k \in Seq(Record) /\ DOMAIN k = 1..Len(k) /\ Len(k) \in Nat
      /\ DOMAIN r = 1..Len(r) /\ Len(r) \in Nat
      /\ \A i \in DOMAIN k : pos[i] \in DOMAIN r /\ k[i] = r[pos[i]]
  BY <1>0, <1>2 DEF Selected
<1>5. DOMAIN w = DOMAIN k
  BY DEF RewriteRRs
<1>6. ASSUME NEW i \in DOMAIN k
      PROVE  /\ k[i] \in Record
             /\ w[i].owner = New(k[i].owner) /\ w[i].type = k[i].type
             /\ w[i].data = NewData(k[i], RootOrigin, BackupOrigin, labels)
  <2>1. k[i] \in Record
    BY <1>4
  <2>2. w[i] = RewriteRR(k[i], RootOrigin, BackupOrigin, labels)
    BY DEF RewriteRRs
  <2> HIDE DEF w
  <2>3. w[i] = [owner |-> New(k[i].owner), type |-> k[i].type,
                data |-> NewData(k[i], RootOrigin, BackupOrigin, labels),
                ttl |-> k[i].ttl]
    BY <1>0, <1>1, <2>1, <2>2, RewriteRRFacts
  <2> QED
    BY <2>1, <2>3
<1> HIDE DEF w, New
<1>7. ASSUME NEW i \in DOMAIN k
      PROVE  \/ w[i].owner = n
             \/ \E j \in 1..(i - 1) :
                  w[j].type = "CNAME" /\ w[j].data = w[i].owner
  <2>1. Linked(r, pos[i], AtRoot(n), RootOrigin)
    BY <1>4 DEF Walk
  <2>2. CASE r[pos[i]].owner = AtRoot(n)
    <3>1. w[i].owner = New(AtRoot(n))
      BY <1>4, <1>6, <2>2
    <3> QED
      BY <3>1, AtRootFacts DEF New
  <2>3. CASE r[pos[i]].owner # AtRoot(n)
    <3>1. PICK j \in 1..(pos[i] - 1) :
            /\ r[j].type = "CNAME" /\ r[j].data = r[pos[i]].owner
            /\ IsInZone(r[j].data, RootOrigin)
      BY <2>1, <2>3 DEF Linked
    <3>2. j \in 1..Len(r) /\ j < pos[i] /\ pos[i] \in 1..Len(r)
      BY <1>4, <3>1
    <3>3. r[j].type \notin Uncovered
      BY <3>1 DEF Uncovered
    <3>4. PICK a \in 1..Len(k) : pos[a] = j
      BY <1>2, <3>2, <3>3 DEF Selected
    <3>5. a < i
      <4>1. a # i /\ ~(i < a)
        <5>1. i \in 1..Len(k) /\ (i < a => pos[i] < pos[a])
          BY <1>2, <1>4 DEF Selected
        <5> QED
          BY <3>2, <3>4, <5>1
      <4> QED
        BY <1>4, <4>1
    <3>6. a \in 1..(i - 1) /\ a \in DOMAIN k
      BY <1>4, <3>5
    <3>7. k[a] = r[j] /\ k[a] \in Record /\ FromZone(root, k[a])
      BY <1>4, <1>6, <3>2, <3>4, <3>6 DEF Walk
    <3>8. NewData(k[a], RootOrigin, BackupOrigin, labels) = New(k[a].data)
      BY <3>1, <3>7, TargetRewritten DEF New
    <3>9. k[a].data = k[i].owner /\ k[a].type = "CNAME"
      BY <1>4, <3>1, <3>7
    <3>10. w[a].type = "CNAME" /\ w[a].data = w[i].owner
      BY <1>6, <3>6, <3>8, <3>9
    <3> QED
      BY <3>6, <3>10
  <2> QED
    BY <2>2, <2>3
<1>8. Connected(w, n)
  BY <1>5, <1>7 DEF Connected
<1> QED
  BY <1>3, <1>8

LEMMA SingleConnected ==
  ASSUME NEW x, NEW n, x.owner = n
  PROVE  Connected(<<x>>, n)
  BY DEF Connected

LEMMA InvChainConnected == ResolveInv => ChainConnected
<1> SUFFICES ASSUME ResolveInv, SingleMarker, Replied
             PROVE  Connected(out.reply.answer, out.qname)
  BY DEF ChainConnected, Connected
<1> DEFINE n == out.qname
           t == out.qtype
           a == out.reply.answer
<1>0. /\ GoodState /\ n \in Name
      /\ out.reply = Respond(n, t, collapse, store)
  BY DEF ResolveInv, Replied, GoodReply
<1>1. collapse \in BOOLEAN
  BY <1>0 DEF GoodState
<1>2. a = Respond(n, t, collapse, store).answer
  BY <1>0
<1> SUFFICES Connected(a, n)
  OBVIOUS
<1> HIDE DEF a, n, t
<1>3. Connected(<<>>, n)
  BY DEF Connected
<1>4. TokenRR(n).owner = n
  BY DEF TokenRR
<1>5. CASE IsInZone(n, BackupOrigin)
  <2> DEFINE b == BackupStage(n, t, collapse, store).rrs
  <2>1. a = <<>> \/ a = b
    <3>1. Respond(n, t, collapse, store)
            = IF b # <<>> THEN Reply("NOERROR", b, <<>>)
              ELSE Negative(IF backupZoneHasName(n) THEN "NOERROR"
                            ELSE "NXDOMAIN", backupSOA)
      BY <1>0, <1>5, RespondBackup, Zenon
    <3> HIDE DEF b
    <3>2. \/ Respond(n, t, collapse, store) = Reply("NOERROR", b, <<>>)
          \/ \E rc : Respond(n, t, collapse, store)
                       = Reply(rc, <<>>, <<cappedSOA(backupSOA)>>)
      BY <3>1, Zenon DEF Negative
    <3> QED
      BY <1>2, <3>2, ReplyFacts
  <2>2. \/ b = Lookup(over, n, t)
        \/ b = <<TokenRR(n)>>
        \/ b = <<backupSOA>> /\ n = BackupOrigin
        \/ \E r : Walk(r, AtRoot(n)) /\ b = Rw(r)
    BY <1>0, <1>1, <1>5, BackupStageRRs
  <2> HIDE DEF b
  <2>3. Connected(Lookup(over, n, t), n)
    <3>1. OfOwner(Lookup(over, n, t), n)
      BY <1>0, LookupFacts DEF GoodState
    <3> QED
      BY <3>1, OwnedConnected
  <2>4. Connected(<<TokenRR(n)>>, n)
    BY <1>4, SingleConnected
  <2>5. n = BackupOrigin => Connected(<<backupSOA>>, n)
    BY BackupApex, SingleConnected
  <2>6. \A r : Walk(r, AtRoot(n)) => Connected(Rw(r), n)
    BY <1>0, <1>5, RwConnected
  <2> QED
    BY <1>3, <2>1, <2>2, <2>3, <2>4, <2>5, <2>6
<1>6. CASE IsInZone(n, RootOrigin)
  <2> DEFINE r == RootStage(n, t, collapse, store).rrs
             has == n \in Owners(root) \/ HasWildcard(root, n)
  <2>1. a = <<>> \/ a = r
    <3>1. Respond(n, t, collapse, store)
            = IF r # <<>> THEN Reply("NOERROR", r, <<>>)
              ELSE Negative(IF has THEN "NOERROR" ELSE "NXDOMAIN", SOA)
      BY <1>0, <1>6, RespondRoot, Zenon
    <3> HIDE DEF r
    <3>2. \/ Respond(n, t, collapse, store) = Reply("NOERROR", r, <<>>)
          \/ \E rc : Respond(n, t, collapse, store)
                       = Reply(rc, <<>>, <<cappedSOA(SOA)>>)
      BY <3>1, Zenon DEF Negative
    <3> QED
      BY <1>2, <3>2, ReplyFacts
  <2>2. \/ Walk(r, n)
        \/ r = <<SOA>> /\ n = RootOrigin
        \/ r = <<TokenRR(n)>>
    BY <1>0, <1>1, RootStageWalk
  <2> HIDE DEF r
  <2>3. n = RootOrigin => Connected(<<SOA>>, n)
    BY SOAAssumption, SingleConnected
  <2>4. Connected(<<TokenRR(n)>>, n)
    BY <1>4, SingleConnected
  <2>5. Walk(r, n) => Connected(r, n)
    BY WalkConnected
  <2> QED
    BY <1>3, <2>1, <2>2, <2>3, <2>4, <2>5
<1>7. CASE ~IsInZone(n, RootOrigin) /\ ~IsInZone(n, BackupOrigin)
  <2>1. Respond(n, t, collapse, store) = Reply("REFUSED", <<>>, <<>>)
    BY <1>0, <1>7, RespondOutside
  <2>2. a = <<>>
    BY <1>2, <2>1, ReplyFacts
  <2> QED
    BY <1>3, <2>2
<1> QED
  BY <1>5, <1>6, <1>7

(* Every record of an answer is at the query name or at the target of a    *)
(* CNAME before it, for the root and, rewritten, for the backup.           *)
THEOREM ResolveChainConnected == Spec => []ChainConnected
  BY ResolveInvariance, InvChainConnected, PTL
----------------------------------------------------------------------------
(* Collapsing a chain agrees with following it.  Both loops are run side   *)
(* by side: as long as one chases, so does the other.                      *)
LEMMA JoinIs ==
  ASSUME NEW a \in Seq(Record), NEW w \in Seq(Record)
  PROVE  LET r == a \o w
         IN /\ r \in Seq(Record)
            /\ w = <<>> => r = a
            /\ a # <<>> => r # <<>>
            /\ w # <<>> => r[Len(r)] = w[Len(w)]
            /\ \A j \in DOMAIN r : \/ \E i \in DOMAIN a : r[j] = a[i]
                                   \/ \E i \in DOMAIN w : r[j] = w[i]
            /\ \A i \in DOMAIN a : \E j \in DOMAIN r : r[j] = a[i]
            /\ \A i \in DOMAIN w : \E j \in DOMAIN r : r[j] = w[i]
<1> DEFINE r == a \o w
<1>1. /\ Len(a) \in Nat /\ Len(w) \in Nat /\ r \in Seq(Record)
      /\ DOMAIN a = 1..Len(a) /\ DOMAIN w = 1..Len(w)
      /\ DOMAIN r = 1..Len(r) /\ Len(r) = Len(a) + Len(w)
      /\ \A i \in 1..Len(a) : r[i] = a[i]
      /\ \A i \in 1..Len(w) : r[Len(a) + i] = w[i]
  OBVIOUS
<1>2. w = <<>> => r = a
  OBVIOUS
<1> HIDE DEF r
<1>3. a # <<>> => r # <<>>
  BY <1>1
<1>4. w # <<>> => r[Len(r)] = w[Len(w)]
  BY <1>1
<1>5. ASSUME NEW j \in DOMAIN r
      PROVE  \/ \E i \in DOMAIN a : r[j] = a[i]
             \/ \E i \in DOMAIN w : r[j] = w[i]
  <2>1. CASE j <= Len(a)
    BY <1>1, <2>1
  <2>2. CASE j > Len(a)
    <3>1. j - Len(a) \in 1..Len(w) /\ Len(a) + (j - Len(a)) = j
      BY <1>1, <2>2
    <3>2. r[j] = w[j - Len(a)]
      BY <1>1, <3>1
    <3> QED
      BY <1>1, <3>1, <3>2
  <2> QED
    BY <1>1, <2>1, <2>2
<1>6. \A i \in DOMAIN a : i \in DOMAIN r /\ r[i] = a[i]
  BY <1>1
<1>7. \A i \in DOMAIN w : Len(a) + i \in DOMAIN r /\ r[Len(a) + i] = w[i]
  BY <1>1
<1> QED
  BY <1>1, <1>2, <1>3, <1>4, <1>5, <1>6, <1>7 DEF r

(* m is the smallest TTL of the records of a.                              *)
Least(m, a) ==
  /\ m \in Nat
  /\ \A j \in DOMAIN a : m <= a[j].ttl
  /\ \E j \in DOMAIN a : m = a[j].ttl

LEMMA TTLFacts ==
  ASSUME NEW a \in Seq(Record)
  PROVE  \A i \in DOMAIN a : a[i] \in Record /\ a[i].ttl \in Nat
<1> TAKE i \in DOMAIN a
<1>1. a[i] \in Record
  OBVIOUS
<1> QED
  BY <1>1 DEF Record

LEMMA LeastJoin ==
  ASSUME NEW a \in Seq(Record), NEW x \in Seq(Record), NEW n \in Name,
         NEW m, Least(m, a)
  PROVE  Least(MinTTL(m, x), a \o WithOwner(x, n))
<1> DEFINE w == WithOwner(x, n)
           r == a \o w
           l == MinTTL(m, x)
<1>1. w \in Seq(Record) /\ DOMAIN w = DOMAIN x
  BY WithOwnerFacts
<1>2. \A i \in DOMAIN x : w[i].ttl = x[i].ttl
  BY WithOwnerFacts
<1> HIDE DEF w
<1>3. /\ \A j \in DOMAIN r : \/ \E i \in DOMAIN a : r[j] = a[i]
                             \/ \E i \in DOMAIN w : r[j] = w[i]
      /\ \A i \in DOMAIN a : \E j \in DOMAIN r : r[j] = a[i]
      /\ \A i \in DOMAIN w : \E j \in DOMAIN r : r[j] = w[i]
  BY <1>1, JoinIs
<1>4. m \in Nat
  BY DEF Least
<1>5. /\ l \in Nat /\ l <= m /\ \A i \in DOMAIN x : l <= x[i].ttl
      /\ l = m \/ \E i \in DOMAIN x : l = x[i].ttl
  BY <1>4, MinTTLFacts
<1>6. \A i \in DOMAIN a : a[i].ttl \in Nat /\ m <= a[i].ttl
  BY TTLFacts DEF Least
<1> HIDE DEF r, l
<1>7. ASSUME NEW j \in DOMAIN r PROVE l <= r[j].ttl
  <2>1. CASE \E i \in DOMAIN a : r[j] = a[i]
    BY <1>4, <1>5, <1>6, <2>1
  <2>2. CASE \E i \in DOMAIN w : r[j] = w[i]
    BY <1>1, <1>2, <1>5, <2>2
  <2> QED
    BY <1>3, <2>1, <2>2
<1>8. \E j \in DOMAIN r : l = r[j].ttl
  <2>1. CASE l = m
    BY <1>3, <2>1 DEF Least
  <2>2. CASE \E i \in DOMAIN x : l = x[i].ttl
    BY <1>1, <1>2, <1>3, <2>2
  <2> QED
    BY <1>5, <2>1, <2>2
<1>9. Least(l, r)
  BY <1>5, <1>7, <1>8 DEF Least
<1> QED
  BY <1>9 DEF l, r, w

LEMMA LeastIsMin ==
  ASSUME NEW a \in Seq(Record), a # <<>>, NEW m, Least(m, a)
  PROVE  MinTTL(a[Len(a)].ttl, a) = m
<1> DEFINE l == MinTTL(a[Len(a)].ttl, a)
<1>1. Len(a) \in DOMAIN a
  OBVIOUS
<1>2. a[Len(a)] \in Record
  BY <1>1
<1>3. \A i \in DOMAIN a : a[i].ttl \in Nat
  BY TTLFacts
<1>4. /\ l \in Nat /\ \A i \in DOMAIN a : l <= a[i].ttl
      /\ l = a[Len(a)].ttl \/ \E i \in DOMAIN a : l = a[i].ttl
  BY <1>1, <1>3, MinTTLFacts
<1>5. PICK i \in DOMAIN a : l = a[i].ttl
  BY <1>1, <1>4
<1>6. PICK j \in DOMAIN a : m = a[j].ttl
  BY DEF Least
<1> HIDE DEF l
<1>7. m <= l /\ l <= m /\ m \in Nat
  BY <1>4, <1>5, <1>6 DEF Least
<1> QED
  BY <1>4, <1>7 DEF l

(* One turn of FollowCNAME.                                                *)
LEMMA FollowStuck ==
  ASSUME GoodState, NEW t, NEW a \in Seq(Record), a # <<>>,
         \/ a[Len(a)].type # "CNAME"
         \/ ~IsInZone(a[Len(a)].data, RootOrigin)
         \/ Hop(root, a[Len(a)].data, t) = <<>>
  PROVE  FollowOnce(root, a, t) = a
<1> DEFINE l == a[Len(a)]
<1>1. root.origin = RootOrigin
  BY DEF GoodState, GoodZone
<1>2. WithOwner(<<>>, l.data) = <<>>
  BY DEF WithOwner
<1>3. NextHop(root, l, t) = <<>>
  BY <1>1, <1>2 DEF NextHop
<1>4. a \o <<>> = a
  OBVIOUS
<1> QED
  BY <1>3, <1>4 DEF FollowOnce

LEMMA FollowMoves ==
  ASSUME GoodState, NEW t, NEW a, a[Len(a)].type = "CNAME",
         IsInZone(a[Len(a)].data, RootOrigin)
  PROVE  FollowOnce(root, a, t)
           = a \o WithOwner(Hop(root, a[Len(a)].data, t), a[Len(a)].data)
<1>1. root.origin = RootOrigin
  BY DEF GoodState, GoodZone
<1> QED
  BY <1>1 DEF FollowOnce, NextHop

(* The chain a ends with the terminal records q, of type t.                *)
Ends(a, q, t) ==
  /\ OfType(q, t) /\ a[Len(a)].type = t
  /\ \A j \in DOMAIN a : a[j].type = t
                           => \E i \in DOMAIN q : a[j].data = q[i].data
  /\ \A i \in DOMAIN q : \E j \in DOMAIN a :
                           a[j].type = t /\ a[j].data = q[i].data

(* The state c of CollapseCNAME after i turns stands for the answer a of   *)
(* FollowCNAME after as many.                                              *)
Stands(c, a, t, i) ==
  /\ a \in Seq(Record) /\ a # <<>> /\ Least(c.ttl, a)
  /\ c.outcome # "records" =>
       /\ \A j \in DOMAIN a : a[j].type = "CNAME"
       /\ c.target = a[Len(a)].data
  /\ c.outcome = "chase" => c.consumed = i + 1
  /\ c.outcome = "tail" => ~IsInZone(c.target, RootOrigin)
  /\ c.outcome = "nodata" => /\ IsInZone(c.target, RootOrigin)
                             /\ Hop(root, c.target, t) = <<>>
  /\ c.outcome = "records" => Ends(a, c.rrs, t)

LEMMA StandsStart ==
  ASSUME GoodState, NEW n \in Name, NEW t, NEW s, IsRRset(root, s, "CNAME"),
         Len(s) = 1
  PROVE  Stands(Start(s), WithOwner(s, n), t, 0)
<1> DEFINE a == WithOwner(s, n)
           c == Start(s)
<1>0. GoodZone(root, RootOrigin)
  BY DEF GoodState
<1>1. OfType(s, "CNAME") /\ s # <<>> /\ OfType(a, "CNAME") /\ a # <<>>
  BY <1>0, RRsetFacts, InitialGood
<1>2. s \in Seq(Record) /\ a \in Seq(Record)
  BY <1>1 DEF OfType
<1>3. Len(a) = 1 /\ DOMAIN a = {1} /\ DOMAIN s = {1}
  BY <1>2, WithOwnerFacts
<1>4. a[1].data = s[1].data /\ a[1].ttl = s[1].ttl /\ a[1].type = "CNAME"
  <2>1. 1 \in DOMAIN s /\ 1 \in DOMAIN a
    BY <1>3
  <2>2. a[1].data = s[1].data /\ a[1].ttl = s[1].ttl
    BY <1>2, <2>1, WithOwnerFacts
  <2>3. a[1].type = "CNAME"
    BY <1>1, <2>1 DEF OfType
  <2> QED
    BY <2>2, <2>3
<1>5. /\ c.outcome = "chase" /\ c.target = s[1].data /\ c.consumed = 1
      /\ c.ttl = MinTTL(s[1].ttl, s)
  BY DEF Start
<1>6. s[1].ttl \in Nat
  BY <1>2, <1>3, TTLFacts
<1>7. Least(s[1].ttl, s)
  BY <1>3, <1>6 DEF Least
<1>8. MinTTL(s[1].ttl, s) = s[1].ttl
  <2>1. MinTTL(s[Len(s)].ttl, s) = s[1].ttl
    BY <1>1, <1>2, <1>7, LeastIsMin
  <2> QED
    BY <2>1
<1> HIDE DEF a, c
<1>9. Least(c.ttl, a)
  BY <1>3, <1>4, <1>5, <1>6, <1>8 DEF Least
<1>10. Stands(c, a, t, 0)
  BY <1>1, <1>2, <1>3, <1>4, <1>5, <1>9 DEF Stands
<1> QED
  BY <1>10 DEF a, c

(* The records found at a target in the zone: terminal records, or the     *)
(* next CNAME.                                                             *)
LEMMA JoinRecords ==
  ASSUME GoodState, NEW t, t # "CNAME", NEW a \in Seq(Record),
         \A j \in DOMAIN a : a[j].type = "CNAME", NEW x, NEW d \in Name,
         IsRRset(root, x, t)
  PROVE  Ends(a \o WithOwner(x, d), x, t)
<1> DEFINE w == WithOwner(x, d)
           r == a \o w
<1>1. OfType(x, t) /\ x # <<>> /\ OfType(w, t) /\ w # <<>>
  BY RRsetFacts, InitialGood DEF GoodState
<1>2. x \in Seq(Record) /\ w \in Seq(Record)
  BY <1>1 DEF OfType
<1>3. DOMAIN w = DOMAIN x /\ \A i \in DOMAIN x : w[i].data = x[i].data
  BY <1>2, WithOwnerFacts
<1> HIDE DEF w
<1>4. /\ r[Len(r)] = w[Len(w)]
      /\ \A j \in DOMAIN r : \/ \E i \in DOMAIN a : r[j] = a[i]
                             \/ \E i \in DOMAIN w : r[j] = w[i]
      /\ \A i \in DOMAIN w : \E j \in DOMAIN r : r[j] = w[i]
  BY <1>1, <1>2, JoinIs
<1>5. Len(w) \in DOMAIN w
  BY <1>1, <1>2
<1>6. \A i \in DOMAIN w : w[i].type = t
  BY <1>1 DEF OfType
<1> HIDE DEF r
<1>7. r[Len(r)].type = t
  BY <1>4, <1>5, <1>6
<1>8. ASSUME NEW j \in DOMAIN r, r[j].type = t
      PROVE  \E i \in DOMAIN x : r[j].data = x[i].data
  BY <1>3, <1>4, <1>8
<1>9. ASSUME NEW i \in DOMAIN x
      PROVE  \E j \in DOMAIN r : r[j].type = t /\ r[j].data = x[i].data
  BY <1>3, <1>4, <1>6
<1>10. Ends(r, x, t)
  BY <1>1, <1>7, <1>8, <1>9 DEF Ends
<1> QED
  BY <1>10 DEF r, w

LEMMA StandsStep ==
  ASSUME GoodState, OneCNAME, NEW t, t # "CNAME", NEW i \in Nat,
         i + 1 < MaxCNAMEDepth, NEW c, GoodChain(c, root, t), NEW a,
         Stands(c, a, t, i)
  PROVE  Stands(CollapseOnce(root, c, t), FollowOnce(root, a, t), t, i + 1)
<1> DEFINE r == CollapseOnce(root, c, t)
           f == FollowOnce(root, a, t)
           x == Hop(root, c.target, t)
<1>0. /\ GoodZone(root, RootOrigin) /\ root.origin = RootOrigin
      /\ MaxCNAMEDepth \in Nat
  BY DepthAssumption DEF GoodState, GoodZone
<1>1. /\ c \in ChainState /\ c.target \in Name
      /\ c.outcome \in {"chase", "records", "tail", "nodata"}
  BY DEF GoodChain, ChainState
<1>2. a \in Seq(Record) /\ a # <<>> /\ Least(c.ttl, a)
  BY DEF Stands
<1>3. Len(a) \in DOMAIN a
  BY <1>2
<1>4. r = Consume(c, x, IsInZone(c.target, RootOrigin))
  BY <1>0, Zenon DEF CollapseOnce
<1>5. CASE c.outcome # "chase"
  <2>1. r = c
    BY <1>4, <1>5, Zenon DEF Consume
  <2>2. f = a
    <3>1. \/ a[Len(a)].type # "CNAME"
          \/ ~IsInZone(a[Len(a)].data, RootOrigin)
          \/ Hop(root, a[Len(a)].data, t) = <<>>
      BY <1>1, <1>5 DEF Stands, Ends
    <3> QED
      BY <1>2, <3>1, FollowStuck
  <2> QED
    BY <1>5, <2>1, <2>2 DEF Stands
<1>6. CASE c.outcome = "chase"
  <2>1. /\ \A j \in DOMAIN a : a[j].type = "CNAME"
        /\ c.target = a[Len(a)].data /\ c.consumed = i + 1
        /\ a[Len(a)].type = "CNAME"
    BY <1>3, <1>6 DEF Stands
  <2>2. CASE ~IsInZone(c.target, RootOrigin)
    <3>1. r = [c EXCEPT !.outcome = "tail"]
      BY <1>4, <1>6, <2>2, Zenon DEF Consume
    <3>2. r.outcome = "tail" /\ r.target = c.target /\ r.ttl = c.ttl
      BY <1>1, <3>1 DEF ChainState
    <3>3. f = a
      BY <1>2, <2>1, <2>2, FollowStuck
    <3> HIDE DEF r, f
    <3>4. Stands(r, f, t, i + 1)
      BY <1>2, <2>1, <2>2, <3>2, <3>3 DEF Stands
    <3> QED
      BY <3>4 DEF r, f
  <2>3. CASE IsInZone(c.target, RootOrigin) /\ x = <<>>
    <3>1. r = [c EXCEPT !.outcome = "nodata"]
      BY <1>4, <1>6, <2>3, Zenon DEF Consume
    <3>2. r.outcome = "nodata" /\ r.target = c.target /\ r.ttl = c.ttl
      BY <1>1, <3>1 DEF ChainState
    <3>3. f = a
      BY <1>2, <2>1, <2>3, FollowStuck
    <3> HIDE DEF r, f
    <3>4. Stands(r, f, t, i + 1)
      BY <1>2, <2>1, <2>3, <3>2, <3>3 DEF Stands
    <3> QED
      BY <3>4 DEF r, f
  <2>4. CASE IsInZone(c.target, RootOrigin) /\ x # <<>>
    <3> DEFINE w == WithOwner(x, c.target)
               m == MinTTL(c.ttl, x)
    <3>1. f = a \o w
      BY <2>1, <2>4, FollowMoves
    <3>2. Finds(root, x, t)
      BY <1>0, HopFinds
    <3> HIDE DEF x
    <3>3. x \in Seq(Record)
      <4>1. \A u : IsRRset(root, x, u) => x \in Seq(Record)
        BY <1>0, RRsetFacts DEF OfType
      <4> QED
        BY <2>4, <3>2, <4>1 DEF Finds
    <3>4. 1 \in DOMAIN x
      BY <2>4, <3>3
    <3>5. w \in Seq(Record)
      BY <1>1, <3>3, WithOwnerFacts
    <3>6. f \in Seq(Record) /\ f # <<>> /\ Least(m, f)
      BY <1>1, <1>2, <3>1, <3>3, <3>5, JoinIs, LeastJoin
    <3>7. CASE IsRRset(root, x, t)
      <4>1. x[1].type = t
        <5>1. OfType(x, t)
          BY <1>0, <3>7, RRsetFacts
        <5> QED
          BY <3>4, <5>1 DEF OfType
      <4>2. r = [c EXCEPT !.outcome = "records", !.rrs = x, !.ttl = m]
        BY <1>4, <1>6, <2>4, <4>1, Zenon DEF Consume
      <4>3. r.outcome = "records" /\ r.rrs = x /\ r.ttl = m
        <5> HIDE DEF m
        <5> QED
          BY <1>1, <4>2 DEF ChainState
      <4>4. Ends(f, x, t)
        BY <1>1, <1>2, <2>1, <3>1, <3>7, JoinRecords
      <4> HIDE DEF r, f, m
      <4>5. Stands(r, f, t, i + 1)
        BY <3>6, <4>3, <4>4 DEF Stands
      <4> QED
        BY <4>5 DEF r, f
    <3>8. CASE IsRRset(root, x, "CNAME")
      <4>1. OfType(x, "CNAME") /\ Len(x) = 1
        BY <1>0, <3>8, RRsetFacts DEF OneCNAME, IsRRset
      <4>2. x[1].type = "CNAME"
        BY <3>4, <4>1 DEF OfType
      <4>3. ~(c.consumed >= MaxCNAMEDepth)
        BY <1>0, <2>1
      <4> DEFINE d == x[Len(x)].data
                 u == c.consumed + Len(x)
      <4>4. r = [c EXCEPT !.target = d, !.consumed = u, !.ttl = m]
        BY <1>4, <1>6, <2>4, <4>2, <4>3, Zenon DEF Consume
      <4>5. u = (i + 1) + 1 /\ d = x[1].data
        BY <2>1, <4>1
      <4>6. /\ r.outcome = "chase" /\ r.target = d /\ r.consumed = u
            /\ r.ttl = m
        <5> HIDE DEF m, d, u
        <5> QED
          BY <1>1, <1>6, <4>4 DEF ChainState
      <4>7. OfType(w, "CNAME") /\ w # <<>> /\ Len(w) = 1
        BY <1>0, <1>1, <3>3, <3>8, <4>1, InitialGood, WithOwnerFacts
      <4>8. w[1].data = x[1].data
        BY <1>1, <3>3, <3>4, WithOwnerFacts
      <4> HIDE DEF w, f
      <4>9. /\ f[Len(f)] = w[Len(w)]
            /\ \A j \in DOMAIN f : \/ \E k \in DOMAIN a : f[j] = a[k]
                                   \/ \E k \in DOMAIN w : f[j] = w[k]
        <5> DEFINE g == a \o w
        <5>1. /\ g[Len(g)] = w[Len(w)]
              /\ \A j \in DOMAIN g : \/ \E k \in DOMAIN a : g[j] = a[k]
                                     \/ \E k \in DOMAIN w : g[j] = w[k]
          BY <1>2, <3>5, <4>7, JoinIs
        <5> HIDE DEF g
        <5>2. f = g
          BY <3>1 DEF g
        <5> QED
          BY <5>1, <5>2
      <4>10. \A j \in DOMAIN f : f[j].type = "CNAME"
        BY <2>1, <4>7, <4>9 DEF OfType
      <4>11. f[Len(f)].data = d
        BY <4>5, <4>7, <4>8, <4>9
      <4> HIDE DEF r, f, m, d, u
      <4>12. Stands(r, f, t, i + 1)
        BY <3>6, <4>5, <4>6, <4>10, <4>11 DEF Stands
      <4> QED
        BY <4>12 DEF r, f
    <3> QED
      BY <2>4, <3>2, <3>7, <3>8 DEF Finds
  <2> QED
    BY <2>2, <2>3, <2>4
<1> QED
  BY <1>5, <1>6

(* What a collapsed chain is, against the answer a of the full chain: the  *)
(* last turn of CollapseCNAME looks one target further than FollowCNAME.   *)
Condenses(c, a, t) ==
  /\ a \in Seq(Record) /\ a # <<>>
  /\ c \in ChainState /\ c.outcome # "chase"
  /\ c.outcome = "records" => OfType(c.rrs, t) /\ t \in STRING
  /\ \/ /\ a[Len(a)].type = "CNAME"
        /\ IsInZone(a[Len(a)].data, RootOrigin)
     \/ /\ a[Len(a)].type = "CNAME" /\ c.outcome = "tail"
        /\ c.target = a[Len(a)].data /\ Least(c.ttl, a)
     \/ /\ c.outcome = "records" /\ t # "CNAME"
        /\ Ends(a, c.rrs, t) /\ Least(c.ttl, a)

LEMMA StandsEnd ==
  ASSUME GoodState, NEW t, t # "CNAME", NEW i, NEW c,
         GoodChain(c, root, t), NEW a, Stands(c, a, t, i),
         NEW r, GoodChain(r, root, t), r = CollapseOnce(root, c, t),
         r.outcome # "chase"
  PROVE  Condenses(r, a, t)
<1>0. /\ GoodZone(root, RootOrigin) /\ root.origin = RootOrigin
  BY DEF GoodState, GoodZone
<1>1. /\ c \in ChainState /\ r \in ChainState
      /\ c.outcome \in {"chase", "records", "tail", "nodata"}
  BY DEF GoodChain, ChainState
<1>2. r.outcome = "records" => OfType(r.rrs, t) /\ t \in STRING
  BY <1>0, RRsetFacts, CNAMEIsString DEF GoodChain
<1>3. a \in Seq(Record) /\ a # <<>> /\ Least(c.ttl, a)
  BY DEF Stands
<1>4. Len(a) \in DOMAIN a
  BY <1>3
<1>5. r = Consume(c, Hop(root, c.target, t), IsInZone(c.target, RootOrigin))
  BY <1>0, Zenon DEF CollapseOnce
<1>6. CASE c.outcome = "records"
  <2>1. r = c
    BY <1>5, <1>6, Zenon DEF Consume
  <2> QED
    BY <1>1, <1>2, <1>3, <1>6, <2>1 DEF Stands, Condenses
<1>7. CASE c.outcome # "records"
  <2>1. a[Len(a)].type = "CNAME" /\ c.target = a[Len(a)].data
    BY <1>4, <1>7 DEF Stands
  <2>2. CASE IsInZone(c.target, RootOrigin)
    BY <1>1, <1>2, <1>3, <2>1, <2>2 DEF Condenses
  <2>3. CASE ~IsInZone(c.target, RootOrigin)
    <3>1. r.outcome = "tail" /\ r.target = c.target /\ r.ttl = c.ttl
      <4>1. CASE c.outcome = "chase"
        <5>1. r = [c EXCEPT !.outcome = "tail"]
          BY <1>5, <2>3, <4>1, Zenon DEF Consume
        <5> QED
          BY <1>1, <5>1 DEF ChainState
      <4>2. CASE c.outcome = "tail"
        <5>1. r = c
          BY <1>5, <4>2, Zenon DEF Consume
        <5> QED
          BY <4>2, <5>1
      <4>3. CASE c.outcome = "nodata"
        BY <2>3, <4>3 DEF Stands
      <4> QED
        BY <1>1, <1>7, <4>1, <4>2, <4>3
    <3> QED
      BY <1>1, <1>2, <1>3, <2>1, <3>1 DEF Condenses
  <2> QED
    BY <2>2, <2>3
<1> QED
  BY <1>6, <1>7

(* The two loops, from the same CNAME.                                     *)
LEMMA LoopsAgree ==
  ASSUME GoodState, OneCNAME, NEW t, t # "CNAME", NEW n \in Name, NEW s,
         IsRRset(root, s, "CNAME")
  PROVE  Condenses(CollapseCNAME(root, s, t),
                   FollowCNAME(root, WithOwner(s, n), t), t)
<1> DEFINE D == MaxCNAMEDepth
           S == WithOwner(s, n)
           m == Turns(S)
           T == {x \in Seq(Record) : GoodAnswer(x, root, n, RootOrigin)}
<1>0. GoodZone(root, RootOrigin) /\ D \in Nat /\ D >= 1
  BY DepthAssumption DEF GoodState
<1>1. Len(s) = 1
  BY DEF OneCNAME, IsRRset
<1>2. s \in Seq(Record)
  BY <1>0, RRsetFacts DEF OfType
<1>3. Len(S) = 1 /\ GoodAnswer(S, root, n, RootOrigin)
  BY <1>0, <1>1, <1>2, WithOwnerFacts, InitialGood
<1>4. m = D - 1
  BY <1>0, <1>3 DEF Turns
<1>5. S \in T /\ Len(S) \in Nat
  BY <1>3 DEF GoodAnswer
<1>6. \A x \in T : FollowOnce(root, x, t) \in T
  <2> SUFFICES ASSUME NEW x \in T PROVE FollowOnce(root, x, t) \in T
    OBVIOUS
  <2>1. GoodAnswer(FollowOnce(root, x, t), root, n, RootOrigin)
    BY <1>0, FollowOnceGood
  <2> QED
    BY <2>1 DEF GoodAnswer
<1> HIDE DEF T, S
<1>7. PICK A \in [0..m -> T] :
        /\ FollowCNAME(root, S, t) = A[m]
        /\ A[0] = S
        /\ \A i \in 1..m : A[i] = FollowOnce(root, A[i - 1], t)
  BY <1>5, <1>6, FollowRuns
<1>8. PICK C : /\ CollapseCNAME(root, s, t) = C[D]
               /\ C[0] = Start(s)
               /\ \A i \in 1..D : C[i] = CollapseOnce(root, C[i - 1], t)
               /\ \A i \in 0..D : GoodChain(C[i], root, t)
               /\ C[D].outcome # "chase"
  BY <1>0, CollapseRuns
<1> DEFINE I == {i \in Nat : i < D => Stands(C[i], A[i], t, i)}
<1>9. 0 \in I
  BY <1>1, <1>7, <1>8, StandsStart DEF S
<1>10. ASSUME NEW i \in I PROVE i + 1 \in I
  <2>1. SUFFICES ASSUME i + 1 < D
                 PROVE  Stands(C[i + 1], A[i + 1], t, i + 1)
    OBVIOUS
  <2>2. /\ i \in Nat /\ i < D /\ i + 1 \in 1..D /\ i + 1 \in 1..m
        /\ i \in 0..D /\ (i + 1) - 1 = i
    BY <1>0, <1>4, <2>1
  <2>3. Stands(C[i], A[i], t, i) /\ GoodChain(C[i], root, t)
    BY <1>8, <2>2
  <2>4. /\ C[i + 1] = CollapseOnce(root, C[i], t)
        /\ A[i + 1] = FollowOnce(root, A[i], t)
    BY <1>7, <1>8, <2>2
  <2> QED
    BY <2>1, <2>2, <2>3, <2>4, StandsStep
<1>11. m \in I
  <2>1. I \in SUBSET Nat /\ \A i \in I : i + 1 \in I
    BY <1>10
  <2> HIDE DEF I
  <2>2. m \in Nat
    BY <1>0, <1>4
  <2> QED
    BY <1>9, <2>1, <2>2, NatSetInduction
<1>12. /\ m < D /\ m \in 0..D /\ D \in 1..D /\ D \in 0..D /\ D - 1 = m
  BY <1>0, <1>4
<1>13. Stands(C[m], A[m], t, m)
  BY <1>11, <1>12
<1>14. C[D] = CollapseOnce(root, C[m], t)
  BY <1>8, <1>12
<1>15. Condenses(C[D], A[m], t)
  BY <1>8, <1>12, <1>13, <1>14, StandsEnd
<1> QED
  BY <1>7, <1>8, <1>15 DEF S

(* So the collapsed answer hides the hops and nothing else.                *)
LEMMA Restamped ==
  ASSUME NEW rr \in Record, NEW n, NEW ttl
  PROVE  [rr EXCEPT !.owner = n, !.ttl = ttl]
           = [owner |-> n, type |-> rr.type, data |-> rr.data, ttl |-> ttl]
<1>1. PICK x : x = [rr EXCEPT !.owner = n, !.ttl = ttl]
  OBVIOUS
<1>2. x = [owner |-> n, type |-> rr.type, data |-> rr.data, ttl |-> ttl]
  BY <1>1 DEF Record
<1> QED
  BY <1>1, <1>2

LEMMA CondensedAnswer ==
  ASSUME NEW n \in Name, NEW t, NEW c, NEW a, Condenses(c, a, t)
  PROVE  CollapsedTo(CollapsedRRs(c, n), a, a[Len(a)], n)
<1> DEFINE ans == CollapsedRRs(c, n)
           end == a[Len(a)]
           ttl == MinTTL(end.ttl, a)
<1>0. /\ a \in Seq(Record) /\ a # <<>> /\ c \in ChainState
      /\ c.outcome \in {"records", "tail", "nodata"}
      /\ c.ttl \in Nat /\ c.target \in Name
  BY DEF Condenses, ChainState
<1>1. end \in Record
  BY <1>0
<1>2. \A m : Least(m, a) => ttl = m
  BY <1>0, LeastIsMin
<1>3. c.outcome = "tail" => ans = <<TailRR(n, c)>>
  BY CollapsedRRsIs
<1>4. c.outcome = "records" => ans = Stamp(c.rrs, n, c.ttl)
  BY CollapsedRRsIs
<1>5. c.outcome = "nodata" => ans = <<>>
  BY CollapsedRRsIs
<1> HIDE DEF ans, end, ttl
<1>6. \A i \in DOMAIN ans : ans[i].owner = n
  <2>1. CASE c.outcome = "tail"
    BY <1>3, <2>1 DEF TailRR
  <2>2. CASE c.outcome = "records"
    <3>1. OfOwner(Stamp(c.rrs, n, c.ttl), n)
      BY <1>0, <2>2, StampFacts DEF Condenses
    <3> QED
      BY <1>4, <2>2, <3>1 DEF OfOwner
  <2>3. CASE c.outcome = "nodata"
    BY <1>5, <2>3
  <2> QED
    BY <1>0, <2>1, <2>2, <2>3
<1>7. ASSUME end.type # "CNAME"
      PROVE  /\ {rr.data : rr \in Range(ans)}
                  = {rr.data : rr \in {x \in Range(a) : x.type = end.type}}
             /\ \A i \in DOMAIN ans : /\ ans[i].type = end.type
                                      /\ ans[i].ttl = ttl
  <2> DEFINE q == c.rrs
  <2>1. /\ c.outcome = "records" /\ Ends(a, q, t) /\ Least(c.ttl, a)
        /\ OfType(q, t)
    BY <1>7 DEF Condenses, end
  <2>2. ans = Stamp(q, n, c.ttl) /\ ttl = c.ttl /\ end.type = t
    BY <1>2, <1>4, <2>1 DEF Ends, end
  <2> HIDE DEF q
  <2>3. DOMAIN ans = DOMAIN q
    BY <1>0, <2>1, <2>2, StampFacts
  <2>4. \A i \in DOMAIN q : ans[i] = [owner |-> n, type |-> t,
                                      data |-> q[i].data, ttl |-> c.ttl]
    BY <1>0, <2>1, <2>2, StampFacts
  <2>5. \A i \in DOMAIN ans : /\ ans[i].type = t /\ ans[i].ttl = c.ttl
                              /\ ans[i].data = q[i].data
    BY <2>3, <2>4
  <2> DEFINE L == {rr.data : rr \in Range(ans)}
             R == {rr.data : rr \in {x \in Range(a) : x.type = t}}
  <2>6. ASSUME NEW d \in L PROVE d \in R
    <3>1. PICK i \in DOMAIN ans : d = ans[i].data
      BY DEF Range
    <3>2. PICK j \in DOMAIN a : a[j].type = t /\ a[j].data = q[i].data
      BY <2>1, <2>3 DEF Ends
    <3>3. a[j] \in {x \in Range(a) : x.type = t} /\ d = a[j].data
      BY <2>5, <3>1, <3>2 DEF Range
    <3> QED
      BY <3>3
  <2>7. ASSUME NEW d \in R PROVE d \in L
    <3>1. PICK j \in DOMAIN a : a[j].type = t /\ d = a[j].data
      BY DEF Range
    <3>2. PICK i \in DOMAIN q : a[j].data = q[i].data
      BY <2>1, <3>1 DEF Ends
    <3>3. ans[i] \in Range(ans) /\ d = ans[i].data
      BY <2>3, <2>5, <3>1, <3>2 DEF Range
    <3> QED
      BY <3>3
  <2>8. L = R
    BY <2>6, <2>7
  <2> QED
    BY <2>2, <2>5, <2>8
<1>8. ASSUME end.type = "CNAME", ~IsInZone(end.data, RootOrigin)
      PROVE  ans = <<[end EXCEPT !.owner = n, !.ttl = ttl]>>
  <2>1. /\ c.outcome = "tail" /\ c.target = end.data /\ Least(c.ttl, a)
    BY <1>8 DEF Condenses, Ends, end
  <2>2. TailRR(n, c) = [end EXCEPT !.owner = n, !.ttl = ttl]
    <3>1. ttl = c.ttl
      BY <1>2, <2>1
    <3>2. [end EXCEPT !.owner = n, !.ttl = ttl]
            = [owner |-> n, type |-> end.type, data |-> end.data,
               ttl |-> ttl]
      BY <1>1, Restamped
    <3>3. TailRR(n, c) = [owner |-> n, type |-> "CNAME", data |-> c.target,
                          ttl |-> c.ttl]
      BY DEF TailRR
    <3> QED
      BY <1>8, <2>1, <3>1, <3>2, <3>3
  <2> QED
    BY <1>3, <2>1, <2>2
<1> QED
  BY <1>6, <1>7, <1>8 DEF CollapsedTo, ans, end, ttl

(* The answer with and without its hops.                                   *)
FullRRs(n, t, txts) == RootStage(n, t, FALSE, txts).rrs

CollapsedStage(n, t, txts) == RootStage(n, t, TRUE, txts).rrs

FullReply(n, t) == Respond(n, t, FALSE, store)

CollapsedReply(n, t) == Respond(n, t, TRUE, store)

LEMMA RepliesAre ==
  ASSUME NEW n \in Name, IsInZone(n, RootOrigin), NEW t
  PROVE  LET f == FullRRs(n, t, store)
             c == CollapsedStage(n, t, store)
             code == IF n \in Owners(root) \/ HasWildcard(root, n)
                     THEN "NOERROR" ELSE "NXDOMAIN"
         IN /\ FullReply(n, t) = IF f # <<>> THEN Reply("NOERROR", f, <<>>)
                                 ELSE Negative(code, SOA)
            /\ CollapsedReply(n, t)
                 = IF c # <<>> THEN Reply("NOERROR", c, <<>>)
                   ELSE Negative(code, SOA)
  BY RespondRoot, Zenon DEF FullRRs, CollapsedStage, FullReply, CollapsedReply

(* A full chain comes from the CNAME fallback or from a wildcard's CNAME,  *)
(* and then the collapsed one starts there too.                            *)
LEMMA ChainStages ==
  ASSUME GoodState, NEW n \in Name, NEW t, t # "CNAME", NEW txts,
         NEW full, full = FullRRs(n, t, txts),
         full # <<>>, full[1].type = "CNAME"
  PROVE  \E s : /\ IsRRset(root, s, "CNAME")
                /\ n \in Owners(root) \/ HasWildcard(root, n)
                /\ full = FollowCNAME(root, WithOwner(s, n), t)
                /\ CollapsedStage(n, t, txts)
                     = CollapsedRRs(CollapseCNAME(root, s, t), n)
<1> DEFINE L == Lookup(root, n, t)
           N == Lookup(root, n, "CNAME")
           W == LookupWildcard(root, n, t)
           V == LookupWildcard(root, n, "CNAME")
           a == ApexSOA(n, t, SOA)
           b == Found(L, {})
           c == lookupEphemeralTXT(n, t, txts)
           dF == RootCNAMEFallback(n, t, FALSE)
           dT == RootCNAMEFallback(n, t, TRUE)
           eF == RootWildcard(n, t, FALSE)
           eT == RootWildcard(n, t, TRUE)
           F(s) == FollowCNAME(root, WithOwner(s, n), t)
           K(s) == CollapsedRRs(CollapseCNAME(root, s, t), n)
           RF == RootStage(n, t, FALSE, txts)
           RT == RootStage(n, t, TRUE, txts)
<1>0. GoodZone(root, RootOrigin)
  BY DEF GoodState
<1>1. RF = IF a # Miss THEN a ELSE IF b # Miss THEN b
           ELSE IF c # Miss THEN c ELSE IF dF # Miss THEN dF ELSE eF
  <2>1. RootExact(n, t, FALSE) = b
    BY Zenon DEF RootExact, Found
  <2> QED
    BY <2>1, RootStageIs, Zenon
<1>2. RT = IF a # Miss THEN a ELSE IF b # Miss THEN b
           ELSE IF c # Miss THEN c ELSE IF dT # Miss THEN dT ELSE eT
  <2>1. RootExact(n, t, TRUE) = b
    BY Zenon DEF RootExact, Found
  <2> QED
    BY <2>1, RootStageIs, Zenon
<1>3. /\ \A u : /\ OfType(Lookup(root, n, u), u)
                /\ Lookup(root, n, u) # <<>> =>
                     n \in Owners(root) /\ IsRRset(root, Lookup(root, n, u), u)
      /\ \A u : /\ OfType(LookupWildcard(root, n, u), u)
                /\ LookupWildcard(root, n, u) # <<>> =>
                     /\ HasWildcard(root, n)
                     /\ IsRRset(root, LookupWildcard(root, n, u), u)
  BY <1>0, LookupFacts, WildcardFacts, LookupIsRRset
<1>4. /\ N # <<>> => n \in Owners(root) /\ IsRRset(root, N, "CNAME")
      /\ V # <<>> => HasWildcard(root, n) /\ IsRRset(root, V, "CNAME")
  BY <1>3, Zenon
<1>5. OfType(L, t) /\ OfType(W, t)
  BY <1>3, Zenon
<1>6. /\ N = <<>> => dF = Miss /\ dT = Miss
      /\ N # <<>> => /\ dF = Found(F(N), {})
                     /\ dT = collapseRootCNAME(n, t, N)
  BY Zenon DEF RootCNAMEFallback, RootChain, Found
<1>7. /\ W # <<>> => eF = Found(WithOwner(W, n), {})
      /\ W = <<>> /\ V = <<>> => eF = Miss
      /\ W = <<>> /\ V # <<>> => /\ eF = Found(F(V), {})
                                 /\ eT = collapseRootCNAME(n, t, V)
  BY Zenon DEF RootWildcard, RootChain, Found
<1>8. \A s : collapseRootCNAME(n, t, s) = Collapsed(K(s), {})
  BY Zenon DEF collapseRootCNAME, Collapsed
<1>9. a # Miss => a.rrs = <<SOA>>
  <2>1. CASE t = "SOA" /\ n = SOA.owner
    <3>1. a = Found(<<SOA>>, {})
      BY <2>1, Zenon DEF ApexSOA, Found
    <3> HIDE DEF a
    <3> QED
      BY <3>1, FoundFacts
  <2>2. CASE ~(t = "SOA" /\ n = SOA.owner)
    BY <2>2, Zenon DEF ApexSOA
  <2> QED
    BY <2>1, <2>2
<1>10. c # Miss => c.rrs = <<TokenRR(n)>>
  <2>1. CASE t = "TXT" /\ n \in txts
    <3>1. c = Found(<<TokenRR(n)>>, {})
      BY <2>1, EphemeralIs, Zenon
    <3> HIDE DEF c
    <3> QED
      BY <3>1, FoundFacts
  <2>2. CASE ~(t = "TXT" /\ n \in txts)
    BY <2>2, Zenon DEF lookupEphemeralTXT
  <2> QED
    BY <2>1, <2>2
<1>11. full = RF.rrs
  BY Zenon DEF FullRRs
<1> SUFFICES \E s : /\ IsRRset(root, s, "CNAME")
                    /\ n \in Owners(root) \/ HasWildcard(root, n)
                    /\ full = F(s) /\ RT.rrs = K(s)
  BY Zenon DEF CollapsedStage
<1> HIDE DEF a, c, dF, dT, eF, eT, RF, RT, F, K, L, N, W, V, b
<1>12. a = Miss
  <2>1. SUFFICES ASSUME a # Miss PROVE FALSE
    OBVIOUS
  <2>2. full = <<SOA>>
    BY <1>1, <1>9, <1>11, <2>1
  <2>3. full[1] = SOA
    BY <2>2
  <2> QED
    BY <2>3, SOAAssumption
<1>13. \A s : OfType(s, t) => full # s
  <2> SUFFICES ASSUME NEW s, OfType(s, t), full = s PROVE FALSE
    OBVIOUS
  <2>1. 1 \in DOMAIN s
    BY DEF OfType
  <2> QED
    BY <2>1 DEF OfType
<1>14. b = Miss
  <2>1. b.rrs = L
    BY FoundFacts DEF b
  <2> QED
    BY <1>1, <1>5, <1>11, <1>12, <1>13, <2>1
<1>15. c = Miss
  <2>1. SUFFICES ASSUME c # Miss PROVE FALSE
    OBVIOUS
  <2>2. full = <<TokenRR(n)>>
    BY <1>1, <1>10, <1>11, <1>12, <1>14, <2>1
  <2>3. full[1] = TokenRR(n)
    BY <2>2
  <2> QED
    BY <2>3 DEF TokenRR
<1>16. CASE N # <<>>
  <2>1. /\ dF = Found(F(N), {}) /\ dT = Collapsed(K(N), {})
    BY <1>6, <1>8, <1>16
  <2>2. dT # Miss /\ dT.rrs = K(N)
    BY <2>1, CollapsedFacts
  <2>3. RT.rrs = K(N)
    BY <1>2, <1>12, <1>14, <1>15, <2>2
  <2>4. dF.rrs = F(N) /\ dF # Miss
    <3>1. dF.rrs = F(N) /\ (F(N) # <<>> => dF # Miss)
      BY <2>1, FoundFacts
    <3>2. F(N) # <<>>
      <4>1. IsRRset(root, N, "CNAME")
        BY <1>4, <1>16
      <4>2. GoodAnswer(WithOwner(N, n), root, n, RootOrigin)
        BY <1>0, <4>1, InitialGood
      <4>3. GoodAnswer(F(N), root, n, RootOrigin)
        BY <1>0, <4>2, FollowGood DEF F
      <4> QED
        BY <4>3 DEF GoodAnswer
    <3> QED
      BY <3>1, <3>2
  <2>5. full = F(N)
    BY <1>1, <1>11, <1>12, <1>14, <1>15, <2>4
  <2> QED
    BY <1>4, <1>16, <2>3, <2>5
<1>17. CASE N = <<>>
  <2>1. dF = Miss /\ dT = Miss /\ RF = eF /\ RT = eT
    BY <1>1, <1>2, <1>6, <1>12, <1>14, <1>15, <1>17
  <2>2. W = <<>>
    <3>1. SUFFICES ASSUME W # <<>> PROVE FALSE
      OBVIOUS
    <3>2. full = WithOwner(W, n)
      BY <1>7, <1>11, <2>1, <3>1, FoundFacts
    <3>3. IsRRset(root, W, t)
      BY <1>3, <3>1, Zenon DEF W
    <3>4. OfType(WithOwner(W, n), t)
      BY <1>0, <3>3, InitialGood
    <3> QED
      BY <1>13, <3>2, <3>4
  <2>3. V # <<>>
    <3>1. Miss.rrs = <<>>
      BY FoundFacts
    <3> QED
      BY <1>7, <1>11, <2>1, <2>2, <3>1
  <2>4. eF = Found(F(V), {}) /\ eT = Collapsed(K(V), {})
    BY <1>7, <1>8, <2>2, <2>3
  <2>5. full = F(V) /\ RT.rrs = K(V)
    BY <1>11, <2>1, <2>4, FoundFacts, CollapsedFacts
  <2> QED
    BY <1>4, <2>3, <2>5
<1> QED
  BY <1>16, <1>17

LEMMA InvCollapseAgrees == ResolveInv => CollapseAgrees
<1> DEFINE n == out.qname
           t == out.qtype
           full == FullReply(n, t).answer
<1> SUFFICES ASSUME ResolveInv, Replied, collapse, t # "CNAME", OneCNAME,
                    IsInZone(n, RootOrigin),
                    full # <<>>, full[1].type = "CNAME"
             PROVE  /\ out.reply.rcode = "NOERROR"
                    /\ CollapsedTo(out.reply.answer, full, full[Len(full)], n)
  BY Zenon DEF CollapseAgrees, HidesHopsOnly, FullReply
<1>0. /\ GoodState /\ n \in Name
      /\ out.reply = Respond(n, t, collapse, store)
  BY DEF ResolveInv, Replied, GoodReply
<1>1. collapse = TRUE
  BY <1>0 DEF GoodState
<1>2. out.reply = CollapsedReply(n, t)
  BY <1>0, <1>1, Zenon DEF CollapsedReply
<1> HIDE DEF n, t
<1> DEFINE has == n \in Owners(root) \/ HasWildcard(root, n)
           code == IF has THEN "NOERROR" ELSE "NXDOMAIN"
           rF == FullRRs(n, t, store)
           rT == CollapsedStage(n, t, store)
           pF == FullReply(n, t)
           pT == CollapsedReply(n, t)
<1>3. pF = IF rF # <<>> THEN Reply("NOERROR", rF, <<>>)
           ELSE Negative(code, SOA)
  BY <1>0, RepliesAre, Zenon
<1>4. pT = IF rT # <<>> THEN Reply("NOERROR", rT, <<>>)
           ELSE Negative(code, SOA)
  BY <1>0, RepliesAre, Zenon
<1>5. full = pF.answer
  OBVIOUS
<1> HIDE DEF pF, pT, rF, rT, full
<1>6. full = rF
  <2>1. CASE rF # <<>>
    BY <1>3, <1>5, <2>1, ReplyFacts
  <2>2. CASE rF = <<>>
    BY <1>3, <1>5, <2>2, ReplyFacts DEF Negative
  <2> QED
    BY <2>1, <2>2
<1>7. PICK s : /\ IsRRset(root, s, "CNAME")
               /\ has
               /\ full = FollowCNAME(root, WithOwner(s, n), t)
               /\ rT = CollapsedRRs(CollapseCNAME(root, s, t), n)
  <2>1. full = FullRRs(n, t, store)
    BY <1>6, Zenon DEF rF
  <2>2. t # "CNAME" /\ full # <<>> /\ full[1].type = "CNAME"
    OBVIOUS
  <2>3. rT = CollapsedStage(n, t, store)
    BY Zenon DEF rT
  <2>4. \E s : /\ IsRRset(root, s, "CNAME")
               /\ n \in Owners(root) \/ HasWildcard(root, n)
               /\ full = FollowCNAME(root, WithOwner(s, n), t)
               /\ CollapsedStage(n, t, store)
                    = CollapsedRRs(CollapseCNAME(root, s, t), n)
    BY <1>0, <2>1, <2>2, ChainStages
  <2> QED
    BY <2>3, <2>4
<1>8. CollapsedTo(rT, full, full[Len(full)], n)
  BY <1>0, <1>7, LoopsAgree, CondensedAnswer
<1>9. pT.rcode = "NOERROR" /\ pT.answer = rT
  <2>1. CASE rT # <<>>
    BY <1>4, <2>1, ReplyFacts
  <2>2. CASE rT = <<>>
    BY <1>4, <1>7, <2>2, ReplyFacts DEF Negative
  <2> QED
    BY <2>1, <2>2
<1>10. out.reply = pT
  BY <1>2 DEF pT
<1> QED
  BY <1>8, <1>9, <1>10

(* Collapsing a chain hides its hops and nothing else.                     *)
THEOREM ResolveCollapseAgrees == Spec => []CollapseAgrees
  BY ResolveInvariance, InvCollapseAgrees, PTL
=============================================================================
