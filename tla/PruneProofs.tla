---------------------------- MODULE PruneProofs -----------------------------
(***************************************************************************)
(* Crash safety of prune-backup, for any names and number of runs and any  *)
(* files and pairs of which no file is read twice (Disjoint).              *)
(*                                                                         *)
(* The files are always the original ones without some lines (Without),    *)
(* and a second run plans from what is left.  The inductive invariant says *)
(* which lines may be gone (Sound): lines that were to be deleted at       *)
(* first, whole RRsets as far as a file has them, and all of a file's but  *)
(* those of an RRset that already lost lines elsewhere and is now kept     *)
(* because it differs from the root's (Broken).  It holds of the directory *)
(* and of each one a power loss may leave.  That a plan for the rest       *)
(* deletes nothing new (PlanIsOld) rests on counting the records of each   *)
(* RRset before and after (CountIs).                                       *)
(***************************************************************************)
EXTENDS PruneBackup, SequenceTheorems, FiniteSetTheorems, FunctionTheorems,
        WellFoundedInduction, TLAPS

(* Induction over a set of natural numbers.                                *)
LEMMA NatSetInduction ==
  ASSUME NEW T \in SUBSET Nat, 0 \in T, \A n \in T : n + 1 \in T
  PROVE  \A n \in Nat : n \in T
<1> DEFINE R == OpToRel(<, Nat)
           U == Nat \ T
<1>1. IsWellFoundedOn(R, Nat)
  BY NatLessThanWellFounded
<1>2. SUFFICES ASSUME U # {} PROVE FALSE
  OBVIOUS
<1>3. PICK m \in U : \A y \in U : ~ (<<y, m>> \in R)
  BY <1>1, <1>2, WFMin, Zenon
<1>4. m \in Nat /\ m \notin T /\ m # 0
  BY <1>3
<1>5. m - 1 \in Nat /\ m - 1 < m /\ (m - 1) + 1 = m
  BY <1>4
<1>6. <<m - 1, m>> \in R /\ m - 1 \in U
  BY <1>4, <1>5 DEF OpToRel
<1> QED
  BY <1>3, <1>6, Zenon
----------------------------------------------------------------------------
(* Select.  The recursion has a solution, and takes exactly the places I.  *)
SelectStep(s, I, g, i) ==
  IF i = 0 THEN <<>>
  ELSE IF i \in I THEN Append(g[i - 1], s[i]) ELSE g[i - 1]

SelectBody(s, I, g) == [i \in 0..Len(s) |-> SelectStep(s, I, g, i)]

LEMMA SelectExists ==
  ASSUME NEW s, NEW I, Len(s) \in Nat
  PROVE  \E g : g = SelectBody(s, I, g)
<1> DEFINE Step(g, i) == SelectStep(s, I, g, i)
           T == {n \in Nat : \E g : g = [i \in 0..n |-> Step(g, i)]}
<1>1. 0 \in T
  <2> DEFINE g == [i \in 0..0 |-> <<>>]
  <2>1. g = [i \in 0..0 |-> Step(g, i)]
    BY DEF SelectStep
  <2> HIDE DEF g
  <2> QED
    BY <2>1
<1>2. ASSUME NEW n \in T PROVE n + 1 \in T
  <2>1. PICK g : g = [i \in 0..n |-> Step(g, i)]
    OBVIOUS
  <2>2. n \in Nat /\ n + 1 \in Nat
    OBVIOUS
  <2> DEFINE h == [i \in 0..(n + 1) |-> Step(g, i)]
  <2>3. \A i \in 0..n : h[i] = g[i]
    <3> HIDE DEF Step
    <3>1. \A i \in 0..n : g[i] = Step(g, i)
      BY <2>1, Zenon
    <3>2. \A i \in 0..n : i \in 0..(n + 1)
      BY <2>2
    <3> QED
      BY <3>1, <3>2
  <2>4. \A i \in 0..(n + 1) : i # 0 => i - 1 \in 0..n
    BY <2>2
  <2> HIDE DEF h
  <2>5. \A i \in 0..(n + 1) : Step(h, i) = Step(g, i)
    BY <2>3, <2>4 DEF SelectStep
  <2> USE DEF h
  <2>6. h = [i \in 0..(n + 1) |-> Step(h, i)]
    BY <2>5
  <2> HIDE DEF h
  <2> QED
    BY <2>2, <2>6
<1>3. Len(s) \in T
  <2>1. T \in SUBSET Nat /\ \A n \in T : n + 1 \in T
    BY <1>2
  <2> HIDE DEF T
  <2> QED
    BY <1>1, <2>1, NatSetInduction
<1> QED
  BY <1>3 DEF SelectBody

LEMMA SelectEquations ==
  ASSUME NEW s, NEW I, Len(s) \in Nat
  PROVE  \E g : /\ Select(s, I) = g[Len(s)]
                /\ g[0] = <<>>
                /\ \A i \in 1..Len(s) :
                     g[i] = IF i \in I THEN Append(g[i - 1], s[i])
                            ELSE g[i - 1]
<1> DEFINE P(g) == g = SelectBody(s, I, g)
           K == CHOOSE g : P(g)
<1>1. \E g : P(g)
  BY SelectExists
<1>2. Select(s, I) = K[Len(s)]
  BY DEF Select, SelectBody, SelectStep
<1> HIDE DEF P
<1>3. P(K)
  BY <1>1, Zenon
<1> USE DEF P
<1> HIDE DEF K
<1>4. \A i \in 0..Len(s) : K[i] = SelectStep(s, I, K, i)
  BY <1>3, Zenon DEF SelectBody
<1>5. K[0] = <<>> /\ \A i \in 1..Len(s) :
        K[i] = IF i \in I THEN Append(K[i - 1], s[i]) ELSE K[i - 1]
  BY <1>4 DEF SelectStep
<1> QED
  BY <1>2, <1>5

(* q holds the elements of the first n at places in I, and pos says where  *)
(* each of them was.                                                       *)
Picked(S, s, I, n, q, pos) ==
  /\ q \in Seq(S)
  /\ pos \in [1..Len(q) -> 1..n]
  /\ \A a \in 1..Len(q) : q[a] = s[pos[a]] /\ pos[a] \in I
  /\ \A a, b \in 1..Len(q) : pos[a] = pos[b] => a = b
  /\ \A i \in 1..n : i \in I => \E a \in 1..Len(q) : pos[a] = i

LEMMA PickedTake ==
  ASSUME NEW S, NEW s \in Seq(S), NEW I, NEW n \in Nat, NEW q, NEW pos,
         n + 1 \in DOMAIN s, Picked(S, s, I, n, q, pos), n + 1 \in I
  PROVE  \E r : Picked(S, s, I, n + 1, Append(q, s[n + 1]), r)
<1> DEFINE t == Append(q, s[n + 1])
           r == [a \in 1..Len(t) |-> IF a \in 1..Len(q) THEN pos[a] ELSE n + 1]
<1>1. q \in Seq(S) /\ Len(q) \in Nat /\ pos \in [1..Len(q) -> 1..n]
  BY DEF Picked
<1>2. s[n + 1] \in S
  OBVIOUS
<1>3. /\ t \in Seq(S) /\ Len(t) = Len(q) + 1
      /\ t[Len(q) + 1] = s[n + 1]
      /\ \A a \in 1..Len(q) : t[a] = q[a]
  BY <1>1, <1>2
<1>4. \A a \in 1..Len(t) :
        a \in 1..Len(q) \/ (a = Len(q) + 1 /\ a \notin 1..Len(q))
  BY <1>1, <1>3
<1> HIDE DEF t
<1>5. /\ \A a \in 1..Len(q) : /\ a \in 1..Len(t) /\ r[a] = pos[a]
                              /\ r[a] \in 1..n
      /\ Len(q) + 1 \in 1..Len(t) /\ r[Len(q) + 1] = n + 1
  BY <1>1, <1>3
<1>6. r \in [1..Len(t) -> 1..(n + 1)]
  BY <1>1, <1>4
<1> HIDE DEF r
<1>7. \A a \in 1..Len(t) : t[a] = s[r[a]] /\ r[a] \in I
  BY <1>3, <1>4, <1>5 DEF Picked
<1>8. \A a, b \in 1..Len(t) : r[a] = r[b] => a = b
  <2> SUFFICES ASSUME NEW a \in 1..Len(t), NEW b \in 1..Len(t), r[a] = r[b]
               PROVE  a = b
    OBVIOUS
  <2>1. CASE a \in 1..Len(q) /\ b \in 1..Len(q)
    BY <1>5, <2>1 DEF Picked
  <2>2. CASE a = Len(q) + 1 /\ b \in 1..Len(q)
    BY <1>5, <2>2
  <2>3. CASE b = Len(q) + 1 /\ a \in 1..Len(q)
    BY <1>5, <2>3
  <2> QED
    BY <1>4, <2>1, <2>2, <2>3
<1>9. \A i \in 1..(n + 1) : i \in I => \E a \in 1..Len(t) : r[a] = i
  <2> SUFFICES ASSUME NEW i \in 1..(n + 1), i \in I
               PROVE  \E a \in 1..Len(t) : r[a] = i
    OBVIOUS
  <2>1. CASE i = n + 1
    BY <1>5, <2>1
  <2>2. CASE i # n + 1
    <3>1. i \in 1..n
      BY <2>2
    <3>2. PICK a \in 1..Len(q) : pos[a] = i
      BY <3>1 DEF Picked
    <3> QED
      BY <1>5, <3>2
  <2> QED
    BY <2>1, <2>2
<1>10. Picked(S, s, I, n + 1, t, r)
  BY <1>3, <1>6, <1>7, <1>8, <1>9 DEF Picked
<1> QED
  BY <1>10 DEF t

LEMMA PickedSkip ==
  ASSUME NEW S, NEW s, NEW I, NEW n \in Nat, NEW q, NEW pos,
         Picked(S, s, I, n, q, pos), n + 1 \notin I
  PROVE  Picked(S, s, I, n + 1, q, pos)
<1>1. q \in Seq(S) /\ Len(q) \in Nat
  BY DEF Picked
<1>2. pos \in [1..Len(q) -> 1..(n + 1)]
  BY <1>1 DEF Picked
<1>3. \A i \in 1..(n + 1) : i \in I => \E a \in 1..Len(q) : pos[a] = i
  BY <1>1 DEF Picked
<1> QED
  BY <1>1, <1>2, <1>3 DEF Picked

LEMMA SelectPicks ==
  ASSUME NEW S, NEW s \in Seq(S), NEW I
  PROVE  \E pos : Picked(S, s, I, Len(s), Select(s, I), pos)
<1>1. Len(s) \in Nat /\ DOMAIN s = 1..Len(s)
  OBVIOUS
<1>2. PICK g : /\ Select(s, I) = g[Len(s)]
               /\ g[0] = <<>>
               /\ \A i \in 1..Len(s) :
                    g[i] = IF i \in I THEN Append(g[i - 1], s[i])
                           ELSE g[i - 1]
  BY <1>1, SelectEquations
<1> DEFINE T == {n \in Nat : n <= Len(s)
                               => \E pos : Picked(S, s, I, n, g[n], pos)}
<1>3. 0 \in T
  <2>1. Picked(S, s, I, 0, <<>>, <<>>)
    BY DEF Picked
  <2> QED
    BY <1>2, <2>1
<1>4. ASSUME NEW n \in T PROVE n + 1 \in T
  <2>1. SUFFICES ASSUME n + 1 <= Len(s)
                 PROVE  \E pos : Picked(S, s, I, n + 1, g[n + 1], pos)
    OBVIOUS
  <2>2. /\ n \in Nat /\ n <= Len(s) /\ n + 1 \in 1..Len(s)
        /\ (n + 1) - 1 = n
    BY <2>1, <1>1
  <2>3. PICK pos : Picked(S, s, I, n, g[n], pos)
    BY <2>2
  <2>4. g[n + 1] = IF n + 1 \in I THEN Append(g[n], s[n + 1]) ELSE g[n]
    BY <1>2, <2>2
  <2> QED
    BY <1>1, <2>2, <2>3, <2>4, PickedSkip, PickedTake
<1>5. Len(s) \in T
  <2>1. T \in SUBSET Nat /\ \A n \in T : n + 1 \in T
    BY <1>4
  <2> HIDE DEF T
  <2> QED
    BY <1>1, <1>3, <2>1, NatSetInduction
<1> QED
  BY <1>1, <1>2, <1>5
----------------------------------------------------------------------------
(* The files, o, and what is left of them when the lines D are gone.       *)
WellFormed(o) == o \in [Paths -> Seq(Line(Paths))]

Lines(o, D) ==
  /\ D \in [Paths -> SUBSET Nat]
  /\ \A p \in Paths : D[p] \subseteq RRLines(o[p])

Without(o, D) ==
  [p \in Paths |-> IF D[p] = {} THEN o[p] ELSE pruneFile(o[p], D[p])]

Gone(D) == {s \in Paths \X Nat : s[2] \in D[s[1]]}

(* h takes the records of the rest q to the records of the file l.         *)
Traces(l, d, q, h) ==
  /\ h \in [RRLines(q) -> RRLines(l) \ d]
  /\ \A j \in RRLines(q) : q[j] = l[h[j]]
  /\ \A a, b \in RRLines(q) : h[a] = h[b] => a = b
  /\ \A i \in RRLines(l) \ d : \E a \in RRLines(q) : h[a] = i

LEMMA RestOfFile ==
  ASSUME NEW S, NEW l \in Seq(S), NEW d \in SUBSET RRLines(l)
  PROVE  LET q == pruneFile(l, d) IN
         /\ q \in Seq(S)
         /\ \E h : Traces(l, d, q, h)
         /\ {q[i].file : i \in {j \in DOMAIN q : q[j].kind = "include"}}
              = {l[i].file : i \in {j \in DOMAIN l : l[j].kind = "include"}}
<1> DEFINE I == {i \in DOMAIN l : i \notin d /\ l[i].kind # "note"}
           q == pruneFile(l, d)
<1>1. PICK pos : Picked(S, l, I, Len(l), q, pos)
  BY SelectPicks DEF pruneFile
<1> HIDE DEF q
<1>2. /\ q \in Seq(S) /\ DOMAIN q = 1..Len(q) /\ DOMAIN l = 1..Len(l)
      /\ \A a \in DOMAIN q : q[a] = l[pos[a]] /\ pos[a] \in I
      /\ \A a, b \in DOMAIN q : pos[a] = pos[b] => a = b
      /\ \A i \in I : \E a \in DOMAIN q : pos[a] = i
  <2>1. I \subseteq 1..Len(l)
    OBVIOUS
  <2> HIDE DEF I
  <2>2. q \in Seq(S) /\ DOMAIN q = 1..Len(q) /\ DOMAIN l = 1..Len(l)
    BY <1>1 DEF Picked
  <2> QED
    BY <1>1, <2>1, <2>2, Zenon DEF Picked
<1> DEFINE h == [j \in RRLines(q) |-> pos[j]]
<1>3. \A j \in RRLines(q) : /\ j \in DOMAIN q /\ q[j] = l[pos[j]]
                            /\ pos[j] \in RRLines(l) \ d
  BY <1>2 DEF RRLines
<1>4. \A i \in RRLines(l) \ d : \E a \in RRLines(q) : pos[a] = i
  <2> TAKE i \in RRLines(l) \ d
  <2>1. i \in I
    BY DEF RRLines
  <2>2. PICK a \in DOMAIN q : pos[a] = i
    BY <1>2, <2>1
  <2>3. a \in RRLines(q)
    BY <1>2, <2>2 DEF RRLines
  <2> QED
    BY <2>2, <2>3
<1>5. Traces(l, d, q, h)
  BY <1>2, <1>3, <1>4 DEF Traces
<1>6. ASSUME NEW j \in DOMAIN q, q[j].kind = "include"
      PROVE  \E i \in DOMAIN l : l[i].kind = "include" /\ l[i].file = q[j].file
  BY <1>2, <1>6
<1>7. ASSUME NEW i \in DOMAIN l, l[i].kind = "include"
      PROVE  \E j \in DOMAIN q : q[j].kind = "include" /\ l[i].file = q[j].file
  <2>1. i \in I
    BY <1>7 DEF RRLines
  <2>2. PICK a \in DOMAIN q : pos[a] = i
    BY <1>2, <2>1
  <2> QED
    BY <1>2, <1>7, <2>2
<1>8. {q[i].file : i \in {j \in DOMAIN q : q[j].kind = "include"}}
        = {l[i].file : i \in {j \in DOMAIN l : l[j].kind = "include"}}
  BY <1>6, <1>7
<1> QED
  BY <1>2, <1>5, <1>8 DEF q

LEMMA WholeFile ==
  ASSUME NEW l
  PROVE  Traces(l, {}, l, [j \in RRLines(l) |-> j])
  BY DEF Traces

LEMMA WithoutFacts ==
  ASSUME NEW o, WellFormed(o), NEW D, Lines(o, D)
  PROVE  LET fs == Without(o, D) IN
         /\ WellFormed(fs)
         /\ \A p \in Paths : \E h : Traces(o[p], D[p], fs[p], h)
         /\ \A p \in Paths : TreeFiles(fs, p) = TreeFiles(o, p)
         /\ \A p \in Paths : D[p] = {} => fs[p] = o[p]
<1> DEFINE fs == Without(o, D)
           Inc(l) == {l[i].file : i \in {j \in DOMAIN l :
                                           l[j].kind = "include"}}
           S == Line(Paths)
<1>1. ASSUME NEW p \in Paths
      PROVE  /\ fs[p] \in Seq(S) /\ \E h : Traces(o[p], D[p], fs[p], h)
             /\ Inc(fs[p]) = Inc(o[p])
             /\ D[p] = {} => fs[p] = o[p]
  <2>1. o[p] \in Seq(S) /\ D[p] \in SUBSET RRLines(o[p])
    BY DEF WellFormed, Lines
  <2>2. CASE D[p] = {}
    <3>1. fs[p] = o[p]
      BY <2>2 DEF Without
    <3> QED
      BY <2>1, <2>2, <3>1, WholeFile
  <2>3. CASE D[p] # {}
    <3>1. fs[p] = pruneFile(o[p], D[p])
      BY <2>3 DEF Without
    <3> HIDE DEF S
    <3> DEFINE r == pruneFile(o[p], D[p])
    <3>2. /\ r \in Seq(S) /\ \E h : Traces(o[p], D[p], r, h)
          /\ Inc(r) = Inc(o[p])
      BY <2>1, RestOfFile
    <3> HIDE DEF r, fs, Inc
    <3>3. fs[p] = r
      BY <3>1 DEF r
    <3> QED
      BY <2>3, <3>2, <3>3
  <2> QED
    BY <2>2, <2>3
<1>2. fs \in [Paths -> Seq(S)]
  <2>1. fs = [p \in Paths |-> fs[p]]
    BY DEF Without
  <2> HIDE DEF fs, S
  <2> QED
    BY <1>1, <2>1
<1>3. \A p \in Paths : TreeFiles(fs, p) = TreeFiles(o, p)
  BY <1>1 DEF TreeFiles, Includes
<1> QED
  BY <1>1, <1>2, <1>3 DEF WellFormed
----------------------------------------------------------------------------
(* Sites, before and after.                                                *)
LEMMA SitesIs ==
  ASSUME NEW fs, NEW f, NEW s
  PROVE  s \in Sites(fs, f) <=> /\ s = <<s[1], s[2]>>
                                /\ s[1] \in TreeFiles(fs, f)
                                /\ s[2] \in RRLines(fs[s[1]])
<1>1. ASSUME s \in Sites(fs, f)
      PROVE  /\ s = <<s[1], s[2]>>
             /\ s[1] \in TreeFiles(fs, f)
             /\ s[2] \in RRLines(fs[s[1]])
  <2>1. PICK g \in TreeFiles(fs, f) : s \in {<<g, i>> : i \in RRLines(fs[g])}
    BY <1>1 DEF Sites
  <2>2. PICK i \in RRLines(fs[g]) : s = <<g, i>>
    BY <2>1
  <2> QED
    BY <2>1, <2>2
<1>2. ASSUME s = <<s[1], s[2]>>, s[1] \in TreeFiles(fs, f),
             s[2] \in RRLines(fs[s[1]])
      PROVE  s \in Sites(fs, f)
  <2>1. s \in {<<s[1], i>> : i \in RRLines(fs[s[1]])}
    BY <1>2
  <2> QED
    BY <1>2, <2>1 DEF Sites
<1> QED
  BY <1>1, <1>2

LEMMA TreeInPaths ==
  ASSUME NEW o, WellFormed(o), NEW f \in Paths
  PROVE  f \in TreeFiles(o, f) /\ TreeFiles(o, f) \subseteq Paths
<1>1. ASSUME NEW i \in DOMAIN o[f], o[f][i].kind = "include"
      PROVE  o[f][i].file \in Paths
  <2>1. o[f][i] \in Line(Paths)
    BY DEF WellFormed
  <2>2. \A x \in Line(Paths) : x.kind = "include" => x.file \in Paths
    BY DEF Line
  <2> QED
    BY <1>1, <2>1, <2>2
<1> QED
  BY <1>1 DEF TreeFiles, Includes

LEMMA ImageFinite ==
  ASSUME NEW S, NEW T, IsFiniteSet(S), NEW g \in [S -> T],
         \A t \in T : \E s \in S : g[s] = t
  PROVE  IsFiniteSet(T)
  BY FS_Surjection DEF Surjection

LEMMA SitesFinite ==
  ASSUME NEW o, WellFormed(o), NEW f \in Paths
  PROVE  IsFiniteSet(Sites(o, f))
<1> DEFINE In(g) == {<<g, i>> : i \in RRLines(o[g])}
           F == {In(g) : g \in TreeFiles(o, f)}
<1>1. IsFiniteSet(Paths)
  <2>1. DOMAIN Files = 1..Len(Files) /\ Len(Files) \in Nat
    BY FilesAssumption
  <2>2. IsFiniteSet(DOMAIN Files)
    BY <2>1, FS_Interval
  <2>3. Files \in [DOMAIN Files -> Paths]
        /\ \A p \in Paths : \E i \in DOMAIN Files : Files[i] = p
    BY FilesAssumption DEF Paths, Range
  <2> QED
    BY <2>2, <2>3, ImageFinite
<1>2. IsFiniteSet(TreeFiles(o, f))
  BY <1>1, TreeInPaths, FS_Subset
<1>3. ASSUME NEW g \in TreeFiles(o, f) PROVE IsFiniteSet(In(g))
  <2>1. g \in Paths
    BY TreeInPaths
  <2>2. o[g] \in Seq(Line(Paths))
    BY <2>1 DEF WellFormed
  <2>3. DOMAIN o[g] = 1..Len(o[g]) /\ Len(o[g]) \in Nat
    BY <2>2
  <2>4. IsFiniteSet(DOMAIN o[g])
    BY <2>3, FS_Interval
  <2>5. IsFiniteSet(RRLines(o[g]))
    BY <2>4, FS_Subset DEF RRLines
  <2> DEFINE m == [i \in RRLines(o[g]) |-> <<g, i>>]
  <2>6. m \in [RRLines(o[g]) -> In(g)]
        /\ \A x \in In(g) : \E i \in RRLines(o[g]) : m[i] = x
    OBVIOUS
  <2> HIDE DEF m, In
  <2> QED
    BY <2>5, <2>6, ImageFinite
<1>4. IsFiniteSet(F)
  <2> DEFINE m == [g \in TreeFiles(o, f) |-> In(g)]
  <2>1. m \in [TreeFiles(o, f) -> F]
        /\ \A x \in F : \E g \in TreeFiles(o, f) : m[g] = x
    <3> HIDE DEF In
    <3> QED
      OBVIOUS
  <2> HIDE DEF m, F
  <2> QED
    BY <1>2, <2>1, ImageFinite
<1>5. \A T \in F : IsFiniteSet(T)
  <2> HIDE DEF In
  <2> QED
    BY <1>3
<1>6. IsFiniteSet(UNION F)
  <2> HIDE DEF F
  <2> QED
    BY <1>4, <1>5, FS_UNION
<1> QED
  BY <1>6 DEF Sites

(* The site a record of the rest had before.                               *)
Trace(o, D, p) == CHOOSE h : Traces(o[p], D[p], Without(o, D)[p], h)
Back(o, D, s) == <<s[1], Trace(o, D, s[1])[s[2]]>>

LEMMA BackFacts ==
  ASSUME NEW o, WellFormed(o), NEW D, Lines(o, D), NEW f \in Paths
  PROVE  LET fs == Without(o, D) IN
         /\ \A s \in Sites(fs, f) :
              /\ Back(o, D, s) \in Sites(o, f) \ Gone(D)
              /\ At(fs, s) = At(o, Back(o, D, s))
         /\ \A s, x \in Sites(fs, f) :
              Back(o, D, s) = Back(o, D, x) => s = x
         /\ \A x \in Sites(o, f) \ Gone(D) :
              \E s \in Sites(fs, f) : Back(o, D, s) = x
<1> DEFINE fs == Without(o, D)
           T(p) == Trace(o, D, p)
<1>1. \A p \in Paths : Traces(o[p], D[p], fs[p], T(p))
  <2> TAKE p \in Paths
  <2>1. \E h : Traces(o[p], D[p], fs[p], h)
    BY WithoutFacts
  <2> QED
    BY <2>1, Zenon DEF Trace
<1>2. TreeFiles(fs, f) = TreeFiles(o, f) /\ TreeFiles(o, f) \subseteq Paths
  BY WithoutFacts, TreeInPaths
<1> HIDE DEF fs, T
<1>3. \A s : Back(o, D, s) = <<s[1], T(s[1])[s[2]]>>
  BY DEF Back, T
<1>4. ASSUME NEW s \in Sites(fs, f)
      PROVE  /\ s = <<s[1], s[2]>> /\ s[1] \in Paths
             /\ s[2] \in RRLines(fs[s[1]])
             /\ T(s[1])[s[2]] \in RRLines(o[s[1]]) \ D[s[1]]
             /\ Back(o, D, s) \in Sites(o, f) \ Gone(D)
             /\ At(fs, s) = At(o, Back(o, D, s))
  <2>1. s = <<s[1], s[2]>> /\ s[1] \in TreeFiles(fs, f)
        /\ s[2] \in RRLines(fs[s[1]])
    BY SitesIs
  <2>2. s[1] \in Paths /\ s[1] \in TreeFiles(o, f)
    BY <1>2, <2>1
  <2> DEFINE k == T(s[1])[s[2]]
  <2>3. k \in RRLines(o[s[1]]) /\ k \notin D[s[1]]
        /\ fs[s[1]][s[2]] = o[s[1]][k]
    BY <1>1, <2>1, <2>2 DEF Traces
  <2> HIDE DEF k
  <2>4. Back(o, D, s) = <<s[1], k>>
    BY <1>3 DEF k
  <2>5. <<s[1], k>> \in Sites(o, f)
    BY <2>2, <2>3, SitesIs
  <2>6. <<s[1], k>> \notin Gone(D)
    BY <2>3 DEF Gone
  <2>7. At(fs, s) = At(o, <<s[1], k>>)
    BY <2>3 DEF At
  <2> QED
    BY <2>1, <2>2, <2>3, <2>4, <2>5, <2>6, <2>7 DEF k
<1>5. ASSUME NEW s \in Sites(fs, f), NEW x \in Sites(fs, f),
             Back(o, D, s) = Back(o, D, x)
      PROVE  s = x
  <2>0. <<s[1], T(s[1])[s[2]]>> = <<x[1], T(x[1])[x[2]]>>
    BY <1>3, <1>5, Zenon
  <2>1. /\ s[1] = x[1] /\ T(s[1])[s[2]] = T(s[1])[x[2]]
    BY <2>0
  <2>2. s[2] = x[2]
    BY <1>1, <1>4, <2>1 DEF Traces
  <2> QED
    BY <1>4, <2>1, <2>2
<1>6. ASSUME NEW x \in Sites(o, f) \ Gone(D)
      PROVE  \E s \in Sites(fs, f) : Back(o, D, s) = x
  <2>1. x = <<x[1], x[2]>> /\ x[1] \in TreeFiles(o, f)
        /\ x[2] \in RRLines(o[x[1]])
    BY SitesIs
  <2>2. x[1] \in Paths /\ x[1] \in TreeFiles(fs, f)
    BY <1>2, <2>1
  <2>3. x[2] \in Nat
    <3>1. o[x[1]] \in Seq(Line(Paths))
      BY <2>2 DEF WellFormed
    <3> QED
      BY <2>1, <3>1 DEF RRLines
  <2>4. x[2] \notin D[x[1]]
    BY <2>1, <2>2, <2>3 DEF Gone
  <2>5. PICK j \in RRLines(fs[x[1]]) : T(x[1])[j] = x[2]
    BY <1>1, <2>1, <2>2, <2>4 DEF Traces
  <2>6. <<x[1], j>> \in Sites(fs, f)
    BY <2>2, <2>5, SitesIs
  <2>7. Back(o, D, <<x[1], j>>) = x
    <3> DEFINE y == <<x[1], j>>
    <3>1. y[1] = x[1] /\ y[2] = j
      OBVIOUS
    <3> HIDE DEF y
    <3>2. Back(o, D, y) = <<x[1], T(x[1])[j]>>
      BY <1>3, <3>1, Zenon
    <3> QED
      BY <2>1, <2>5, <3>2 DEF y
  <2> QED
    BY <2>6, <2>7
<1> QED
  BY <1>4, <1>5, <1>6 DEF fs
----------------------------------------------------------------------------
(* RRsets, before and after.                                               *)
Fits(line, origin, owner, type, d) ==
  LexedOwner(line, origin) = owner /\ line.type = type /\ line.data = d

LEMMA WithDataIs ==
  ASSUME NEW fs, NEW f, NEW origin, NEW owner, NEW type, NEW d, NEW G, NEW s
  PROVE  s \in WithData(fs, RRSet(fs, f, origin, owner, type) \ G, d) <=>
           s \in Sites(fs, f) \ G /\ Fits(At(fs, s), origin, owner, type, d)
  BY DEF WithData, RRSet, Fits

LEMMA CountIs ==
  ASSUME NEW o, WellFormed(o), NEW D, Lines(o, D), NEW f \in Paths,
         NEW origin, NEW owner, NEW type, NEW d
  PROVE  LET fs == Without(o, D)
             A == WithData(fs, RRSet(fs, f, origin, owner, type), d)
             B == WithData(o, RRSet(o, f, origin, owner, type) \ Gone(D), d)
         IN IsFiniteSet(A) /\ IsFiniteSet(B) /\ Cardinality(A) = Cardinality(B)
<1> DEFINE fs == Without(o, D)
           A == WithData(fs, RRSet(fs, f, origin, owner, type), d)
           B == WithData(o, RRSet(o, f, origin, owner, type) \ Gone(D), d)
           g == [s \in A |-> Back(o, D, s)]
<1>1. \A s : s \in A <=> /\ s \in Sites(fs, f)
                         /\ Fits(At(fs, s), origin, owner, type, d)
  BY DEF WithData, RRSet, Fits
<1>2. \A s : s \in B <=> /\ s \in Sites(o, f) \ Gone(D)
                         /\ Fits(At(o, s), origin, owner, type, d)
  BY WithDataIs
<1>3. /\ \A s \in Sites(fs, f) :
           /\ Back(o, D, s) \in Sites(o, f) \ Gone(D)
           /\ At(fs, s) = At(o, Back(o, D, s))
      /\ \A s, x \in Sites(fs, f) :
           Back(o, D, s) = Back(o, D, x) => s = x
      /\ \A x \in Sites(o, f) \ Gone(D) :
           \E s \in Sites(fs, f) : Back(o, D, s) = x
  BY BackFacts
<1>4. IsFiniteSet(Sites(fs, f))
  BY WithoutFacts, SitesFinite
<1> HIDE DEF fs, A, B
<1>5. IsFiniteSet(A)
  BY <1>1, <1>4, FS_Subset
<1>6. /\ \A s \in A : Back(o, D, s) \in B
      /\ \A s, x \in A : Back(o, D, s) = Back(o, D, x) => s = x
      /\ \A x \in B : \E s \in A : Back(o, D, s) = x
  BY <1>1, <1>2, <1>3
<1>7. g \in Bijection(A, B)
  <2>1. /\ g \in [A -> B]
        /\ \A s, x \in A : g[s] = g[x] => s = x
        /\ \A x \in B : \E s \in A : g[s] = x
    BY <1>6
  <2> HIDE DEF g
  <2> QED
    BY <2>1 DEF Bijection, Injection, Surjection, IsInjective
<1>8. IsFiniteSet(B) /\ Cardinality(B) = Cardinality(A)
  BY <1>5, <1>7, FS_Bijection DEF ExistsBijection
<1> QED
  BY <1>5, <1>8 DEF A, B, fs

(* Two RRsets are equal if they have every datum equally often.            *)
LEMMA EqualIs ==
  ASSUME NEW fs, NEW a, NEW b
  PROVE  rrsetEqual(fs, a, b) <=>
           \A d : Cardinality(WithData(fs, a, d))
                    = Cardinality(WithData(fs, b, d))
<1>1. ASSUME rrsetEqual(fs, a, b), NEW d
      PROVE  Cardinality(WithData(fs, a, d)) = Cardinality(WithData(fs, b, d))
  <2>1. CASE \E s \in a \cup b : At(fs, s).data = d
    BY <1>1, <2>1 DEF rrsetEqual
  <2>2. CASE ~ \E s \in a \cup b : At(fs, s).data = d
    <3>1. WithData(fs, a, d) = {} /\ WithData(fs, b, d) = {}
      BY <2>2 DEF WithData
    <3> QED
      BY <3>1
  <2> QED
    BY <2>1, <2>2
<1> QED
  BY <1>1 DEF rrsetEqual

(* The files of a tree that lost nothing.                                  *)
LEMMA TreeUnmoved ==
  ASSUME NEW o, WellFormed(o), NEW D, Lines(o, D), NEW f \in Paths,
         \A p \in TreeFiles(o, f) : D[p] = {},
         NEW origin, NEW owner, NEW type
  PROVE  LET fs == Without(o, D)
             R == RRSet(o, f, origin, owner, type)
         IN /\ Sites(fs, f) = Sites(o, f)
            /\ \A s \in Sites(o, f) : fs[s[1]] = o[s[1]]
            /\ RRSet(fs, f, origin, owner, type) = R
            /\ \A d : WithData(fs, R, d) = WithData(o, R, d)
<1> DEFINE fs == Without(o, D)
           R == RRSet(o, f, origin, owner, type)
<1>1. /\ TreeFiles(fs, f) = TreeFiles(o, f) /\ TreeFiles(o, f) \subseteq Paths
      /\ \A p \in TreeFiles(o, f) : fs[p] = o[p]
  BY WithoutFacts, TreeInPaths
<1> HIDE DEF fs
<1>2. \A s : s \in Sites(fs, f) <=> s \in Sites(o, f)
  <2> TAKE s
  <2>1. s \in Sites(fs, f) <=> /\ s = <<s[1], s[2]>>
                               /\ s[1] \in TreeFiles(fs, f)
                               /\ s[2] \in RRLines(fs[s[1]])
    BY SitesIs
  <2>2. s \in Sites(o, f) <=> /\ s = <<s[1], s[2]>>
                              /\ s[1] \in TreeFiles(o, f)
                              /\ s[2] \in RRLines(o[s[1]])
    BY SitesIs
  <2> QED
    BY <1>1, <2>1, <2>2
<1>3. Sites(fs, f) = Sites(o, f)
  BY <1>2
<1>4. \A s \in Sites(o, f) : fs[s[1]] = o[s[1]]
  BY <1>1, SitesIs
<1>5. \A s \in Sites(o, f) : At(fs, s) = At(o, s)
  BY <1>4 DEF At
<1>6. RRSet(fs, f, origin, owner, type) = R
  BY <1>3, <1>5 DEF RRSet
<1>7. R \subseteq Sites(o, f)
  BY DEF RRSet
<1>8. \A d : WithData(fs, R, d) = WithData(o, R, d)
  <2> HIDE DEF R
  <2> QED
    BY <1>5, <1>7 DEF WithData
<1> QED
  BY <1>3, <1>4, <1>6, <1>8 DEF fs
----------------------------------------------------------------------------
(* The decision on an RRset when lines of it, or of others, are gone.      *)
PairOfFiles == [backup : Paths, root : Paths \cup {NoFile}]

RootWhole(o, D, pair) ==
  pair.root # NoFile => \A p \in TreeFiles(o, pair.root) : D[p] = {}

Group(o, pair, owner, type) ==
  RRSet(o, pair.backup, BackupOrigin, owner, type)

RootGroup(o, pair, owner, type) ==
  RRSet(o, pair.root, RootOrigin,
        RewriteName(owner, BackupOrigin, RootOrigin), type)

LEMMA DecisionIs ==
  ASSUME NEW fs, NEW pair, NEW owner, NEW type
  PROVE  /\ type \notin Overridable \/ pair.root = NoFile =>
              Decision(fs, pair, owner, type)
                = classifyWithoutRoot(owner, type, BackupOrigin)
         /\ type \in Overridable /\ pair.root # NoFile =>
              (Decision(fs, pair, owner, type) = "delete" <=>
                 rrsetEqual(fs, Group(fs, pair, owner, type),
                            RootGroup(fs, pair, owner, type)))
         /\ type \in Overridable /\ pair.root = NoFile =>
              Decision(fs, pair, owner, type) # "delete"
<1>1. type \in Overridable =>
        classifyWithoutRoot(owner, type, BackupOrigin) = "retain"
  BY Zenon DEF classifyWithoutRoot
<1>2. "retain" # "delete"
  OBVIOUS
<1>3. pair.root = NoFile => Decision(fs, pair, owner, type)
                              = classifyWithoutRoot(owner, type, BackupOrigin)
  BY Zenon DEF Decision
<1>4. pair.root # NoFile =>
        Decision(fs, pair, owner, type)
          = classify(fs, Group(fs, pair, owner, type),
                     RootGroup(fs, pair, owner, type), owner, type,
                     BackupOrigin)
  BY Zenon DEF Decision, Group, RootGroup
<1>5. type \notin Overridable =>
        \A a, b : classify(fs, a, b, owner, type, BackupOrigin)
                    = classifyWithoutRoot(owner, type, BackupOrigin)
  BY Zenon DEF classify
<1>6. type \in Overridable =>
        \A a, b : classify(fs, a, b, owner, type, BackupOrigin)
                    = IF rrsetEqual(fs, a, b) THEN "delete" ELSE "retain"
  BY <1>1, Zenon DEF classify
<1>7. type \in Overridable /\ pair.root # NoFile =>
        (Decision(fs, pair, owner, type) = "delete" <=>
           rrsetEqual(fs, Group(fs, pair, owner, type),
                      RootGroup(fs, pair, owner, type)))
  BY <1>2, <1>4, <1>6, Zenon
<1> QED
  BY <1>1, <1>2, <1>3, <1>4, <1>5, <1>7, Zenon

(* Counts in the rest, in terms of the files as they were.                 *)
LEMMA EqualAfter ==
  ASSUME NEW o, WellFormed(o), NEW D, Lines(o, D), NEW pair \in PairOfFiles,
         pair.root # NoFile, RootWhole(o, D, pair), NEW owner, NEW type
  PROVE  LET fs == Without(o, D) IN
         rrsetEqual(fs, Group(fs, pair, owner, type),
                    RootGroup(fs, pair, owner, type)) <=>
           \A d : Cardinality(WithData(o, Group(o, pair, owner, type)
                                            \ Gone(D), d))
                    = Cardinality(WithData(o, RootGroup(o, pair, owner, type),
                                           d))
<1> DEFINE fs == Without(o, D)
           G == Group(o, pair, owner, type)
           R == RootGroup(o, pair, owner, type)
           H == Group(fs, pair, owner, type)
           Q == RootGroup(fs, pair, owner, type)
<1>0. pair.backup \in Paths /\ pair.root \in Paths
  BY DEF PairOfFiles
<1>1. \A d : Cardinality(WithData(fs, H, d))
               = Cardinality(WithData(o, G \ Gone(D), d))
  BY <1>0, CountIs DEF Group
<1>2. Q = R /\ \A d : WithData(fs, R, d) = WithData(o, R, d)
  BY <1>0, TreeUnmoved DEF RootWhole, RootGroup
<1> HIDE DEF fs, G, R, H, Q
<1>3. rrsetEqual(fs, H, Q) <=>
        \A d : Cardinality(WithData(fs, H, d))
                 = Cardinality(WithData(fs, Q, d))
  BY EqualIs
<1>4. rrsetEqual(fs, H, Q) <=>
        \A d : Cardinality(WithData(o, G \ Gone(D), d))
                 = Cardinality(WithData(o, R, d))
  BY <1>1, <1>2, <1>3
<1> QED
  BY <1>4 DEF fs, G, R, H, Q

(* An RRset that lost nothing is judged as before.                         *)
LEMMA DecisionUnmoved ==
  ASSUME NEW o, WellFormed(o), NEW D, Lines(o, D), NEW pair \in PairOfFiles,
         RootWhole(o, D, pair), NEW owner, NEW type,
         Group(o, pair, owner, type) \cap Gone(D) = {}
  PROVE  Decision(Without(o, D), pair, owner, type) = "delete"
           <=> Decision(o, pair, owner, type) = "delete"
<1> DEFINE fs == Without(o, D)
           G == Group(o, pair, owner, type)
           R == RootGroup(o, pair, owner, type)
<1>1. CASE type \notin Overridable \/ pair.root = NoFile
  <2>1. Decision(fs, pair, owner, type)
          = classifyWithoutRoot(owner, type, BackupOrigin)
    BY <1>1, DecisionIs, Zenon
  <2>2. Decision(o, pair, owner, type)
          = classifyWithoutRoot(owner, type, BackupOrigin)
    BY <1>1, DecisionIs, Zenon
  <2> QED
    BY <2>1, <2>2
<1>2. CASE type \in Overridable /\ pair.root # NoFile
  <2>1. G \ Gone(D) = G
    OBVIOUS
  <2>2. rrsetEqual(fs, Group(fs, pair, owner, type),
                   RootGroup(fs, pair, owner, type)) <=>
          \A d : Cardinality(WithData(o, G \ Gone(D), d))
                   = Cardinality(WithData(o, R, d))
    BY <1>2, EqualAfter
  <2>3. rrsetEqual(o, G, R) <=>
          \A d : Cardinality(WithData(o, G, d))
                   = Cardinality(WithData(o, R, d))
    BY EqualIs
  <2>4. rrsetEqual(fs, Group(fs, pair, owner, type),
                   RootGroup(fs, pair, owner, type)) <=> rrsetEqual(o, G, R)
    <3> HIDE DEF fs, G, R
    <3> QED
      BY <2>1, <2>2, <2>3
  <2>5. /\ Decision(fs, pair, owner, type) = "delete" <=>
             rrsetEqual(fs, Group(fs, pair, owner, type),
                        RootGroup(fs, pair, owner, type))
        /\ Decision(o, pair, owner, type) = "delete" <=> rrsetEqual(o, G, R)
    BY <1>2, DecisionIs, Zenon
  <2> QED
    BY <2>4, <2>5, Zenon
<1> QED
  BY <1>1, <1>2, Zenon

(* One that was equal to the root's and lost a line is not equal any more. *)
LEMMA DecisionFlips ==
  ASSUME NEW o, WellFormed(o), NEW D, Lines(o, D), NEW pair \in PairOfFiles,
         RootWhole(o, D, pair), pair.root # NoFile,
         NEW owner, NEW type \in Overridable,
         Decision(o, pair, owner, type) = "delete",
         NEW s \in Group(o, pair, owner, type) \cap Gone(D)
  PROVE  Decision(Without(o, D), pair, owner, type) # "delete"
<1> DEFINE fs == Without(o, D)
           G == Group(o, pair, owner, type)
           R == RootGroup(o, pair, owner, type)
           d == At(o, s).data
           A == WithData(o, G, d)
           B == WithData(o, G \ Gone(D), d)
<1>1. IsFiniteSet(A)
  <2>1. A \subseteq Sites(o, pair.backup)
    BY DEF WithData, Group, RRSet
  <2>2. IsFiniteSet(Sites(o, pair.backup))
    BY SitesFinite DEF PairOfFiles
  <2> HIDE DEF A
  <2> QED
    BY <2>1, <2>2, FS_Subset
<1>2. s \in A /\ s \notin B /\ B \subseteq A
  BY DEF WithData
<1>3. Cardinality(B) # Cardinality(A)
  <2> HIDE DEF A, B
  <2> QED
    BY <1>1, <1>2, FS_Subset
<1>4. rrsetEqual(o, G, R)
  BY DecisionIs, Zenon
<1>5. Cardinality(A) = Cardinality(WithData(o, R, d))
  BY <1>4, EqualIs
<1>6. rrsetEqual(fs, Group(fs, pair, owner, type),
                 RootGroup(fs, pair, owner, type)) =>
        Cardinality(B) = Cardinality(WithData(o, R, d))
  <2>1. rrsetEqual(fs, Group(fs, pair, owner, type),
                   RootGroup(fs, pair, owner, type)) <=>
          \A x : Cardinality(WithData(o, G \ Gone(D), x))
                   = Cardinality(WithData(o, R, x))
    BY EqualAfter
  <2> HIDE DEF fs, G, R
  <2> QED
    BY <2>1, Zenon
<1> HIDE DEF A, B
<1>7. ~rrsetEqual(fs, Group(fs, pair, owner, type),
                  RootGroup(fs, pair, owner, type))
  BY <1>3, <1>5, <1>6, Zenon
<1> QED
  BY <1>7, DecisionIs, Zenon
----------------------------------------------------------------------------
(* What may be missing from the files o of the pairs ps.  Broken: an RRset *)
(* that the root covered and that lost lines, so that nothing deletes the  *)
(* others.  FileSound: the lines L that p lost were to be deleted at first *)
(* and are whole RRsets as far as p has them, and whatever p kept of what  *)
(* was to be deleted is broken.                                            *)
SetOf(o, pair, s) ==
  Group(o, pair, LexedOwner(At(o, s), BackupOrigin), At(o, s).type)

Broken(o, pair, s, D) ==
  /\ pair.root # NoFile /\ At(o, s).type \in Overridable
  /\ SetOf(o, pair, s) \cap Gone(D) # {}

FileSound(o, ps, D, p, L) ==
  /\ L \subseteq RRLines(o[p])
  /\ \A k \in L : \E i \in DOMAIN ps : <<p, k>> \in Deletions(o, ps[i])
  /\ \A i \in DOMAIN ps : \A s \in Sites(o, ps[i].backup) :
       \A x \in SetOf(o, ps[i], s) :
         s[1] = p /\ x[1] = p /\ x[2] \in L => s[2] \in L
  /\ L # {} => \A i \in DOMAIN ps : \A s \in Deletions(o, ps[i]) :
                 s[1] = p /\ s[2] \notin L => Broken(o, ps[i], s, D)

Sound(o, ps, D) ==
  D \in [Paths -> SUBSET Nat] /\ \A p \in Paths : FileSound(o, ps, D, p, D[p])

Apart(o, ps) ==
  /\ \A i, j \in DOMAIN ps : \A p \in TreeFiles(o, ps[i].backup) :
       p \in TreeFiles(o, ps[j].backup) => i = j
  /\ \A i, j \in DOMAIN ps : \A p \in TreeFiles(o, ps[i].backup) :
       ps[j].root # NoFile => p \notin TreeFiles(o, ps[j].root)

LEMMA SoundLines ==
  ASSUME NEW o, NEW ps, NEW D, Sound(o, ps, D)
  PROVE  Lines(o, D)
  BY DEF Sound, FileSound, Lines

LEMMA DeletionsAre ==
  ASSUME NEW o, NEW pair, NEW s
  PROVE  s \in Deletions(o, pair) <=>
           /\ s \in Sites(o, pair.backup)
           /\ Decision(o, pair, LexedOwner(At(o, s), BackupOrigin),
                       At(o, s).type) = "delete"
  BY DEF Deletions

LEMMA SetOfFacts ==
  ASSUME NEW o, NEW pair, NEW s \in Sites(o, pair.backup), NEW x
  PROVE  /\ s \in SetOf(o, pair, s)
         /\ x \in SetOf(o, pair, s) =>
              /\ x \in Sites(o, pair.backup)
              /\ LexedOwner(At(o, x), BackupOrigin)
                   = LexedOwner(At(o, s), BackupOrigin)
              /\ At(o, x).type = At(o, s).type
  BY DEF SetOf, Group, RRSet

(* A tree that only serves as a root loses nothing.                        *)
LEMMA RootStays ==
  ASSUME NEW o, NEW ps, NEW D, Sound(o, ps, D), WellFormed(o), Apart(o, ps),
         ps \in Seq(PairOfFiles), NEW i \in DOMAIN ps
  PROVE  RootWhole(o, D, ps[i])
<1> SUFFICES ASSUME ps[i].root # NoFile, NEW p \in TreeFiles(o, ps[i].root),
                    NEW k \in D[p]
             PROVE  FALSE
  BY DEF RootWhole
<1>1. p \in Paths
  <2>1. ps[i] \in PairOfFiles
    OBVIOUS
  <2>2. ps[i].root \in Paths
    BY <2>1 DEF PairOfFiles
  <2> QED
    BY <2>2, TreeInPaths
<1>2. PICK j \in DOMAIN ps : <<p, k>> \in Deletions(o, ps[j])
  BY <1>1 DEF Sound, FileSound
<1>3. p \in TreeFiles(o, ps[j].backup)
  <2>1. <<p, k>> \in Sites(o, ps[j].backup)
    BY <1>2, DeletionsAre
  <2> QED
    BY <2>1, SitesIs
<1> QED
  BY <1>3 DEF Apart

(* A line that a plan for the rest deletes was to be deleted before, and   *)
(* its file has lost nothing yet.                                          *)
LEMMA PlanIsOld ==
  ASSUME NEW o, NEW ps, NEW D, Sound(o, ps, D), WellFormed(o), Apart(o, ps),
         ps \in Seq(PairOfFiles), NEW i \in DOMAIN ps,
         NEW s \in Sites(o, ps[i].backup) \ Gone(D),
         Decision(Without(o, D), ps[i], LexedOwner(At(o, s), BackupOrigin),
                  At(o, s).type) = "delete"
  PROVE  s \in Deletions(o, ps[i]) /\ D[s[1]] = {}
<1> DEFINE own == LexedOwner(At(o, s), BackupOrigin)
           typ == At(o, s).type
           G == Group(o, ps[i], own, typ)
<1>0. /\ Lines(o, D) /\ RootWhole(o, D, ps[i]) /\ ps[i] \in PairOfFiles
      /\ ps[i].backup \in Paths
  <2>1. ps[i] \in PairOfFiles
    OBVIOUS
  <2>2. ps[i].backup \in Paths
    BY <2>1 DEF PairOfFiles
  <2> QED
    BY <2>1, <2>2, SoundLines, RootStays
<1>1. s \in Deletions(o, ps[i])
  <2> SUFFICES ASSUME s \notin Deletions(o, ps[i]) PROVE FALSE
    OBVIOUS
  <2>1. Decision(o, ps[i], own, typ) # "delete"
    BY DeletionsAre
  <2>2. ASSUME NEW y \in G PROVE y \notin Gone(D)
    <3>1. y \in Sites(o, ps[i].backup)
          /\ LexedOwner(At(o, y), BackupOrigin) = own /\ At(o, y).type = typ
      BY SetOfFacts DEF SetOf
    <3>2. y \notin Deletions(o, ps[i])
      BY <2>1, <3>1, DeletionsAre
    <3>3. /\ y = <<y[1], y[2]>> /\ y[1] \in TreeFiles(o, ps[i].backup)
      BY <3>1, SitesIs
    <3> SUFFICES ASSUME y \in Gone(D) PROVE FALSE
      OBVIOUS
    <3>4. y[1] \in Paths /\ y[2] \in D[y[1]]
      BY DEF Gone
    <3>5. PICK j \in DOMAIN ps : <<y[1], y[2]>> \in Deletions(o, ps[j])
      BY <3>4 DEF Sound, FileSound
    <3>6. y[1] \in TreeFiles(o, ps[j].backup)
      BY <3>3, <3>5, DeletionsAre, SitesIs
    <3> QED
      BY <3>2, <3>3, <3>5, <3>6 DEF Apart
  <2>3. G \cap Gone(D) = {}
    BY <2>2
  <2> HIDE DEF G, own, typ
  <2> QED
    BY <1>0, <2>1, <2>3, DecisionUnmoved DEF G, own, typ
<1>2. ~Broken(o, ps[i], s, D)
  <2> SUFFICES ASSUME Broken(o, ps[i], s, D) PROVE FALSE
    OBVIOUS
  <2>1. /\ ps[i].root # NoFile /\ typ \in Overridable
    BY DEF Broken
  <2>2. PICK y : y \in G \cap Gone(D)
    BY DEF Broken, SetOf
  <2>3. Decision(o, ps[i], own, typ) = "delete"
    BY <1>1, DeletionsAre
  <2> HIDE DEF G, own, typ
  <2> QED
    BY <1>0, <2>1, <2>2, <2>3, DecisionFlips DEF G, own, typ
<1>3. /\ s = <<s[1], s[2]>> /\ s[1] \in Paths /\ s[2] \in Nat
  <2>1. s = <<s[1], s[2]>> /\ s[1] \in TreeFiles(o, ps[i].backup)
        /\ s[2] \in RRLines(o[s[1]])
    BY SitesIs
  <2>2. s[1] \in Paths
    BY <1>0, <2>1, TreeInPaths
  <2>3. o[s[1]] \in Seq(Line(Paths))
    BY <2>2 DEF WellFormed
  <2> QED
    BY <2>1, <2>2, <2>3 DEF RRLines
<1>4. s[2] \notin D[s[1]]
  BY <1>3 DEF Gone
<1> QED
  BY <1>1, <1>2, <1>3, <1>4 DEF Sound, FileSound

(* What the plan for a pair makes of a file, when the lines D are gone.    *)
Planning(o, ps, D, p, new) ==
  /\ p \in Paths /\ D[p] = {}
  /\ \E L : /\ L # {} /\ FileSound(o, ps, D, p, L)
            /\ new = pruneFile(o[p], L)

LEMMA PlanIs ==
  ASSUME NEW o, NEW ps, NEW D, Sound(o, ps, D), WellFormed(o), Apart(o, ps),
         ps \in Seq(PairOfFiles), NEW i \in DOMAIN ps,
         NEW p \in DOMAIN PlanPair(Without(o, D), ps[i])
  PROVE  Planning(o, ps, D, p, PlanPair(Without(o, D), ps[i])[p])
<1> DEFINE fs == Without(o, D)
           pair == ps[i]
           E == Deletions(fs, pair)
           L == {s[2] : s \in {x \in E : x[1] = p}}
           Own(s) == LexedOwner(At(o, s), BackupOrigin)
           Typ(s) == At(o, s).type
           Del(s) == Decision(fs, pair, Own(s), Typ(s)) = "delete"
<1>0. /\ Lines(o, D) /\ RootWhole(o, D, pair) /\ pair \in PairOfFiles
      /\ pair.backup \in Paths
  <2>1. pair \in PairOfFiles
    OBVIOUS
  <2>2. pair.backup \in Paths
    BY <2>1 DEF PairOfFiles
  <2> QED
    BY <2>1, <2>2, SoundLines, RootStays
<1>1. /\ DOMAIN PlanPair(fs, pair) = {s[1] : s \in E}
      /\ PlanPair(fs, pair)[p] = pruneFile(fs[p], L)
  BY DEF PlanPair, PrunedFiles
<1>2. PICK e \in E : e[1] = p
  BY <1>1
<1> HIDE DEF fs, pair
<1>3. D[p] = {} /\ p \in TreeFiles(o, pair.backup)
  <2> DEFINE x == Back(o, D, e)
  <2>1. /\ e \in Sites(fs, pair.backup)
        /\ Decision(fs, pair, LexedOwner(At(fs, e), BackupOrigin),
                    At(fs, e).type) = "delete"
    BY DeletionsAre
  <2>2. x \in Sites(o, pair.backup) \ Gone(D) /\ At(fs, e) = At(o, x)
    BY <1>0, <2>1, BackFacts DEF fs
  <2>3. x[1] = p
    BY <1>2 DEF Back
  <2> HIDE DEF x
  <2>4. Decision(fs, pair, Own(x), Typ(x)) = "delete"
    BY <2>1, <2>2
  <2>5. D[x[1]] = {}
    BY <2>2, <2>4, PlanIsOld DEF fs, pair
  <2>6. x[1] \in TreeFiles(o, pair.backup)
    BY <2>2, SitesIs
  <2> QED
    BY <2>3, <2>5, <2>6
<1>4. /\ p \in Paths /\ fs[p] = o[p]
      /\ TreeFiles(fs, pair.backup) = TreeFiles(o, pair.backup)
  BY <1>0, <1>3, TreeInPaths, WithoutFacts DEF fs
(* In p the sites are those there were, and L has those that are deleted.  *)
<1>5. \A k : k \in L <=> <<p, k>> \in E
  <2>1. \A s \in E : s = <<s[1], s[2]>>
    BY DeletionsAre, SitesIs
  <2> HIDE DEF E
  <2> QED
    BY <2>1
<1>6. \A k : <<p, k>> \in Sites(fs, pair.backup)
               <=> <<p, k>> \in Sites(o, pair.backup)
  <2> TAKE k
  <2> DEFINE s == <<p, k>>
  <2>0. s[1] = p /\ s[2] = k
    OBVIOUS
  <2> HIDE DEF s
  <2>1. s \in Sites(fs, pair.backup) <=> /\ s = <<s[1], s[2]>>
                                         /\ s[1] \in TreeFiles(fs, pair.backup)
                                         /\ s[2] \in RRLines(fs[s[1]])
    BY SitesIs
  <2>2. s \in Sites(o, pair.backup) <=> /\ s = <<s[1], s[2]>>
                                        /\ s[1] \in TreeFiles(o, pair.backup)
                                        /\ s[2] \in RRLines(o[s[1]])
    BY SitesIs
  <2>3. s \in Sites(fs, pair.backup) <=> s \in Sites(o, pair.backup)
    BY <1>4, <2>0, <2>1, <2>2
  <2> QED
    BY <2>3 DEF s
<1>7. \A k : k \in L <=> <<p, k>> \in Sites(o, pair.backup) /\ Del(<<p, k>>)
  <2> TAKE k
  <2>1. At(fs, <<p, k>>) = At(o, <<p, k>>)
    BY <1>4 DEF At
  <2>2. <<p, k>> \in E <=>
          /\ <<p, k>> \in Sites(fs, pair.backup)
          /\ Decision(fs, pair, LexedOwner(At(fs, <<p, k>>), BackupOrigin),
                      At(fs, <<p, k>>).type) = "delete"
    BY DeletionsAre
  <2> HIDE DEF L, E
  <2> QED
    BY <1>5, <1>6, <2>1, <2>2
<1>8. L # {}
  BY <1>2
<1> HIDE DEF L, E
<1>9. \A k : <<p, k>> \notin Gone(D)
  BY <1>3 DEF Gone
<1>10. ASSUME NEW k \in L
       PROVE  <<p, k>> \in Deletions(o, pair) /\ k \in RRLines(o[p])
  <2> DEFINE s == <<p, k>>
  <2>1. s \in Sites(o, pair.backup) \ Gone(D) /\ s[1] = p /\ s[2] = k
    BY <1>7, <1>9
  <2>2. Decision(fs, pair, LexedOwner(At(o, s), BackupOrigin), At(o, s).type)
          = "delete"
    BY <1>7
  <2> HIDE DEF s
  <2>3. s \in Deletions(o, pair)
    BY <2>1, <2>2, PlanIsOld DEF fs, pair
  <2>4. s[2] \in RRLines(o[s[1]])
    BY <2>1, SitesIs
  <2> QED
    BY <2>1, <2>3, <2>4 DEF s
(* Only this pair reads p.                                                 *)
<1>11. ASSUME NEW j \in DOMAIN ps, NEW s \in Sites(o, ps[j].backup), s[1] = p
       PROVE  j = i /\ s = <<p, s[2]>> /\ s \in Sites(o, pair.backup)
  <2>1. s = <<s[1], s[2]>> /\ s[1] \in TreeFiles(o, ps[j].backup)
    BY SitesIs
  <2>2. j = i
    BY <1>3, <1>11, <2>1 DEF Apart, pair
  <2> QED
    BY <1>11, <2>1, <2>2 DEF pair
<1>12. ASSUME NEW j \in DOMAIN ps, NEW s \in Sites(o, ps[j].backup),
              NEW x \in SetOf(o, ps[j], s), s[1] = p, x[1] = p, x[2] \in L
       PROVE  s[2] \in L
  <2>1. /\ x \in Sites(o, ps[j].backup) /\ Own(x) = Own(s) /\ Typ(x) = Typ(s)
    BY SetOfFacts
  <2>2. x = <<p, x[2]>> /\ s = <<p, s[2]>> /\ s \in Sites(o, pair.backup)
    BY <1>11, <1>12, <2>1
  <2>3. Del(x)
    BY <1>7, <1>12, <2>2
  <2>4. Del(s)
    BY <2>1, <2>3
  <2> QED
    BY <1>7, <2>2, <2>4
<1>13. ASSUME NEW j \in DOMAIN ps, NEW s \in Deletions(o, ps[j]),
              s[1] = p, s[2] \notin L
       PROVE  Broken(o, ps[j], s, D)
  <2>1. s \in Sites(o, ps[j].backup)
        /\ Decision(o, ps[j], Own(s), Typ(s)) = "delete"
    BY DeletionsAre
  <2>2. j = i /\ s = <<p, s[2]>> /\ s \in Sites(o, pair.backup)
    BY <1>11, <1>13, <2>1
  <2>3. Decision(o, pair, Own(s), Typ(s)) = "delete"
    BY <2>1, <2>2 DEF pair
  <2>4. ~Del(s)
    BY <1>7, <1>13, <2>2
  <2> DEFINE G == Group(o, pair, Own(s), Typ(s))
  <2>5. G \cap Gone(D) # {}
    <3> SUFFICES ASSUME G \cap Gone(D) = {} PROVE FALSE
      OBVIOUS
    <3> HIDE DEF Own, Typ
    <3> QED
      BY <1>0, <2>3, <2>4, DecisionUnmoved DEF fs
  <2>6. pair.root # NoFile /\ Typ(s) \in Overridable
    <3> SUFFICES ASSUME Typ(s) \notin Overridable \/ pair.root = NoFile
                 PROVE  FALSE
      OBVIOUS
    <3> HIDE DEF Own, Typ
    <3>1. Decision(fs, pair, Own(s), Typ(s))
            = classifyWithoutRoot(Own(s), Typ(s), BackupOrigin)
      BY DecisionIs, Zenon
    <3>2. Decision(o, pair, Own(s), Typ(s))
            = classifyWithoutRoot(Own(s), Typ(s), BackupOrigin)
      BY DecisionIs, Zenon
    <3> QED
      BY <2>3, <2>4, <3>1, <3>2
  <2> QED
    BY <2>2, <2>5, <2>6 DEF Broken, SetOf, pair
<1>14. FileSound(o, ps, D, p, L)
  <2>1. /\ L \subseteq RRLines(o[p])
        /\ \A k \in L : \E j \in DOMAIN ps : <<p, k>> \in Deletions(o, ps[j])
    BY <1>10 DEF pair
  <2> QED
    BY <1>12, <1>13, <2>1 DEF FileSound
<1>15. PlanPair(fs, pair)[p] = pruneFile(o[p], L)
  BY <1>1, <1>4 DEF L
<1> QED
  BY <1>3, <1>4, <1>8, <1>14, <1>15 DEF Planning, fs, pair
----------------------------------------------------------------------------
(* The inductive invariant: whatever a crash may leave, and the directory  *)
(* as it is, lost only what it may, has the original contents of each file *)
(* in it or in its .bak, and the files still to be replaced are whole.     *)
Restores(o, fs, b) == \A p \in Paths : o[p] \in {fs[p], b[p]}

DirSound(o, ps, d) ==
  /\ d.bak = [p \in Paths |-> d.bak[p]]
  /\ Restores(o, d.file, d.bak)
  /\ \E D : Sound(o, ps, D) /\ d.file = Without(o, D)

Doing(D) ==
  pc \notin {"idle", "plan"} =>
    /\ queue \in Seq(Paths)
    /\ \A a, b \in DOMAIN queue : queue[a] = queue[b] => a = b
    /\ pc # "apply" => queue # <<>>
    /\ \A a \in DOMAIN queue :
         \/ pc = "sync" /\ a = 1
         \/ Planning(orig, pairs, D, queue[a], plan[queue[a]])
    /\ pc = "rename" => bak[queue[1]] = orig[queue[1]]

Stages == {"idle", "plan", "apply", "backup", "link", "copy", "rename", "sync"}

Listing ==
  /\ todo \in Seq(PairOfFiles)
  /\ \A a \in DOMAIN todo : \E i \in DOMAIN pairs : todo[a] = pairs[i]

Work ==
  /\ bak = [p \in Paths |-> bak[p]]
  /\ Restores(orig, file, bak)
  /\ \E D : Sound(orig, pairs, D) /\ file = Without(orig, D) /\ Doing(D)

PruneInv ==
  /\ WellFormed(orig) /\ pairs \in Seq(PairOfFiles)
  /\ pc \in Stages /\ Listing
  /\ Apart(orig, pairs) =>
       Work /\ \A d \in log : DirSound(orig, pairs, d)

LEMMA NothingGone ==
  ASSUME NEW o, WellFormed(o), NEW ps
  PROVE  LET D == [p \in Paths |-> {}] IN Sound(o, ps, D) /\ o = Without(o, D)
  BY DEF Sound, FileSound, Without, WellFormed

LEMMA FileSoundGrows ==
  ASSUME NEW o, NEW ps, NEW D, NEW E, NEW p, NEW L,
         FileSound(o, ps, D, p, L), Gone(D) \subseteq Gone(E)
  PROVE  FileSound(o, ps, E, p, L)
<1>1. \A pair, s : Broken(o, pair, s, D) => Broken(o, pair, s, E)
  BY DEF Broken
<1> QED
  BY <1>1 DEF FileSound

(* Replacing a planned file.                                               *)
LEMMA OneMoreGone ==
  ASSUME NEW o, NEW ps, NEW D, NEW p \in Paths, NEW L,
         NEW E \in [Paths -> SUBSET Nat],
         Sound(o, ps, D), FileSound(o, ps, D, p, L), D[p] = {},
         E[p] = L, \A q \in Paths : q # p => E[q] = D[q]
  PROVE  Sound(o, ps, E) /\ Gone(D) \subseteq Gone(E)
<1>2. /\ E \in [Paths -> SUBSET Nat] /\ E[p] = L
      /\ \A q \in Paths : q # p => E[q] = D[q]
  OBVIOUS
<1>3. Gone(D) \subseteq Gone(E)
  BY <1>2 DEF Gone
<1>4. \A q \in Paths : FileSound(o, ps, E, q, E[q])
  <2> TAKE q \in Paths
  <2>1. CASE q = p
    BY <1>2, <1>3, <2>1, FileSoundGrows
  <2>2. CASE q # p
    <3>1. FileSound(o, ps, D, q, D[q])
      BY DEF Sound
    <3> QED
      BY <1>2, <1>3, <2>2, <3>1, FileSoundGrows
  <2> QED
    BY <2>1, <2>2
<1> QED
  BY <1>2, <1>3, <1>4 DEF Sound

LEMMA InitPruneInv == Init => PruneInv
<1> SUFFICES ASSUME Init PROVE PruneInv
  OBVIOUS
<1>1. /\ file \in Contents /\ orig = file /\ pairs \in Topologies
      /\ bak \in {[p \in Paths |-> b] : b \in {None, Old}}
      /\ log = {[file |-> file, bak |-> bak]} /\ pc = "idle" /\ todo = <<>>
  BY Zenon DEF Init
<1>2. WellFormed(orig) /\ pairs \in Seq(PairOfFiles)
  BY <1>1, FilesAssumption DEF WellFormed, PairOfFiles
<1>3. pc \in Stages /\ Listing
  BY <1>1 DEF Stages, Listing
<1>4. bak = [p \in Paths |-> bak[p]]
  BY <1>1
<1> DEFINE D == [p \in Paths |-> {}]
<1>5. Sound(orig, pairs, D) /\ orig = Without(orig, D)
  BY <1>2, NothingGone
<1> HIDE DEF D
<1>6. Restores(orig, file, bak)
  BY <1>1 DEF Restores
<1>7. Work
  BY <1>1, <1>4, <1>5, <1>6 DEF Work, Doing
<1>8. \A d \in log : DirSound(orig, pairs, d)
  BY <1>1, <1>4, <1>5, <1>6 DEF DirSound
<1> QED
  BY <1>2, <1>3, <1>7, <1>8 DEF PruneInv

(* The command rests, or comes to its next pair.                           *)
LEMMA RestInv ==
  ASSUME PruneInv, UNCHANGED <<orig, pairs, file, bak, log>>,
         pc' \in {"idle", "plan"}, Listing'
  PROVE  PruneInv'
<1>1. WellFormed(orig') /\ pairs' \in Seq(PairOfFiles) /\ pc' \in Stages
  BY DEF PruneInv, Stages
<1>2. ASSUME Apart(orig, pairs)
      PROVE  Work' /\ \A d \in log' : DirSound(orig', pairs', d)
  <2>1. Work /\ \A d \in log : DirSound(orig, pairs, d)
    BY <1>2 DEF PruneInv
  <2>2. /\ bak' = [p \in Paths |-> bak'[p]]
        /\ Restores(orig', file', bak')
    BY <2>1 DEF Work
  <2>3. \E D : Sound(orig', pairs', D) /\ file' = Without(orig', D)
               /\ Doing(D)'
    BY <2>1 DEF Work, Doing
  <2> QED
    BY <2>1, <2>2, <2>3 DEF Work
<1> QED
  BY <1>1, <1>2 DEF PruneInv

(* A step of applyFile on the directory.                                   *)
LEMMA StepInv ==
  ASSUME PruneInv, UNCHANGED <<orig, pairs>>, pc' \in Stages, Listing',
         Apart(orig, pairs) => Work',
         log' \subseteq log \cup {[file |-> file', bak |-> bak']}
  PROVE  PruneInv'
<1>1. WellFormed(orig') /\ pairs' \in Seq(PairOfFiles)
  BY DEF PruneInv
<1>2. ASSUME Apart(orig, pairs)
      PROVE  \A d \in log' : DirSound(orig', pairs', d)
  <2> TAKE d \in log'
  <2>1. CASE d \in log
    BY <1>2, <2>1 DEF PruneInv
  <2>2. CASE d = [file |-> file', bak |-> bak']
    <3>1. /\ bak' = [p \in Paths |-> bak'[p]]
          /\ Restores(orig', file', bak')
          /\ \E D : Sound(orig', pairs', D) /\ file' = Without(orig', D)
      BY <1>2 DEF Work
    <3>2. d.file = file' /\ d.bak = bak'
      BY <2>2
    <3> HIDE <2>2
    <3> QED
      BY <3>1, <3>2 DEF DirSound
  <2> QED
    BY <2>1, <2>2
<1> QED
  BY <1>1, <1>2 DEF PruneInv

LEMMA ListingStays ==
  ASSUME Listing, UNCHANGED <<pairs, todo>>
  PROVE  Listing'
  BY DEF Listing

LEMMA ListingEnds ==
  ASSUME todo' = <<>>
  PROVE  Listing'
  BY DEF Listing

(* The file in work, between WriteTemp and the rename.                     *)
LEMMA PathFacts ==
  ASSUME NEW D, Doing(D), pc \in {"backup", "link", "copy", "rename"}
  PROVE  /\ queue \in Seq(Paths) /\ queue # <<>> /\ 1 \in DOMAIN queue
         /\ path = queue[1] /\ path \in Paths
         /\ Planning(orig, pairs, D, path, plan[path])
<1>1. /\ queue \in Seq(Paths) /\ queue # <<>>
      /\ \A a \in DOMAIN queue :
           Planning(orig, pairs, D, queue[a], plan[queue[a]])
  BY DEF Doing
<1>2. 1 \in DOMAIN queue /\ Head(queue) = queue[1] /\ queue[1] \in Paths
  BY <1>1
<1> QED
  BY <1>1, <1>2 DEF path

(* A step that changes the .bak of the file in work only.                  *)
LEMMA BakInv ==
  ASSUME PruneInv, UNCHANGED <<orig, pairs, file, plan, queue>>,
         pc \in {"backup", "link", "copy"},
         pc' \in {"idle", "link", "copy", "rename"}, Listing',
         NEW v, bak' = [bak EXCEPT ![path] = v],
         pc' = "rename" => v = file[path],
         log' = log \cup {[file |-> file', bak |-> bak']}
  PROVE  PruneInv'
<1>1. ASSUME Apart(orig, pairs) PROVE Work'
  <2>1. /\ bak = [p \in Paths |-> bak[p]]
        /\ Restores(orig, file, bak)
    BY <1>1 DEF PruneInv, Work
  <2>2. PICK D : Sound(orig, pairs, D) /\ file = Without(orig, D) /\ Doing(D)
    BY <1>1 DEF PruneInv, Work
  <2>3. /\ queue \in Seq(Paths) /\ queue # <<>> /\ 1 \in DOMAIN queue
        /\ path = queue[1] /\ path \in Paths
        /\ Planning(orig, pairs, D, path, plan[path])
    BY <2>2, PathFacts
  <2>4. file[path] = orig[path]
    BY <2>2, <2>3 DEF Planning, Without
  <2>5. /\ bak' = [p \in Paths |-> bak'[p]] /\ bak'[path] = v
        /\ \A p \in Paths : p # path => bak'[p] = bak[p]
    BY <2>1, <2>3
  <2>6. Restores(orig', file', bak')
    BY <2>1, <2>4, <2>5 DEF Restores
  <2>7. Doing(D)'
    <3>1. pc' = "rename" => bak'[queue'[1]] = orig'[queue'[1]]
      BY <2>3, <2>4, <2>5
    <3>2. /\ \A a, b \in DOMAIN queue : queue[a] = queue[b] => a = b
          /\ \A a \in DOMAIN queue :
               Planning(orig, pairs, D, queue[a], plan[queue[a]])
      BY <2>2 DEF Doing
    <3>3. \A a \in DOMAIN queue' :
            Planning(orig', pairs', D, queue'[a], plan'[queue'[a]])
      BY <3>2
    <3> QED
      BY <2>3, <3>1, <3>2, <3>3 DEF Doing
  <2> QED
    BY <2>2, <2>5, <2>6, <2>7 DEF Work
<1>2. pc' \in Stages
  BY DEF Stages
<1> QED
  BY <1>1, <1>2, StepInv

LEMMA PlanNextInv == PruneInv /\ PlanNext => PruneInv'
<1> SUFFICES ASSUME PruneInv, PlanNext PROVE PruneInv'
  OBVIOUS
<1> DEFINE changes == PlanPair(file, Head(todo))
<1>1. /\ pc = "plan" /\ todo # <<>> /\ todo' = Tail(todo)
      /\ UNCHANGED <<orig, pairs, file, bak, log>>
      /\ \/ Replaces(changes)
         \/ pc' = pc
  BY Zenon DEF PlanNext, Dirs, Given
<1>2. /\ Listing' /\ \E i \in DOMAIN pairs : Head(todo) = pairs[i]
  <2>1. todo \in Seq(PairOfFiles)
        /\ \A a \in DOMAIN todo : \E i \in DOMAIN pairs : todo[a] = pairs[i]
    BY DEF PruneInv, Listing
  <2>2. /\ Tail(todo) \in Seq(PairOfFiles) /\ Head(todo) = todo[1]
        /\ 1 \in DOMAIN todo
        /\ \A a \in DOMAIN Tail(todo) : /\ a + 1 \in DOMAIN todo
                                        /\ Tail(todo)[a] = todo[a + 1]
    BY <1>1, <2>1
  <2>3. \A a \in DOMAIN Tail(todo) : \E i \in DOMAIN pairs :
          Tail(todo)[a] = pairs[i]
    <3> TAKE a \in DOMAIN Tail(todo)
    <3>1. PICK i \in DOMAIN pairs : todo[a + 1] = pairs[i]
      BY <2>1, <2>2
    <3> QED
      BY <2>2, <3>1
  <2>4. \E i \in DOMAIN pairs : Head(todo) = pairs[i]
    BY <2>1, <2>2
  <2> QED
    BY <1>1, <2>2, <2>3, <2>4 DEF Listing
<1>3. CASE pc' = pc
  BY <1>1, <1>2, <1>3, RestInv
<1>4. CASE Replaces(changes)
  <2> DEFINE I == {i \in DOMAIN Files : Files[i] \in DOMAIN changes}
  <2>1. plan' = changes /\ queue' = Select(Files, I) /\ pc' = "apply"
    BY <1>4 DEF Replaces
  <2>2. PICK pos : Picked(STRING, Files, I, Len(Files), queue', pos)
    BY <2>1, FilesAssumption, SelectPicks
  <2>3. /\ queue' \in Seq(STRING) /\ DOMAIN queue' = 1..Len(queue')
        /\ \A a \in DOMAIN queue' : /\ queue'[a] = Files[pos[a]]
                                    /\ pos[a] \in I
        /\ \A a, b \in DOMAIN queue' : pos[a] = pos[b] => a = b
    <3> HIDE DEF I
    <3>1. queue' \in Seq(STRING) /\ DOMAIN queue' = 1..Len(queue')
      BY <2>2 DEF Picked
    <3> QED
      BY <2>2, <3>1, Zenon DEF Picked
  <2> HIDE DEF changes
  <2>4. /\ \A a \in DOMAIN queue' : /\ queue'[a] \in Paths
                                    /\ queue'[a] \in DOMAIN changes
        /\ \A a, b \in DOMAIN queue' : queue'[a] = queue'[b] => a = b
    BY <2>3, FilesAssumption DEF Paths, Range
  <2>5. queue' \in Seq(Paths)
    BY <2>3, <2>4
  <2>6. ASSUME Apart(orig, pairs) PROVE Work'
    <3>1. PICK D : Sound(orig, pairs, D) /\ file = Without(orig, D)
      BY <2>6 DEF PruneInv, Work
    <3>2. PICK i \in DOMAIN pairs : Head(todo) = pairs[i]
      BY <1>2
    <3>3. \A p \in DOMAIN changes :
            Planning(orig, pairs, D, p, changes[p])
      BY <2>6, <3>1, <3>2, PlanIs DEF PruneInv, changes
    <3>4. \A a \in DOMAIN queue' :
            Planning(orig', pairs', D, queue'[a], plan'[queue'[a]])
      BY <1>1, <2>1, <2>4, <3>3
    <3>5. Doing(D)'
      BY <2>1, <2>4, <2>5, <3>4 DEF Doing
    <3>6. /\ bak' = [p \in Paths |-> bak'[p]]
          /\ Restores(orig', file', bak')
      BY <1>1, <2>6 DEF PruneInv, Work
    <3> QED
      BY <1>1, <3>1, <3>5, <3>6 DEF Work
  <2>7. pc' \in Stages
    BY <2>1 DEF Stages
  <2> QED
    BY <1>1, <1>2, <2>6, <2>7, StepInv
<1> QED
  BY <1>1, <1>3, <1>4

LEMMA RenameInv == PruneInv /\ Rename => PruneInv'
<1> SUFFICES ASSUME PruneInv, Rename PROVE PruneInv'
  OBVIOUS
<1>1. /\ pc = "rename" /\ pc' = "sync"
      /\ file' = [file EXCEPT ![path] = plan[path]]
      /\ UNCHANGED <<orig, pairs, bak, todo, plan, queue>>
      /\ log' = log \cup {[file |-> file', bak |-> bak']}
  BY Zenon DEF Rename, Given, Logged
<1>2. ASSUME Apart(orig, pairs) PROVE Work'
  <2>1. /\ bak = [p \in Paths |-> bak[p]]
        /\ Restores(orig, file, bak)
    BY <1>2 DEF PruneInv, Work
  <2>2. PICK D : Sound(orig, pairs, D) /\ file = Without(orig, D) /\ Doing(D)
    BY <1>2 DEF PruneInv, Work
  <2>3. /\ queue \in Seq(Paths) /\ queue # <<>> /\ 1 \in DOMAIN queue
        /\ path = queue[1] /\ path \in Paths
        /\ Planning(orig, pairs, D, path, plan[path])
    BY <1>1, <2>2, PathFacts
  <2>4. PICK L : /\ L # {} /\ FileSound(orig, pairs, D, path, L)
                 /\ plan[path] = pruneFile(orig[path], L)
    BY <2>3 DEF Planning
  <2>5. D[path] = {} /\ D \in [Paths -> SUBSET Nat] /\ WellFormed(orig)
    BY <2>2, <2>3 DEF Planning, Sound, PruneInv
  <2> PICK E : E = [D EXCEPT ![path] = L]
    OBVIOUS
  <2>6. E[path] = L /\ E \in [Paths -> SUBSET Nat]
    <3>1. orig[path] \in Seq(Line(Paths)) /\ L \subseteq RRLines(orig[path])
      BY <2>3, <2>4, <2>5 DEF WellFormed, FileSound
    <3>2. L \subseteq Nat
      BY <3>1 DEF RRLines
    <3> QED
      BY <2>3, <2>5, <3>2
  <2>7. \A q \in Paths : q # path => E[q] = D[q]
    BY <2>5
  <2>8. /\ Sound(orig, pairs, E) /\ Gone(D) \subseteq Gone(E)
        /\ Without(orig, E)
             = [Without(orig, D) EXCEPT ![path] = pruneFile(orig[path], L)]
    <3>1. /\ WellFormed(orig) /\ Sound(orig, pairs, D) /\ path \in Paths
          /\ D[path] = {} /\ L # {} /\ FileSound(orig, pairs, D, path, L)
      BY <2>2, <2>3, <2>4, <2>5
    <3>2. PICK p : p = path
      OBVIOUS
    <3>3. Sound(orig, pairs, E) /\ Gone(D) \subseteq Gone(E)
      <4>1. /\ p \in Paths
            /\ D[p] = {} /\ FileSound(orig, pairs, D, p, L)
            /\ E[p] = L /\ \A q \in Paths : q # p => E[q] = D[q]
        BY <2>6, <2>7, <3>1, <3>2
      <4> QED
        BY <2>6, <3>1, <4>1, OneMoreGone
    <3> QED
      BY <2>6, <2>7, <3>1, <3>3 DEF Without
  <2>9. file' = Without(orig, E)
    BY <1>1, <2>2, <2>4, <2>8
  <2>10. ASSUME NEW a \in DOMAIN queue, a # 1
        PROVE  Planning(orig, pairs, E, queue[a], plan[queue[a]])
    <3>1. Planning(orig, pairs, D, queue[a], plan[queue[a]])
      BY <1>1, <2>2 DEF Doing
    <3>2. queue[a] # path /\ queue[a] \in Paths
      BY <1>1, <2>2, <2>3, <2>10 DEF Doing
    <3>3. E[queue[a]] = {}
      BY <2>7, <3>1, <3>2 DEF Planning
    <3>4. PICK M : /\ M # {} /\ FileSound(orig, pairs, D, queue[a], M)
                   /\ plan[queue[a]] = pruneFile(orig[queue[a]], M)
      BY <3>1 DEF Planning
    <3>5. FileSound(orig, pairs, E, queue[a], M)
      BY <2>8, <3>4, FileSoundGrows
    <3> QED
      BY <3>2, <3>3, <3>4, <3>5 DEF Planning
  <2>11. Doing(E)'
    <3>1. \A a, b \in DOMAIN queue' : queue'[a] = queue'[b] => a = b
      BY <1>1, <2>2 DEF Doing
    <3>2. \A a \in DOMAIN queue' :
            \/ a = 1
            \/ Planning(orig', pairs', E, queue'[a], plan'[queue'[a]])
      BY <1>1, <2>10
    <3> QED
      BY <1>1, <2>3, <3>1, <3>2 DEF Doing
  <2>12. Restores(orig', file', bak')
    <3>1. bak[path] = orig[path]
      BY <1>1, <2>2, <2>3 DEF Doing
    <3>2. \A p \in Paths : p # path => file'[p] = file[p]
      BY <1>1
    <3> QED
      BY <1>1, <2>1, <3>1, <3>2 DEF Restores
  <2> QED
    BY <1>1, <2>1, <2>8, <2>9, <2>11, <2>12 DEF Work
<1>3. pc' \in Stages /\ Listing'
  BY <1>1, ListingStays DEF PruneInv, Stages
<1> QED
  BY <1>1, <1>2, <1>3, StepInv

LEMMA NextPruneInv == PruneInv /\ [Next]_vars => PruneInv'
<1> SUFFICES ASSUME PruneInv, [Next]_vars PROVE PruneInv'
  OBVIOUS
<1>0. Listing
  BY DEF PruneInv
<1>1. CASE Start
  <2>1. /\ pc' = "plan" /\ todo' = pairs
        /\ UNCHANGED <<orig, pairs, file, bak, log>>
    BY <1>1, Zenon DEF Start, Dirs, Given
  <2>2. Listing'
    BY <2>1 DEF PruneInv, Listing
  <2> QED
    BY <2>1, <2>2, RestInv
<1>2. CASE PlanNext
  BY <1>2, PlanNextInv
<1>3. CASE Finish \/ ReturnError
  <2>1. /\ pc' = "idle" /\ todo' = <<>>
        /\ UNCHANGED <<orig, pairs, file, bak, log>>
    BY <1>3, Zenon DEF Finish, ReturnError, Returned, Dirs, Given
  <2> QED
    BY <2>1, ListingEnds, RestInv
<1>4. CASE ApplyAllDone
  <2>1. pc' = "plan" /\ UNCHANGED <<orig, pairs, file, bak, log, todo>>
    BY <1>4, Zenon DEF ApplyAllDone, Dirs, Given
  <2> QED
    BY <1>0, <2>1, ListingStays, RestInv
<1>5. CASE WriteTemp
  <2>1. /\ pc = "apply" /\ queue # <<>> /\ pc' = "backup"
        /\ UNCHANGED <<orig, pairs, file, bak, log, todo, plan, queue>>
    BY <1>5, Zenon DEF WriteTemp, Dirs, Given
  <2>2. ASSUME Apart(orig, pairs) PROVE Work'
    <3>1. PICK D : Sound(orig, pairs, D) /\ file = Without(orig, D) /\ Doing(D)
      BY <2>2 DEF PruneInv, Work
    <3>2. Doing(D)'
      BY <2>1, <3>1 DEF Doing
    <3>3. /\ bak' = [p \in Paths |-> bak'[p]]
          /\ Restores(orig', file', bak')
      BY <2>1, <2>2 DEF PruneInv, Work
    <3> QED
      BY <2>1, <3>1, <3>2, <3>3 DEF Work
  <2>3. pc' \in Stages /\ Listing'
    BY <1>0, <2>1, ListingStays DEF Stages
  <2> QED
    BY <2>1, <2>2, <2>3, StepInv
<1>6. CASE RemoveOldBak
  <2>1. /\ pc = "backup" /\ pc' = "link" /\ bak' = [bak EXCEPT ![path] = None]
        /\ UNCHANGED <<orig, pairs, file, todo, plan, queue>>
        /\ log' = log \cup {[file |-> file', bak |-> bak']}
    BY <1>6, Zenon DEF RemoveOldBak, Given, Logged
  <2> QED
    BY <1>0, <2>1, ListingStays, BakInv
<1>7. CASE LinkBak
  <2>1. /\ pc = "link" /\ pc' = "rename"
        /\ bak' = [bak EXCEPT ![path] = file[path]]
        /\ UNCHANGED <<orig, pairs, file, todo, plan, queue>>
        /\ log' = log \cup {[file |-> file', bak |-> bak']}
    BY <1>7, Zenon DEF LinkBak, Given, Logged
  <2> QED
    BY <1>0, <2>1, ListingStays, BakInv
<1>8. CASE CopyBegins
  <2>1. /\ pc = "link" /\ pc' = "copy" /\ bak' = [bak EXCEPT ![path] = Torn]
        /\ UNCHANGED <<orig, pairs, file, todo, plan, queue>>
        /\ log' = log \cup {[file |-> file', bak |-> bak']}
    BY <1>8, Zenon DEF CopyBegins, Given, Logged
  <2> QED
    BY <1>0, <2>1, ListingStays, BakInv
<1>9. CASE CopyEnds
  <2>1. /\ pc = "copy" /\ pc' = "rename"
        /\ bak' = [bak EXCEPT ![path] = file[path]]
        /\ UNCHANGED <<orig, pairs, file, todo, plan, queue>>
        /\ log' = log \cup {[file |-> file', bak |-> bak']}
    BY <1>9, Zenon DEF CopyEnds, Given, Logged
  <2> QED
    BY <1>0, <2>1, ListingStays, BakInv
<1>10. CASE CopyFails
  <2>1. /\ pc = "copy" /\ pc' = "idle" /\ todo' = <<>>
        /\ bak' = [bak EXCEPT ![path] = None]
        /\ UNCHANGED <<orig, pairs, file>>
        /\ log' = log \cup {[file |-> file', bak |-> bak']}
    BY <1>10, Zenon DEF CopyFails, Returned, Given, Logged
  <2>2. ASSUME Apart(orig, pairs) PROVE Work'
    <3>1. /\ bak = [p \in Paths |-> bak[p]] /\ Restores(orig, file, bak)
      BY <2>2 DEF PruneInv, Work
    <3>2. PICK D : Sound(orig, pairs, D) /\ file = Without(orig, D) /\ Doing(D)
      BY <2>2 DEF PruneInv, Work
    <3>3. path \in Paths /\ file[path] = orig[path]
      BY <2>1, <3>2, PathFacts DEF Planning, Without
    <3>4. /\ bak' = [p \in Paths |-> bak'[p]]
          /\ Restores(orig', file', bak')
      BY <2>1, <3>1, <3>3 DEF Restores
    <3>5. Doing(D)'
      BY <2>1 DEF Doing
    <3> QED
      BY <2>1, <3>2, <3>4, <3>5 DEF Work
  <2>3. pc' \in Stages /\ Listing'
    BY <2>1, ListingEnds DEF Stages
  <2> QED
    BY <2>1, <2>2, <2>3, StepInv
<1>11. CASE Rename
  BY <1>11, RenameInv
<1>12. CASE SyncDir
  <2>1. /\ pc = "sync" /\ pc' = "apply" /\ queue' = Tail(queue)
        /\ log' = {[file |-> file, bak |-> bak]}
        /\ UNCHANGED <<orig, pairs, file, bak, todo, plan>>
    BY <1>12, Zenon DEF SyncDir, Given
  <2>2. ASSUME Apart(orig, pairs) PROVE Work'
    <3>1. PICK D : Sound(orig, pairs, D) /\ file = Without(orig, D) /\ Doing(D)
      BY <2>2 DEF PruneInv, Work
    <3>2. /\ queue \in Seq(Paths) /\ queue # <<>>
          /\ \A a, b \in DOMAIN queue : queue[a] = queue[b] => a = b
          /\ \A a \in DOMAIN queue : a # 1 =>
               Planning(orig, pairs, D, queue[a], plan[queue[a]])
      BY <2>1, <3>1 DEF Doing
    <3>3. /\ queue' \in Seq(Paths)
          /\ \A a \in DOMAIN queue' : /\ a + 1 \in DOMAIN queue /\ a + 1 # 1
                                      /\ queue'[a] = queue[a + 1]
                                      /\ a \in Nat
      BY <2>1, <3>2
    <3>4. \A a, b \in DOMAIN queue' : queue'[a] = queue'[b] => a = b
      <4> TAKE a, b \in DOMAIN queue'
      <4> HAVE queue'[a] = queue'[b]
      <4>1. a + 1 = b + 1
        BY <3>2, <3>3
      <4> QED
        BY <3>3, <4>1
    <3>5. \A a \in DOMAIN queue' :
            Planning(orig', pairs', D, queue'[a], plan'[queue'[a]])
      BY <2>1, <3>2, <3>3
    <3>6. Doing(D)'
      BY <2>1, <3>3, <3>4, <3>5 DEF Doing
    <3>7. /\ bak' = [p \in Paths |-> bak'[p]]
          /\ Restores(orig', file', bak')
      BY <2>1, <2>2 DEF PruneInv, Work
    <3> QED
      BY <2>1, <3>1, <3>6, <3>7 DEF Work
  <2>3. pc' \in Stages /\ Listing'
    BY <1>0, <2>1, ListingStays DEF Stages
  <2> QED
    BY <2>1, <2>2, <2>3, StepInv
<1>13. CASE Crash
  <2>1. PICK d \in log : file' = d.file /\ bak' = d.bak /\ log' = {d}
    BY <1>13, Zenon DEF Crash
  <2>2. pc' = "idle" /\ todo' = <<>> /\ UNCHANGED <<orig, pairs>>
    BY <1>13, Zenon DEF Crash, Returned, Given
  <2>3. ASSUME Apart(orig, pairs) PROVE Work'
    <3>1. DirSound(orig, pairs, d)
      BY <2>3 DEF PruneInv
    <3>2. PICK D : Sound(orig, pairs, D) /\ d.file = Without(orig, D)
      BY <3>1 DEF DirSound
    <3>3. Doing(D)'
      BY <2>2 DEF Doing
    <3>4. /\ bak' = [p \in Paths |-> bak'[p]]
          /\ Restores(orig', file', bak')
      BY <2>1, <2>2, <3>1 DEF DirSound
    <3> QED
      BY <2>1, <2>2, <3>2, <3>3, <3>4 DEF Work
  <2>4. pc' \in Stages /\ Listing'
    BY <2>2, ListingEnds DEF Stages
  <2> QED
    BY <2>1, <2>2, <2>3, <2>4, StepInv
<1>14. CASE UNCHANGED vars
  <2>1. /\ UNCHANGED <<orig, pairs, file, bak, log, pc, todo, plan, queue>>
    BY <1>14, Zenon DEF vars
  <2> QED
    BY <2>1 DEF PruneInv, Listing, Work, Doing
<1> QED
  BY <1>1, <1>2, <1>3, <1>4, <1>5, <1>6, <1>7, <1>8, <1>9, <1>10, <1>11,
     <1>12, <1>13, <1>14, Zenon DEF Next

LEMMA PruneInvariance == Spec => []PruneInv
  BY InitPruneInv, NextPruneInv, PTL DEF Spec

LEMMA DisjointIsApart ==
  ASSUME Disjoint, pairs \in Seq(PairOfFiles)
  PROVE  Apart(orig, pairs)
<1>1. \A i, j \in DOMAIN pairs : \A p \in TreeFiles(orig, pairs[i].backup) :
        p \in TreeFiles(orig, pairs[j].backup) => i = j
  BY DEF Disjoint
<1>2. ASSUME NEW i \in DOMAIN pairs, NEW j \in DOMAIN pairs,
             NEW p \in TreeFiles(orig, pairs[i].backup),
             pairs[j].root # NoFile, p \in TreeFiles(orig, pairs[j].root)
      PROVE  FALSE
  <2>1. p \in UNION BackupTrees(orig)
    BY DEF BackupTrees
  <2>2. p \in RootTree(orig)
    BY <1>2 DEF RootTree
  <2>3. (UNION BackupTrees(orig)) \cap RootTree(orig) = {}
    BY Zenon DEF Disjoint
  <2> QED
    BY <2>1, <2>2, <2>3, Zenon
<1> QED
  BY <1>1, <1>2 DEF Apart

LEMMA InvBackupRestores == PruneInv => BackupRestores
<1> SUFFICES ASSUME PruneInv, Disjoint, NEW p \in Paths
             PROVE  orig[p] \in {file[p], bak[p]}
  BY DEF BackupRestores
<1>1. Apart(orig, pairs)
  BY DisjointIsApart DEF PruneInv
<1> QED
  BY <1>1 DEF PruneInv, Work, Restores

(* The original contents of every file are in the file or in its .bak,     *)
(* whatever failed, crashed and was run again, for any files and pairs of  *)
(* which no file is read for two pairs, or for a backup and a root.        *)
THEOREM PruneRestores == Spec => []BackupRestores
  BY PruneInvariance, InvBackupRestores, PTL
----------------------------------------------------------------------------
(* A site of a well-formed tree is a record.                               *)
LEMMA RecordFields ==
  ASSUME NEW l \in Line(Paths), l.kind = "rr"
  PROVE  /\ l.owner \in Name /\ l.same \in BOOLEAN
         /\ l.type \in STRING /\ l.data \in Name
<1>1. l \notin [kind : {"include"}, file : Paths] /\ l \notin [kind : {"note"}]
  OBVIOUS
<1>2. l \in [kind : {"rr"}, same : BOOLEAN, owner : Name, type : STRING,
             data : Name]
  BY <1>1, Zenon DEF Line
<1> QED
  BY <1>2

LEMMA SiteLine ==
  ASSUME NEW o, WellFormed(o), NEW f \in Paths, NEW s \in Sites(o, f)
  PROVE  /\ s[1] \in Paths /\ s[2] \in RRLines(o[s[1]])
         /\ At(o, s).owner \in Name /\ At(o, s).same \in BOOLEAN
         /\ At(o, s).type \in STRING /\ At(o, s).data \in Name
<1>1. s[1] \in Paths /\ s[2] \in RRLines(o[s[1]])
  BY SitesIs, TreeInPaths
<1>2. At(o, s) \in Line(Paths) /\ At(o, s).kind = "rr"
  BY <1>1 DEF WellFormed, RRLines, At
<1> QED
  BY <1>1, <1>2, RecordFields, Zenon
(* Records whose names agree in the zone have the same owner in the file.  *)
LEMMA CancelOrigin ==
  ASSUME NEW a \in Name, NEW b \in Name, NEW c \in Name, a \o c = b \o c
  PROVE  a = b
<1>1. /\ a \in Seq(STRING) /\ b \in Seq(STRING) /\ c \in Seq(STRING)
  BY DEF Name
<1>2. Len(a) = Len(b)
  <2>1. Len(a \o c) = Len(a) + Len(c) /\ Len(b \o c) = Len(b) + Len(c)
    BY <1>1
  <2> QED
    BY <1>1, <2>1
<1>3. \A k \in 1..Len(a) : a[k] = b[k]
  <2> TAKE k \in 1..Len(a)
  <2>1. (a \o c)[k] = a[k] /\ (b \o c)[k] = b[k]
    BY <1>1, <1>2
  <2> QED
    BY <2>1
<1> QED
  BY <1>1, <1>2, <1>3

LEMMA SameOwner ==
  ASSUME NEW l, NEW m, l.owner \in Name, m.owner \in Name,
         l.same \in BOOLEAN, m.same \in BOOLEAN,
         LexedOwner(l, BackupOrigin) = LexedOwner(m, BackupOrigin)
  PROVE  LexedOwner(l, <<>>) = LexedOwner(m, <<>>)
<1>0. \A a \in Name : a \o <<>> = a
  BY DEF Name
<1>1. BackupOrigin \in Name /\ <<>> \in Name
  BY OriginsAssumption DEF Name
<1>2. \A a \in Name : a \o BackupOrigin = <<>> => a = <<>>
  BY <1>1 DEF Name
<1>3. CASE l.same /\ m.same
  BY <1>3, Zenon DEF LexedOwner
<1>4. CASE l.same /\ ~m.same
  <2>1. /\ <<>> = m.owner \o BackupOrigin
        /\ LexedOwner(l, <<>>) = <<>>
        /\ LexedOwner(m, <<>>) = m.owner \o <<>>
    BY <1>4, Zenon DEF LexedOwner
  <2> QED
    BY <1>0, <1>2, <2>1
<1>5. CASE ~l.same /\ m.same
  <2>1. /\ l.owner \o BackupOrigin = <<>>
        /\ LexedOwner(m, <<>>) = <<>>
        /\ LexedOwner(l, <<>>) = l.owner \o <<>>
    BY <1>5, Zenon DEF LexedOwner
  <2> QED
    BY <1>0, <1>2, <2>1
<1>6. CASE ~l.same /\ ~m.same
  <2>1. /\ l.owner \o BackupOrigin = m.owner \o BackupOrigin
        /\ LexedOwner(m, <<>>) = m.owner \o <<>>
        /\ LexedOwner(l, <<>>) = l.owner \o <<>>
    BY <1>6, Zenon DEF LexedOwner
  <2>2. l.owner = m.owner
    BY <1>1, <2>1, CancelOrigin
  <2> QED
    BY <2>1, <2>2
<1> QED
  BY <1>3, <1>4, <1>5, <1>6, Zenon

(* An RRset that lost a line lost all of them, if it lies in one file.     *)
LEMMA AllOrNothing ==
  ASSUME Unsplit, WellFormed(orig), pairs \in Seq(PairOfFiles),
         NEW D, Sound(orig, pairs, D), NEW i \in DOMAIN pairs,
         NEW s \in Sites(orig, pairs[i].backup),
         NEW x \in SetOf(orig, pairs[i], s), x \in Gone(D)
  PROVE  s \in Gone(D)
<1>1. pairs[i].backup \in Paths
  <2>1. pairs[i] \in PairOfFiles
    OBVIOUS
  <2> QED
    BY <2>1 DEF PairOfFiles
<1>2. /\ x \in Sites(orig, pairs[i].backup)
      /\ LexedOwner(At(orig, x), BackupOrigin)
           = LexedOwner(At(orig, s), BackupOrigin)
      /\ At(orig, x).type = At(orig, s).type
  BY SetOfFacts
<1>3. /\ At(orig, x).owner \in Name /\ At(orig, x).same \in BOOLEAN
      /\ At(orig, s).owner \in Name /\ At(orig, s).same \in BOOLEAN
  BY <1>1, <1>2, SiteLine, Zenon
<1>4. LexedOwner(At(orig, x), <<>>) = LexedOwner(At(orig, s), <<>>)
  BY <1>2, <1>3, SameOwner, Zenon
<1>5. x[1] = s[1]
  BY <1>2, <1>4 DEF Unsplit
<1>6. s[1] \in Paths /\ s[2] \in RRLines(orig[s[1]]) /\ s = <<s[1], s[2]>>
  BY <1>1, SiteLine, SitesIs, Zenon
<1>7. FileSound(orig, pairs, D, s[1], D[s[1]]) /\ x[2] \in D[s[1]]
  BY <1>5, <1>6 DEF Sound, Gone
<1>8. s[2] \in D[s[1]]
  BY <1>5, <1>7 DEF FileSound
<1>9. D[s[1]] \subseteq Nat
  BY <1>6 DEF Sound
<1> QED
  BY <1>6, <1>8, <1>9 DEF Gone

(* What a pair's files lost was planned for that pair.                     *)
LEMMA GoneIsDoomed ==
  ASSUME NEW o, NEW ps, Apart(o, ps), NEW D, Sound(o, ps, D),
         NEW i \in DOMAIN ps, NEW s \in Sites(o, ps[i].backup), s \in Gone(D)
  PROVE  s \in Deletions(o, ps[i])
<1>1. s[1] \in Paths /\ s[2] \in D[s[1]] /\ s = <<s[1], s[2]>>
  BY SitesIs DEF Gone
<1>2. PICK j \in DOMAIN ps : s \in Deletions(o, ps[j])
  BY <1>1 DEF Sound, FileSound
<1>3. /\ s[1] \in TreeFiles(o, ps[j].backup)
      /\ s[1] \in TreeFiles(o, ps[i].backup)
  BY <1>2, DeletionsAre, SitesIs
<1>4. i = j
  BY <1>3 DEF Apart
<1> QED
  BY <1>2, <1>4

(* When no RRset is spread over files, a file that lost a line lost all    *)
(* that was first planned for it.                                          *)
LEMMA AllPlanned ==
  ASSUME Unsplit, WellFormed(orig), Apart(orig, pairs),
         pairs \in Seq(PairOfFiles), NEW D, Sound(orig, pairs, D),
         NEW p \in Paths, NEW i \in DOMAIN pairs, NEW k \in D[p],
         <<p, k>> \in Deletions(orig, pairs[i])
  PROVE  D[p] = {s[2] : s \in {x \in Deletions(orig, pairs[i]) : x[1] = p}}
<1>1. FileSound(orig, pairs, D, p, D[p])
  BY DEF Sound
<1>2. ASSUME NEW m \in D[p]
      PROVE  <<p, m>> \in Deletions(orig, pairs[i])
  <2>1. <<p, k>> \in Sites(orig, pairs[i].backup)
    BY DeletionsAre
  <2>2. p \in TreeFiles(orig, pairs[i].backup) /\ m \in RRLines(orig[p])
    BY <1>1, <2>1, SitesIs DEF FileSound
  <2>3. <<p, m>> \in Sites(orig, pairs[i].backup)
    BY <2>2, SitesIs
  <2>4. <<p, m>> \in Gone(D)
    BY DEF Gone, Sound
  <2> QED
    BY <2>3, <2>4, GoneIsDoomed
<1>3. ASSUME NEW s \in Deletions(orig, pairs[i]), s[1] = p, s[2] \notin D[p]
      PROVE  FALSE
  <2>1. Broken(orig, pairs[i], s, D)
    BY <1>1, <1>3 DEF FileSound
  <2>2. PICK x : x \in SetOf(orig, pairs[i], s) /\ x \in Gone(D)
    BY <2>1 DEF Broken
  <2>3. s \in Sites(orig, pairs[i].backup)
    BY DeletionsAre
  <2>4. s \in Gone(D)
    BY <2>2, <2>3, AllOrNothing
  <2> QED
    BY <1>3, <2>4 DEF Gone
<1> DEFINE Here == {x \in Deletions(orig, pairs[i]) : x[1] = p}
<1>4. ASSUME NEW m \in D[p] PROVE m \in {s[2] : s \in Here}
  <2>1. <<p, m>> \in Here
    BY <1>2, <1>4
  <2>2. <<p, m>>[2] = m
    OBVIOUS
  <2> HIDE DEF Here
  <2> QED
    BY <2>1, <2>2
<1>5. ASSUME NEW s \in Here PROVE s[2] \in D[p]
  BY <1>3, <1>5
<1> HIDE DEF Here
<1>6. D[p] = {s[2] : s \in Here}
  BY <1>4, <1>5
<1> QED
  BY <1>6 DEF Here

LEMMA InvEveryFileWhole == PruneInv => EveryFileWhole
<1> SUFFICES ASSUME PruneInv, Disjoint, Unsplit, NEW p \in Paths
             PROVE  file[p] \in {orig[p]} \cup Planned(p)
  BY DEF EveryFileWhole
<1>1. WellFormed(orig) /\ pairs \in Seq(PairOfFiles)
  BY DEF PruneInv
<1>2. Apart(orig, pairs)
  BY <1>1, DisjointIsApart
<1>3. PICK D : Sound(orig, pairs, D) /\ file = Without(orig, D)
  BY <1>2 DEF PruneInv, Work
<1>4. CASE D[p] = {}
  BY <1>3, <1>4 DEF Without
<1>5. CASE D[p] # {}
  <2>1. PICK k : k \in D[p]
    BY <1>5
  <2>2. PICK i \in DOMAIN pairs : <<p, k>> \in Deletions(orig, pairs[i])
    BY <1>3, <2>1 DEF Sound, FileSound
  <2>3. D[p] = {s[2] : s \in {x \in Deletions(orig, pairs[i]) : x[1] = p}}
    BY <1>1, <1>2, <1>3, <2>1, <2>2, AllPlanned
  <2>4. file[p] = pruneFile(orig[p], D[p])
    BY <1>3, <1>5 DEF Without
  <2>5. p \in {s[1] : s \in Deletions(orig, pairs[i])}
    BY <2>2
  <2>6. /\ p \in DOMAIN PlanPair(orig, pairs[i])
        /\ PlanPair(orig, pairs[i])[p] = pruneFile(orig[p], D[p])
    BY <2>3, <2>5 DEF PlanPair, PrunedFiles
  <2> QED
    BY <2>4, <2>6 DEF Planned
<1> QED
  BY <1>4, <1>5

(* A zone file holds its old contents or all that was first planned for    *)
(* it, whatever failed, crashed and was run again: applyFile's claim.  No  *)
(* file may be read for two pairs, and no RRset be spread over files.      *)
THEOREM PruneWhole == Spec => []EveryFileWhole
  BY PruneInvariance, InvEveryFileWhole, PTL
----------------------------------------------------------------------------
(* The server's reading of files in which every record names its owner.    *)
Plain(fs) == \A p \in Paths : \A i \in RRLines(fs[p]) : ~fs[p][i].same

Rec(owner, type, d) ==
  [owner |-> owner, ttl |-> 0, type |-> type, data |-> d]

Recs(fs, sites, owner, type) ==
  {Rec(owner, type, At(fs, s).data) : s \in sites}

LEMMA OriginIsSuffix ==
  ASSUME NEW p \in Name, NEW o \in Name
  PROVE  /\ IsInZone(p \o o, o)
         /\ SubSeq(p \o o, 1, Len(p \o o) - Len(o)) = p
<1>0. Len(p) \in Nat /\ Len(o) \in Nat
  BY DEF Name
<1>1. p \o o \in Name /\ Len(p \o o) = Len(p) + Len(o)
  BY <1>0 DEF Name
<1>2. SubSeq(p \o o, Len(p) + 1, Len(p) + Len(o)) = o
  BY <1>0, <1>1 DEF Name
<1>3. SubSeq(p \o o, 1, Len(p)) = p
  BY <1>0, <1>1 DEF Name
<1> QED
  BY <1>0, <1>1, <1>2, <1>3 DEF IsInZone

LEMMA RewriteSuffix ==
  ASSUME NEW p \in Name, NEW a \in Name, NEW b
  PROVE  RewriteName(p \o a, a, b) = p \o b
  BY OriginIsSuffix DEF RewriteName

LEMMA PlainOwner ==
  ASSUME NEW S, NEW lines \in Seq(S), NEW i \in RRLines(lines),
         ~lines[i].same, NEW origin
  PROVE  /\ ParsedOwner(lines, i, origin) = lines[i].owner \o origin
         /\ LexedOwner(lines[i], origin) = lines[i].owner \o origin
<1> DEFINE named == {j \in RRLines(lines) : j <= i /\ ~lines[j].same}
<1>1. RRLines(lines) \subseteq Int
  BY DEF RRLines
<1>2. i \in named /\ \A j \in named : j \in Int /\ j <= i
  <2>1. i <= i
    BY <1>1
  <2> QED
    BY <1>1, <2>1, Zenon
<1>3. ParsedOwner(lines, i, origin)
        = IF named = {} THEN <<>> ELSE lines[Max(named)].owner \o origin
  BY Zenon DEF ParsedOwner
<1>4. LexedOwner(lines[i], origin) = lines[i].owner \o origin
  BY Zenon DEF LexedOwner
<1> HIDE DEF named
<1>5. Max(named) = i
  <2>1. i \in Int /\ \A j \in named : i >= j
    BY <1>1, <1>2
  <2>2. \A x \in named : (\A y \in named : x >= y) => x = i
    BY <1>2, <2>1
  <2> QED
    BY <1>2, <2>1, <2>2 DEF Max
<1>6. named # {}
  BY <1>2, Zenon
<1> QED
  BY <1>3, <1>4, <1>5, <1>6, Zenon

LEMMA ParsedIs ==
  ASSUME NEW fs, WellFormed(fs), Plain(fs), NEW f \in Paths,
         NEW origin \in Name
  PROVE  /\ ParsedRRs(fs, f, origin)
              = {Rec(At(fs, s).owner \o origin, At(fs, s).type,
                     At(fs, s).data) : s \in Sites(fs, f)}
         /\ \A s \in Sites(fs, f) :
              LexedOwner(At(fs, s), origin) = At(fs, s).owner \o origin
<1> DEFINE Own(s) == ParsedOwner(fs[s[1]], s[2], origin)
<1>1. ASSUME NEW s \in Sites(fs, f)
      PROVE  /\ Own(s) = At(fs, s).owner \o origin
             /\ LexedOwner(At(fs, s), origin) = At(fs, s).owner \o origin
             /\ IsInZone(Own(s), origin)
  <2>1. /\ s[1] \in Paths /\ s[2] \in RRLines(fs[s[1]])
        /\ At(fs, s).owner \in Name
    BY SiteLine, Zenon
  <2>2. fs[s[1]] \in Seq(Line(Paths))
    BY <2>1 DEF WellFormed
  <2>3. ~fs[s[1]][s[2]].same
    BY <2>1, Zenon DEF Plain
  <2>4. /\ Own(s) = fs[s[1]][s[2]].owner \o origin
        /\ LexedOwner(fs[s[1]][s[2]], origin)
             = fs[s[1]][s[2]].owner \o origin
    BY <2>1, <2>2, <2>3, PlainOwner, Zenon
  <2>5. /\ Own(s) = At(fs, s).owner \o origin
        /\ LexedOwner(At(fs, s), origin) = At(fs, s).owner \o origin
    BY <2>4, Zenon DEF At
  <2>6. IsInZone(At(fs, s).owner \o origin, origin)
    BY <2>1, OriginIsSuffix
  <2> HIDE DEF Own
  <2> QED
    BY <2>5, <2>6, Zenon
<1> DEFINE All == {Rec(Own(s), At(fs, s).type, At(fs, s).data) :
                     s \in Sites(fs, f)}
<1>2. ParsedRRs(fs, f, origin) = {rr \in All : IsInZone(rr.owner, origin)}
  BY Zenon DEF ParsedRRs, Rec
<1> HIDE DEF Own
<1>3. \A rr \in All : IsInZone(rr.owner, origin)
  <2> TAKE rr \in All
  <2>1. PICK s \in Sites(fs, f) :
               rr = Rec(Own(s), At(fs, s).type, At(fs, s).data)
    OBVIOUS
  <2>2. rr.owner = Own(s)
    BY <2>1 DEF Rec
  <2> QED
    BY <1>1, <2>2
<1>4. ParsedRRs(fs, f, origin) = All
  <2> HIDE DEF All
  <2> QED
    BY <1>2, <1>3, Zenon
<1>5. All = {Rec(At(fs, s).owner \o origin, At(fs, s).type,
                 At(fs, s).data) : s \in Sites(fs, f)}
  BY <1>1
<1> QED
  BY <1>1, <1>4, <1>5, Zenon

LEMMA ListedFacts ==
  ASSUME NEW S, IsFiniteSet(S)
  PROVE  Listed(S) \in Seq(S) /\ Range(Listed(S)) = S
<1>1. Cardinality(S) \in Nat /\ ExistsBijection(1..Cardinality(S), S)
  BY FS_CardinalityType
<1>2. PICK g : g \in Bijection(1..Cardinality(S), S)
  BY <1>1 DEF ExistsBijection
<1>3. g \in [1..Cardinality(S) -> S] /\ \A x \in S :
        \E j \in 1..Cardinality(S) : g[j] = x
  BY <1>2 DEF Bijection, Surjection
<1>4. Range(g) = S
  BY <1>3 DEF Range
<1>5. Listed(S) \in [1..Cardinality(S) -> S] /\ Range(Listed(S)) = S
  BY <1>3, <1>4, Zenon DEF Listed
<1> QED
  BY <1>1, <1>5

(* A lookup finds the data of the RRset.                                   *)
LEMMA LookupIs ==
  ASSUME NEW fs, WellFormed(fs), Plain(fs), NEW f \in Paths,
         NEW origin \in Name, NEW owner, NEW type
  PROVE  LET l == Lookup(ParseFile(fs, f, origin), owner, type)
             R == Recs(fs, RRSet(fs, f, origin, owner, type), owner, type)
         IN l \in Seq(R) /\ Range(l) = R
<1> DEFINE z == ParseFile(fs, f, origin)
           rrs == ParsedRRs(fs, f, origin)
           One(k) == {rr \in rrs : <<rr.owner, rr.type>> = k}
           K == {<<rr.owner, rr.type>> : rr \in rrs}
           G == RRSet(fs, f, origin, owner, type)
           R == {Rec(owner, type, At(fs, s).data) : s \in G}
<1>1. z.rrs = [k \in K |-> Listed(One(k))]
  BY DEF ParseFile
<1>2. \A s : s \in G <=> /\ s \in Sites(fs, f)
                         /\ LexedOwner(At(fs, s), origin) = owner
                         /\ At(fs, s).type = type
  BY DEF RRSet
<1>3. /\ rrs = {Rec(At(fs, s).owner \o origin, At(fs, s).type,
                    At(fs, s).data) : s \in Sites(fs, f)}
      /\ \A s \in Sites(fs, f) :
           LexedOwner(At(fs, s), origin) = At(fs, s).owner \o origin
  BY ParsedIs
<1>4. IsFiniteSet(Sites(fs, f))
  BY SitesFinite
<1> HIDE DEF z, rrs, G
<1>5. One(<<owner, type>>) = R
  <2>1. ASSUME NEW rr \in rrs, rr.owner = owner, rr.type = type
        PROVE  rr \in R
    <3>1. PICK s \in Sites(fs, f) :
            rr = Rec(At(fs, s).owner \o origin, At(fs, s).type, At(fs, s).data)
      BY <1>3
    <3>2. /\ rr.owner = LexedOwner(At(fs, s), origin)
          /\ rr.type = At(fs, s).type
      BY <1>3, <3>1 DEF Rec
    <3>3. s \in G /\ rr = Rec(owner, type, At(fs, s).data)
      BY <1>2, <1>3, <2>1, <3>1, <3>2
    <3> QED
      BY <3>3
  <2>2. ASSUME NEW rr \in R
        PROVE  rr \in rrs /\ <<rr.owner, rr.type>> = <<owner, type>>
    <3>1. PICK s \in G : rr = Rec(owner, type, At(fs, s).data)
      OBVIOUS
    <3>2. rr = Rec(At(fs, s).owner \o origin, At(fs, s).type, At(fs, s).data)
      BY <1>2, <1>3, <3>1
    <3>3. rr \in rrs
      BY <1>2, <1>3, <3>2
    <3> QED
      BY <3>1, <3>3 DEF Rec
  <2> HIDE DEF R
  <2> QED
    BY <2>1, <2>2
<1>6. IsFiniteSet(R)
  <2>1. IsFiniteSet(G)
    BY <1>2, <1>4, FS_Subset
  <2> DEFINE g == [s \in G |-> Rec(owner, type, At(fs, s).data)]
  <2>2. g \in [G -> R] /\ \A t \in R : \E s \in G : g[s] = t
    OBVIOUS
  <2> HIDE DEF g, R
  <2> QED
    BY <2>1, <2>2, ImageFinite
<1>7. Listed(R) \in Seq(R) /\ Range(Listed(R)) = R
  <2> HIDE DEF R
  <2> QED
    BY <1>6, ListedFacts
<1>8. R # {} <=> <<owner, type>> \in K
  <2> HIDE DEF R
  <2>1. ASSUME NEW rr \in R PROVE <<owner, type>> \in K
    <3>1. rr \in rrs /\ <<rr.owner, rr.type>> = <<owner, type>>
      BY <1>5
    <3> QED
      BY <3>1
  <2>2. ASSUME <<owner, type>> \in K PROVE R # {}
    <3>1. PICK rr \in rrs : <<rr.owner, rr.type>> = <<owner, type>>
      BY <2>2
    <3> QED
      BY <1>5, <3>1
  <2> QED
    BY <2>1, <2>2
<1> HIDE DEF K, R
<1>9. CASE <<owner, type>> \in K
  <2>1. Lookup(z, owner, type) = Listed(One(<<owner, type>>))
    <3> HIDE DEF One
    <3> QED
      BY <1>1, <1>9 DEF Lookup
  <2> QED
    BY <1>5, <1>7, <2>1, Zenon DEF z, R, G, Recs
<1>10. CASE <<owner, type>> \notin K
  <2>1. Lookup(z, owner, type) = <<>>
    <3> HIDE DEF One
    <3> QED
      BY <1>1, <1>10 DEF Lookup
  <2>2. R = {}
    BY <1>8, <1>10
  <2>3. <<>> \in Seq(R) /\ Range(<<>>) = {}
    BY DEF Range
  <2>4. Lookup(z, owner, type) \in Seq(R) /\ Range(Lookup(z, owner, type)) = R
    BY <2>1, <2>2, <2>3
  <2> QED
    BY <2>4, Zenon DEF z, R, G, Recs
<1> QED
  BY <1>9, <1>10

LEMMA FilteredLookup ==
  ASSUME NEW fs, NEW f, NEW origin, NEW owner, NEW type \in Overridable
  PROVE  Lookup(filterBackupRecords(ParseFile(fs, f, origin)), owner, type)
           = Lookup(ParseFile(fs, f, origin), owner, type)
<1> DEFINE z == ParseFile(fs, f, origin)
           F == filterBackupRecords(z)
<1>1. z = [origin |-> z.origin, rrs |-> z.rrs]
  BY DEF ParseFile
<1> HIDE DEF z
<1>2. F.rrs = [k \in {x \in DOMAIN z.rrs : x[2] \in Overridable} |-> z.rrs[k]]
  BY <1>1 DEF filterBackupRecords
<1> HIDE DEF F
<1>3. <<owner, type>>[2] = type
  OBVIOUS
<1>4. <<owner, type>> \in DOMAIN F.rrs <=> <<owner, type>> \in DOMAIN z.rrs
  BY <1>2, <1>3
<1>5. <<owner, type>> \in DOMAIN F.rrs =>
        F.rrs[<<owner, type>>] = z.rrs[<<owner, type>>]
  BY <1>2
<1>6. Lookup(F, owner, type) = Lookup(z, owner, type)
  BY <1>4, <1>5 DEF Lookup
<1> QED
  BY <1>6 DEF F, z
----------------------------------------------------------------------------
(* An answer from the root, for a type a backup may override.              *)
LEMMA KeptAll ==
  ASSUME NEW S, NEW rrs \in Seq(S),
         \A i \in DOMAIN rrs : rrs[i].type \notin Uncovered
  PROVE  Kept(rrs) = rrs
<1> DEFINE n == Len(rrs)
           Step(g, i) == IF i = 0 THEN <<>>
                         ELSE IF rrs[i].type \in Uncovered THEN g[i - 1]
                         ELSE Append(g[i - 1], rrs[i])
           Body(g) == [i \in 0..n |-> Step(g, i)]
           w == [i \in 0..n |-> SubSeq(rrs, 1, i)]
           K == CHOOSE g : g = Body(g)
<1>1. n \in Nat /\ DOMAIN rrs = 1..n
  OBVIOUS
<1>2. \A i \in 1..n : Append(SubSeq(rrs, 1, i - 1), rrs[i]) = SubSeq(rrs, 1, i)
  <2> TAKE i \in 1..n
  <2> DEFINE a == SubSeq(rrs, 1, i - 1)
             b == SubSeq(rrs, 1, i)
  <2>1. /\ a \in Seq(S) /\ Len(a) = i - 1 /\ rrs[i] \in S
        /\ \A j \in 1..(i - 1) : a[j] = rrs[j]
    BY <1>1
  <2>2. b \in Seq(S) /\ Len(b) = i /\ \A j \in 1..i : b[j] = rrs[j]
    BY <1>1
  <2> HIDE DEF a, b
  <2>3. /\ Append(a, rrs[i]) \in Seq(S) /\ Len(Append(a, rrs[i])) = i
        /\ \A j \in 1..i : Append(a, rrs[i])[j] = rrs[j]
    BY <2>1
  <2>4. Append(a, rrs[i]) = b
    BY <2>2, <2>3
  <2> QED
    BY <2>4 DEF a, b
<1>3. SubSeq(rrs, 1, 0) = <<>> /\ SubSeq(rrs, 1, n) = rrs
  BY <1>1
<1> HIDE DEF n
<1>4. w = Body(w)
  <2>1. \A i \in 0..n : i # 0 => i \in 1..n /\ i - 1 \in 0..n
    BY <1>1
  <2>2. \A i \in 0..n : w[i] = SubSeq(rrs, 1, i)
    OBVIOUS
  <2> HIDE DEF w
  <2>3. \A i \in 0..n : Step(w, i) = SubSeq(rrs, 1, i)
    BY <1>1, <1>2, <1>3, <2>1, <2>2
  <2> HIDE DEF Step
  <2> USE DEF w
  <2> QED
    BY <2>3
<1>5. K = Body(K)
  <2> HIDE DEF Body, w
  <2> QED
    BY <1>4, Zenon
<1>6. Kept(rrs) = K[n]
  BY Zenon DEF Kept, n
<1> HIDE DEF K
<1>7. \A i \in 0..n : K[i] = Step(K, i)
  <2> HIDE DEF Step
  <2> QED
    BY <1>5, Zenon
<1> DEFINE T == {m \in Nat : m <= n => K[m] = SubSeq(rrs, 1, m)}
<1>8. 0 \in T
  <2>1. 0 \in 0..n /\ 0 \in Nat
    BY <1>1
  <2>2. K[0] = <<>>
    BY <1>7, <2>1, Zenon
  <2> QED
    BY <1>3, <2>1, <2>2
<1>9. ASSUME NEW m \in T PROVE m + 1 \in T
  <2>1. m \in Nat /\ m + 1 \in Nat /\ m + 1 # 0 /\ (m + 1) - 1 = m
    OBVIOUS
  <2>2. ASSUME m + 1 <= n PROVE K[m + 1] = SubSeq(rrs, 1, m + 1)
    <3>1. m + 1 \in 0..n /\ m + 1 \in 1..n /\ m <= n
      BY <1>1, <2>1, <2>2
    <3>2. K[m] = SubSeq(rrs, 1, m)
      BY <3>1
    <3>3. K[m + 1] = Append(K[m], rrs[m + 1])
      BY <1>1, <1>7, <2>1, <3>1
    <3>4. Append(SubSeq(rrs, 1, m), rrs[m + 1]) = SubSeq(rrs, 1, m + 1)
      BY <1>2, <2>1, <3>1
    <3> QED
      BY <3>2, <3>3, <3>4
  <2> QED
    BY <2>1, <2>2
<1>10. n \in T
  <2>1. T \in SUBSET Nat /\ \A m \in T : m + 1 \in T
    BY <1>9
  <2> HIDE DEF T
  <2> QED
    BY <1>1, <1>8, <2>1, NatSetInduction
<1> QED
  BY <1>1, <1>3, <1>6, <1>10

(* The data of a record of a covered type in the backup's answer.          *)
NewData(d, labels) ==
  IF labels THEN RewriteNameAnywhere(d, RootOrigin, BackupOrigin)
  ELSE RewriteName(d, RootOrigin, BackupOrigin)

BackRR(rr, labels) == RewriteRR(rr, RootOrigin, BackupOrigin, labels)

LEMMA RewritingIs ==
  ASSUME NEW rr, NEW labels
  PROVE  rewriteRDATANames(rr, RootOrigin, BackupOrigin, labels)
           = IF rr.type \in Covered
             THEN [rr EXCEPT !.data = NewData(rr.data, labels)] ELSE rr
  BY Zenon DEF rewriteRDATANames, NewData

LEMMA BackRRIs ==
  ASSUME NEW owner, NEW type, NEW d, NEW q, NEW labels,
         RewriteName(owner, RootOrigin, BackupOrigin) = q,
         type \in Covered => NewData(d, labels) = d
  PROVE  BackRR(Rec(owner, type, d), labels) = Rec(q, type, d)
<1>1. [Rec(owner, type, d) EXCEPT
         !.owner = RewriteName(@, RootOrigin, BackupOrigin)]
        = Rec(q, type, d)
  BY DEF Rec
<1>2. BackRR(Rec(owner, type, d), labels)
        = rewriteRDATANames(Rec(q, type, d), RootOrigin, BackupOrigin, labels)
  BY <1>1, Zenon DEF BackRR, RewriteRR
<1>3. Rec(q, type, d).type = type /\ Rec(q, type, d).data = d
  BY DEF Rec
<1>4. CASE type \in Covered
  <2> DEFINE rr == Rec(q, type, d)
  <2>0. rewriteRDATANames(rr, RootOrigin, BackupOrigin, labels)
          = IF rr.type \in Covered
            THEN [rr EXCEPT !.data = NewData(rr.data, labels)] ELSE rr
    <3> HIDE DEF rr
    <3> QED
      BY RewritingIs, Zenon
  <2>1. rewriteRDATANames(rr, RootOrigin, BackupOrigin, labels)
          = [rr EXCEPT !.data = d]
    <3>1. rr.type \in Covered /\ rr.data = d /\ NewData(d, labels) = d
      BY <1>3, <1>4, Zenon
    <3>2. NewData(rr.data, labels) = d
      <4> HIDE DEF rr
      <4> QED
        BY <3>1, Zenon
    <3> HIDE DEF rr
    <3> QED
      BY <2>0, <3>1, <3>2, Zenon
  <2>2. [Rec(q, type, d) EXCEPT !.data = d] = Rec(q, type, d)
    BY DEF Rec
  <2> QED
    BY <1>2, <2>1, <2>2, Zenon
<1>5. CASE type \notin Covered
  BY <1>2, <1>3, <1>5, RewritingIs, Zenon
<1> QED
  BY <1>4, <1>5

(* A line that the rewriting leaves alone has data it leaves alone.        *)
LEMMA DataLeftAlone ==
  ASSUME NEW o, WellFormed(o), NEW f \in Paths, NEW s \in Sites(o, f),
         NEW labels,
         rewriteRDATANames(At(o, s), RootOrigin, BackupOrigin, labels)
           = At(o, s)
  PROVE  At(o, s).type \in Covered =>
           NewData(At(o, s).data, labels) = At(o, s).data
<1> SUFFICES ASSUME At(o, s).type \in Covered
             PROVE  NewData(At(o, s).data, labels) = At(o, s).data
  OBVIOUS
<1> DEFINE line == At(o, s)
           d == NewData(line.data, labels)
<1>1. s[1] \in Paths /\ s[2] \in RRLines(o[s[1]])
  BY SiteLine
<1>2. line \in Line(Paths) /\ line.kind = "rr"
  BY <1>1 DEF WellFormed, RRLines, At
<1>3. line = [line EXCEPT !.data = d]
  BY RewritingIs, Zenon
<1> HIDE DEF line, d
<1>4. [line EXCEPT !.data = d].data = d
  BY <1>2 DEF Line
<1>5. line.data = d
  BY <1>3, <1>4, Zenon
<1> QED
  BY <1>5, Zenon DEF line, d

(* finalizeBackupRRs, as a set.                                            *)
FromRoot(l, t, z, labels) ==
  Range(finalizeBackupRRs(l, t, z, BackupOrigin, labels).rrs)

LEMMA FinalizedIs ==
  ASSUME NEW S, NEW rrs \in Seq(S), NEW t \in Overridable,
         \A i \in DOMAIN rrs : rrs[i].type = t, NEW z, z.origin = RootOrigin,
         NEW labels
  PROVE  FromRoot(rrs, t, z, labels) = {BackRR(rr, labels) : rr \in Range(rrs)}
<1>1. t \notin Uncovered /\ t # "CNAME"
  BY DEF Overridable, Uncovered
<1>2. Kept(rrs) = rrs
  BY <1>1, KeptAll
<1>3. Chased(rrs, t, z) = rrs
  <2>1. rrs # <<>> => Len(rrs) \in DOMAIN rrs
    OBVIOUS
  <2> QED
    BY <1>1, <2>1 DEF Chased
<1>4. finalizeBackupRRs(rrs, t, z, BackupOrigin, labels).rrs
        = RewriteRRs(rrs, RootOrigin, BackupOrigin, labels)
  <2>1. finalizeBackupRRs(rrs, t, z, BackupOrigin, labels)
          = Stage(RewriteRRs(rrs, RootOrigin, BackupOrigin, labels), FALSE,
                  Withheld(rrs))
    BY <1>2, <1>3, Zenon DEF finalizeBackupRRs, Emitted
  <2>2. \A a, b, c : Stage(a, b, c).rrs = a
    BY DEF Stage
  <2>3. Stage(RewriteRRs(rrs, RootOrigin, BackupOrigin, labels), FALSE,
              Withheld(rrs)).rrs
          = RewriteRRs(rrs, RootOrigin, BackupOrigin, labels)
    BY <2>2, Zenon
  <2> QED
    BY <2>1, <2>3, Zenon
<1>5. RewriteRRs(rrs, RootOrigin, BackupOrigin, labels)
        = [i \in DOMAIN rrs |-> BackRR(rrs[i], labels)]
  BY Zenon DEF RewriteRRs, BackRR
<1>6. Range([i \in DOMAIN rrs |-> BackRR(rrs[i], labels)])
        = {BackRR(rr, labels) : rr \in Range(rrs)}
  BY DEF Range
<1> QED
  BY <1>4, <1>5, <1>6, Zenon DEF FromRoot

(* The answer is the backup's own RRset, or the root's where it has none.  *)
OwnOrRoot(over, z, q, t, labels) ==
  /\ Lookup(over, q, t) # <<>> =>
       Answer(over, z, q, t, labels) = Range(Lookup(over, q, t))
  /\ Lookup(over, q, t) = <<>> =>
       Answer(over, z, q, t, labels)
         = FromRoot(Lookup(z, RewriteName(q, BackupOrigin, RootOrigin), t),
                    t, z, labels)

LEMMA AnswerIs ==
  ASSUME NEW over, NEW z, NEW q, NEW t \in Overridable, NEW labels,
         z.origin = RootOrigin
  PROVE  OwnOrRoot(over, z, q, t, labels)
<1>1. \A a, b, c : Stage(a, b, c).rrs = a
  BY DEF Stage
<1>2. Lookup(over, q, t) # <<>> =>
        Answer(over, z, q, t, labels)
          = Range(Stage(Lookup(over, q, t), FALSE, {}).rrs)
  BY Zenon DEF Answer, ResolveExactNoCNAME
<1>3. Lookup(over, q, t) = <<>> =>
        Answer(over, z, q, t, labels)
          = FromRoot(Lookup(z, RewriteName(q, BackupOrigin, z.origin), t),
                     t, z, labels)
  BY Zenon DEF Answer, ResolveExactNoCNAME, FromRoot
<1> QED
  BY <1>1, <1>2, <1>3, Zenon DEF OwnOrRoot
----------------------------------------------------------------------------
(* The answers before and after.                                           *)
LEMMA PlainStays ==
  ASSUME NEW o, WellFormed(o), Plain(o), NEW D, Lines(o, D)
  PROVE  Plain(Without(o, D))
<1> DEFINE fs == Without(o, D)
<1> SUFFICES ASSUME NEW p \in Paths, NEW i \in RRLines(fs[p])
             PROVE  ~fs[p][i].same
  BY Zenon DEF Plain
<1>1. PICK h : Traces(o[p], D[p], fs[p], h)
  BY WithoutFacts
<1> HIDE DEF fs
<1>2. h[i] \in RRLines(o[p]) /\ fs[p][i] = o[p][h[i]]
  BY <1>1 DEF Traces
<1>3. ~o[p][h[i]].same
  BY <1>2, Zenon DEF Plain
<1> QED
  BY <1>2, <1>3, Zenon

(* The data of an RRset after, in terms of the files before.               *)
LEMMA DataIs ==
  ASSUME NEW o, WellFormed(o), NEW D, Lines(o, D), NEW f \in Paths,
         NEW origin, NEW owner, NEW type
  PROVE  LET fs == Without(o, D) IN
         Recs(fs, RRSet(fs, f, origin, owner, type), owner, type)
           = Recs(o, RRSet(o, f, origin, owner, type) \ Gone(D), owner, type)
<1> DEFINE fs == Without(o, D)
           A == RRSet(fs, f, origin, owner, type)
           B == RRSet(o, f, origin, owner, type) \ Gone(D)
<1>1. /\ \A s \in Sites(fs, f) :
           /\ Back(o, D, s) \in Sites(o, f) \ Gone(D)
           /\ At(fs, s) = At(o, Back(o, D, s))
      /\ \A x \in Sites(o, f) \ Gone(D) :
           \E s \in Sites(fs, f) : Back(o, D, s) = x
  BY BackFacts
<1>2. \A s : s \in A <=> /\ s \in Sites(fs, f)
                         /\ LexedOwner(At(fs, s), origin) = owner
                         /\ At(fs, s).type = type
  BY DEF RRSet
<1>3. \A s : s \in B <=> /\ s \in Sites(o, f) \ Gone(D)
                         /\ LexedOwner(At(o, s), origin) = owner
                         /\ At(o, s).type = type
  BY DEF RRSet
<1> HIDE DEF fs, A, B
<1>4. \A s \in A : Back(o, D, s) \in B /\ At(fs, s) = At(o, Back(o, D, s))
  BY <1>1, <1>2, <1>3
<1>5. \A x \in B : \E s \in A : At(fs, s) = At(o, x)
  BY <1>1, <1>2, <1>3
<1>6. Recs(fs, A, owner, type) = Recs(o, B, owner, type)
  BY <1>4, <1>5 DEF Recs
<1> QED
  BY <1>6 DEF fs, A, B

LEMMA EqualData ==
  ASSUME NEW fs, NEW a, NEW b, IsFiniteSet(a), IsFiniteSet(b),
         rrsetEqual(fs, a, b), NEW d
  PROVE  (\E s \in a : At(fs, s).data = d)
           <=> (\E s \in b : At(fs, s).data = d)
<1>1. Cardinality(WithData(fs, a, d)) = Cardinality(WithData(fs, b, d))
  BY EqualIs
<1>2. IsFiniteSet(WithData(fs, a, d)) /\ IsFiniteSet(WithData(fs, b, d))
  BY FS_Subset DEF WithData
<1>3. /\ Cardinality(WithData(fs, a, d)) = 0 <=> WithData(fs, a, d) = {}
      /\ Cardinality(WithData(fs, b, d)) = 0 <=> WithData(fs, b, d) = {}
  BY <1>2, FS_EmptySet
<1>4. WithData(fs, a, d) = {} <=> WithData(fs, b, d) = {}
  BY <1>1, <1>3
<1> QED
  BY <1>4 DEF WithData

LEMMA RootParsed ==
  ASSUME NEW o, WellFormed(o), NEW D, Lines(o, D), NEW f \in Paths,
         \A p \in TreeFiles(o, f) : D[p] = {}, NEW origin
  PROVE  /\ ParsedRRs(Without(o, D), f, origin) = ParsedRRs(o, f, origin)
         /\ ParseFile(Without(o, D), f, origin) = ParseFile(o, f, origin)
<1> DEFINE fs == Without(o, D)
<1>1. /\ Sites(fs, f) = Sites(o, f)
      /\ \A s \in Sites(o, f) : fs[s[1]] = o[s[1]]
  BY TreeUnmoved
<1> HIDE DEF fs
<1>2. ParsedRRs(fs, f, origin) = ParsedRRs(o, f, origin)
  BY <1>1 DEF ParsedRRs, At
<1>3. ParseFile(fs, f, origin) = ParseFile(o, f, origin)
  BY <1>2 DEF ParseFile
<1> QED
  BY <1>2, <1>3 DEF fs

LEMMA EmptyRange ==
  ASSUME NEW S, NEW l \in Seq(S)
  PROVE  l = <<>> <=> Range(l) = {}
  BY DEF Range

(* What the root gives for an RRset that was deleted is what the backup    *)
(* gave.                                                                   *)
LEMMA RootGivesTheSame ==
  ASSUME NEW o, WellFormed(o), Plain(o), NEW pair \in PairOfFiles,
         pair.root \in Paths, NEW q, NEW t \in Overridable, NEW labels,
         NEW x \in Group(o, pair, q, t),
         rrsetEqual(o, Group(o, pair, q, t), RootGroup(o, pair, q, t)),
         \A s \in Group(o, pair, q, t) : t \in Covered =>
           NewData(At(o, s).data, labels) = At(o, s).data
  PROVE  LET z == ParseFile(o, pair.root, RootOrigin)
             l == Lookup(z, RewriteName(q, BackupOrigin, RootOrigin), t)
         IN FromRoot(l, t, z, labels) = Recs(o, Group(o, pair, q, t), q, t)
<1> DEFINE z == ParseFile(o, pair.root, RootOrigin)
           rq == RewriteName(q, BackupOrigin, RootOrigin)
           l == Lookup(z, rq, t)
           G == Group(o, pair, q, t)
           H == RootGroup(o, pair, q, t)
           R == Recs(o, H, rq, t)
<1>0. pair.backup \in Paths /\ BackupOrigin \in Name /\ RootOrigin \in Name
  BY OriginsAssumption DEF PairOfFiles
<1>1. l \in Seq(R) /\ Range(l) = R
  <2> DEFINE X == RRSet(o, pair.root, RootOrigin, rq, t)
             Y == Recs(o, X, rq, t)
  <2>1. H = X
    BY Zenon DEF RootGroup
  <2> HIDE DEF rq
  <2>2. l \in Seq(Y) /\ Range(l) = Y
    BY <1>0, LookupIs
  <2> HIDE DEF X, H, l
  <2>3. R = Y
    BY <2>1
  <2> QED
    BY <2>2, <2>3
<1>2. z.origin = RootOrigin
  BY DEF ParseFile
<1>3. RewriteName(rq, RootOrigin, BackupOrigin) = q
  <2>1. x \in Sites(o, pair.backup) /\ LexedOwner(At(o, x), BackupOrigin) = q
    BY DEF Group, RRSet
  <2>2. q = At(o, x).owner \o BackupOrigin
    BY <1>0, <2>1, ParsedIs
  <2>3. At(o, x).owner \in Name
    BY <1>0, <2>1, SiteLine, Zenon
  <2>4. rq = At(o, x).owner \o RootOrigin
    BY <1>0, <2>2, <2>3, RewriteSuffix
  <2> HIDE DEF rq
  <2> QED
    BY <1>0, <2>2, <2>3, <2>4, RewriteSuffix
<1>4. IsFiniteSet(G) /\ IsFiniteSet(H)
  <2>1. G \subseteq Sites(o, pair.backup) /\ H \subseteq Sites(o, pair.root)
    BY DEF Group, RootGroup, RRSet
  <2> HIDE DEF G, H
  <2> QED
    BY <1>0, <2>1, SitesFinite, FS_Subset
<1>5. \A d : (\E s \in G : At(o, s).data = d)
               <=> (\E s \in H : At(o, s).data = d)
  BY <1>4, EqualData
<1> HIDE DEF z, rq, l, G, H
<1>6. \A i \in DOMAIN l : l[i].type = t
  <2> TAKE i \in DOMAIN l
  <2>1. l[i] \in R
    BY <1>1
  <2> QED
    BY <2>1 DEF Rec, Recs
<1>7. FromRoot(l, t, z, labels) = {BackRR(rr, labels) : rr \in R}
  <2> HIDE DEF R
  <2> QED
    BY <1>1, <1>2, <1>6, FinalizedIs, Zenon
<1>8. ASSUME NEW s \in H
      PROVE  BackRR(Rec(rq, t, At(o, s).data), labels)
               = Rec(q, t, At(o, s).data)
  <2>1. PICK y \in G : At(o, y).data = At(o, s).data
    BY <1>5
  <2>2. t \in Covered => NewData(At(o, s).data, labels) = At(o, s).data
    BY <2>1 DEF G
  <2> QED
    BY <1>3, <2>2, BackRRIs
<1>9. {BackRR(rr, labels) : rr \in R} = Recs(o, H, q, t)
  BY <1>8 DEF Recs
<1>10. Recs(o, H, q, t) = Recs(o, G, q, t)
  BY <1>5 DEF Recs
<1> HIDE DEF R
<1>11. FromRoot(l, t, z, labels) = Recs(o, G, q, t)
  BY <1>7, <1>9, <1>10, Zenon
<1> QED
  BY <1>11, Zenon DEF z, rq, l, G

(* One name and one type.                                                  *)
LEMMA AnswerStays ==
  ASSUME NEW D, NEW i \in DOMAIN pairs, NEW q, NEW t \in Overridable,
         NEW labels, Tame, WellFormed(orig), pairs \in Seq(PairOfFiles),
         Sound(orig, pairs, D), pairs[i].root # NoFile,
         ~Rewritten(pairs[i], q, t, labels)
  PROVE  BackupAnswer(Without(orig, D), pairs[i], q, t, labels)
           = BackupAnswer(orig, pairs[i], q, t, labels)
<1> DEFINE fs == Without(orig, D)
           b == pairs[i].backup
           r == pairs[i].root
           over(x) == filterBackupRecords(ParseFile(x, b, BackupOrigin))
           z == ParseFile(orig, r, RootOrigin)
           M(x) == Lookup(over(x), q, t)
           G == Group(orig, pairs[i], q, t)
           Give(S) == Recs(orig, S, q, t)
<1>1. Disjoint /\ Unsplit /\ Plain(orig)
  BY Zenon DEF Tame, Plain
<1>2. Apart(orig, pairs) /\ Lines(orig, D)
  BY <1>1, DisjointIsApart, SoundLines
<1>3. pairs[i] \in PairOfFiles /\ b \in Paths /\ r \in Paths
  <2>1. pairs[i] \in PairOfFiles
    OBVIOUS
  <2> QED
    BY <2>1 DEF PairOfFiles
<1>4. BackupOrigin \in Name /\ RootOrigin \in Name
  BY OriginsAssumption
<1>5. ParseFile(fs, r, RootOrigin) = z
  <2>1. \A p \in TreeFiles(orig, r) : D[p] = {}
    BY <1>2, RootStays DEF RootWhole
  <2> QED
    BY <1>2, <1>3, <2>1, RootParsed
<1>6. WellFormed(fs) /\ Plain(fs)
  BY <1>1, <1>2, WithoutFacts, PlainStays
<1>7. M(orig) \in Seq(Give(G)) /\ Range(M(orig)) = Give(G)
  <2>1. M(orig) = Lookup(ParseFile(orig, b, BackupOrigin), q, t)
    BY FilteredLookup
  <2>2. G = RRSet(orig, b, BackupOrigin, q, t)
    BY DEF Group
  <2> HIDE DEF M
  <2> QED
    BY <1>1, <1>3, <1>4, <2>1, <2>2, LookupIs
<1>8. M(fs) \in Seq(Give(G \ Gone(D))) /\ Range(M(fs)) = Give(G \ Gone(D))
  <2> DEFINE Y == Recs(fs, RRSet(fs, b, BackupOrigin, q, t), q, t)
  <2>1. M(fs) = Lookup(ParseFile(fs, b, BackupOrigin), q, t)
    BY FilteredLookup
  <2>2. G = RRSet(orig, b, BackupOrigin, q, t)
    BY DEF Group
  <2>3. Y = Give(G \ Gone(D))
    <3>1. Y = Recs(orig, RRSet(orig, b, BackupOrigin, q, t) \ Gone(D), q, t)
      BY <1>2, <1>3, DataIs
    <3> HIDE DEF Y, G
    <3> QED
      BY <2>2, <3>1
  <2> HIDE DEF M, fs, G, Give
  <2>4. M(fs) \in Seq(Y) /\ Range(M(fs)) = Y
    BY <1>3, <1>4, <1>6, <2>1, LookupIs
  <2> HIDE DEF Y
  <2> QED
    BY <2>3, <2>4
<1>9. z.origin = RootOrigin
  BY DEF ParseFile
<1> DEFINE F == FromRoot(Lookup(z, RewriteName(q, BackupOrigin, RootOrigin),
                                t), t, z, labels)
<1>10. \A x : /\ M(x) # <<>> => Answer(over(x), z, q, t, labels) = Range(M(x))
              /\ M(x) = <<>> => Answer(over(x), z, q, t, labels) = F
  <2> TAKE x
  <2> DEFINE v == over(x)
  <2> HIDE DEF z, v
  <2>1. OwnOrRoot(v, z, q, t, labels)
    <3> HIDE DEF F
    <3> QED
      BY <1>9, AnswerIs
  <2> QED
    BY <2>1, Zenon DEF OwnOrRoot, v
<1>11. /\ M(orig) = <<>> <=> Give(G) = {}
       /\ M(fs) = <<>> <=> Give(G \ Gone(D)) = {}
  <2> HIDE DEF M, fs, G, Give
  <2> QED
    BY <1>7, <1>8, EmptyRange
<1>12. CASE G \cap Gone(D) = {}
  <2>1. G \ Gone(D) = G
    BY <1>12
  <2> HIDE DEF M, fs, G, Give, z, over, F
  <2>2. Answer(over(fs), z, q, t, labels) = Answer(over(orig), z, q, t, labels)
    BY <1>7, <1>8, <1>10, <1>11, <2>1
  <2> QED
    BY <1>5, <2>2, Zenon DEF BackupAnswer, over, fs, z, b, r
<1>13. CASE G \cap Gone(D) # {}
  <2>1. PICK x : x \in G /\ x \in Gone(D)
    BY <1>13
  <2>2. ASSUME NEW s \in G
        PROVE  /\ s \in Sites(orig, b) /\ s \in Gone(D)
               /\ At(orig, s).type = t
               /\ LexedOwner(At(orig, s), BackupOrigin) = q
    <3>1. /\ s \in Sites(orig, b) /\ At(orig, s).type = t
          /\ LexedOwner(At(orig, s), BackupOrigin) = q
      BY DEF Group, RRSet
    <3>2. x \in SetOf(orig, pairs[i], s)
      BY <2>1, <3>1 DEF SetOf
    <3> QED
      BY <1>1, <2>1, <3>1, <3>2, AllOrNothing
  <2>3. ASSUME NEW s \in G PROVE s \in Deletions(orig, pairs[i])
    BY <1>2, <2>2, GoneIsDoomed
  <2>4. rrsetEqual(orig, G, RootGroup(orig, pairs[i], q, t))
    <3>1. Decision(orig, pairs[i], q, t) = "delete"
      BY <2>1, <2>2, <2>3, DeletionsAre
    <3> QED
      BY <3>1, DecisionIs, Zenon
  <2>5. ASSUME NEW s \in G
        PROVE  t \in Covered => NewData(At(orig, s).data, labels)
                                 = At(orig, s).data
    <3>1. rewriteRDATANames(At(orig, s), RootOrigin, BackupOrigin, labels)
            = At(orig, s)
      BY <2>2, <2>3, Zenon DEF Rewritten
    <3>2. At(orig, s).type \in Covered =>
            NewData(At(orig, s).data, labels) = At(orig, s).data
      BY <1>3, <2>2, <3>1, DataLeftAlone, Zenon
    <3> QED
      BY <2>2, <3>2, Zenon
  <2>6. F = Give(G)
    BY <1>1, <1>3, <2>1, <2>4, <2>5, RootGivesTheSame, Zenon
  <2>7. Give(G) # {} /\ G \ Gone(D) = {}
    BY <2>1, <2>2 DEF Recs
  <2>8. Give({}) = {}
    BY DEF Recs
  <2> HIDE DEF M, fs, G, Give, z, over, F
  <2>9. Answer(over(fs), z, q, t, labels) = Answer(over(orig), z, q, t, labels)
    BY <1>7, <1>10, <1>11, <2>6, <2>7, <2>8
  <2> QED
    BY <1>5, <2>9, Zenon DEF BackupAnswer, over, fs, z, b, r
<1> QED
  BY <1>12, <1>13

LEMMA InvAnswersKept == PruneInv => AnswersKept
<1> SUFFICES ASSUME PruneInv, Tame, NEW i \in DOMAIN pairs
             PROVE  /\ RootRecords(file, pairs[i])
                         = RootRecords(orig, pairs[i])
                    /\ \A q \in QNames, t \in Overridable,
                         labels \in BOOLEAN :
                         \/ BackupAnswer(file, pairs[i], q, t, labels)
                              = BackupAnswer(orig, pairs[i], q, t, labels)
                         \/ Rewritten(pairs[i], q, t, labels)
  BY Zenon DEF AnswersKept
<1>1. WellFormed(orig) /\ pairs \in Seq(PairOfFiles)
  BY DEF PruneInv
<1>2. Apart(orig, pairs)
  BY <1>1, DisjointIsApart, Zenon DEF Tame
<1>3. PICK D : Sound(orig, pairs, D) /\ file = Without(orig, D)
  BY <1>2 DEF PruneInv, Work
<1>4. CASE pairs[i].root = NoFile
  BY <1>4, Zenon DEF RootRecords, BackupAnswer
<1>5. CASE pairs[i].root # NoFile
  <2>1. ASSUME NEW q \in QNames, NEW t \in Overridable, NEW labels \in BOOLEAN,
               ~Rewritten(pairs[i], q, t, labels)
        PROVE  BackupAnswer(file, pairs[i], q, t, labels)
                 = BackupAnswer(orig, pairs[i], q, t, labels)
    <3>1. BackupAnswer(Without(orig, D), pairs[i], q, t, labels)
            = BackupAnswer(orig, pairs[i], q, t, labels)
      BY <1>1, <1>3, <1>5, <2>1, AnswerStays
    <3> QED
      BY <1>3, <3>1, Zenon
  <2>2. ParsedRRs(file, pairs[i].root, RootOrigin)
          = ParsedRRs(orig, pairs[i].root, RootOrigin)
    <3>1. \A p \in TreeFiles(orig, pairs[i].root) : D[p] = {}
      BY <1>1, <1>2, <1>3, <1>5, RootStays DEF RootWhole
    <3>2. pairs[i].root \in Paths
      <4>1. pairs[i] \in PairOfFiles
        BY <1>1
      <4> QED
        BY <1>5, <4>1 DEF PairOfFiles
    <3> QED
      BY <1>1, <1>3, <3>1, <3>2, SoundLines, RootParsed
  <2> QED
    BY <1>5, <2>1, <2>2, Zenon DEF RootRecords
<1> QED
  BY <1>4, <1>5, Zenon

(* Whenever a server loads the files, during a run or after a failure or a *)
(* crash between two files, it answers as before, for any tame files and   *)
(* either value of rewrite_rdata_labels, but where the rewriting changes a *)
(* deleted record.                                                         *)
THEOREM PruneAnswersKept == Spec => []AnswersKept
  BY PruneInvariance, InvAnswersKept, PTL
=============================================================================
