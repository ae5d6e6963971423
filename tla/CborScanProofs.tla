---------------------------- MODULE CborScanProofs ----------------------------
(***************************************************************************)
(* Proofs about the strict pass over untrusted CBOR, for data of any       *)
(* headers and any length and for any limit of nesting.  The invariant is  *)
(* that what is left of the data fits the calls that are not done exactly  *)
(* if the data is one conformant item.                                     *)
(***************************************************************************)
EXTENDS CborScan, SequenceTheorems, WellFoundedInduction, TLAPS

USE ScanAssumption

-----------------------------------------------------------------------------
(* Induction, for sets of natural numbers *)

\* What has 0 and with each number the next has them all.
LEMMA NaturalsFrom0 ==
    ASSUME NEW S \in SUBSET Nat, 0 \in S, \A i \in S : i + 1 \in S
    PROVE  S = Nat
<1> SUFFICES ASSUME S # Nat PROVE FALSE
  OBVIOUS
<1>1. IsWellFoundedOn(OpToRel(<, Nat), Nat)
  BY NatLessThanWellFounded
<1>2. PICK i \in Nat \ S : \A j \in Nat \ S : ~(<<j, i>> \in OpToRel(<, Nat))
  BY <1>1, WFMin
<1>3. \A j \in Nat \ S : ~(j < i)
  BY <1>2 DEF OpToRel
<1>4. i # 0 /\ i - 1 \in Nat /\ i - 1 \in S
  BY <1>3
<1> QED
  BY <1>4

-----------------------------------------------------------------------------
(* Where items end, level by level *)

\* Where items end, given where those inside them end, is for no level and for
\* each level after it.
LEMMA EndsByLevel ==
    ASSUME NEW d
    PROVE  /\ Ends(d)[0] = [i \in Positions(d) |-> {}]
           /\ \A l \in 1..(MaxDepth + 1) : Ends(d)[l] = Around(d, Ends(d)[l - 1])
<1> DEFINE Z == [i \in Positions(d) |-> {}]
           Ups(f, n) == [l \in 0..n |-> IF l = 0 THEN Z ELSE Around(d, f[l - 1])]
           S == {n \in Nat : \E f : f = Ups(f, n)}
<1> HIDE DEF Z
<1>1. 0 \in S
  <2> DEFINE g == [l \in 0..0 |-> Z]
  <2>1. g = Ups(g, 0)
    OBVIOUS
  <2> QED
    BY <2>1
<1>2. ASSUME NEW n \in S PROVE n + 1 \in S
  <2>1. PICK f : f = Ups(f, n)
    OBVIOUS
  <2> DEFINE g == [l \in 0..(n + 1) |-> IF l = n + 1 THEN Around(d, f[n]) ELSE f[l]]
  <2>2. ASSUME NEW l \in 0..(n + 1) PROVE g[l] = Ups(g, n + 1)[l]
    <3>1. CASE l = 0
      BY <2>1, <3>1
    <3>2. CASE l \in 1..n
      <4>1. f[l] = Around(d, f[l - 1])
        BY <2>1, <3>2
      <4>2. g[l] = f[l] /\ g[l - 1] = f[l - 1] /\ l # 0
        BY <3>2
      <4> QED
        BY <4>1, <4>2
    <3>3. CASE l = n + 1
      BY <3>3
    <3> QED
      BY <3>1, <3>2, <3>3
  <2>3. g = Ups(g, n + 1)
    BY <2>2
  <2> HIDE DEF g
  <2>4. \E h : h = Ups(h, n + 1)
    BY <2>3
  <2> QED
    BY <2>4
<1>3. MaxDepth + 1 \in S
  <2> HIDE DEF S
  <2>1. S \in SUBSET Nat
    BY DEF S
  <2> QED
    BY <1>1, <1>2, <2>1, NaturalsFrom0
<1>4. Ends(d) = Ups(Ends(d), MaxDepth + 1)
  <2>1. Ends(d) = CHOOSE f : f = Ups(f, MaxDepth + 1)
    BY DEF Ends, Z
  <2> QED
    BY <1>3, <2>1
<1>5. Ends(d)[0] = Z
  BY <1>4
<1>6. ASSUME NEW l \in 1..(MaxDepth + 1) PROVE Ends(d)[l] = Around(d, Ends(d)[l - 1])
  BY <1>4
<1> QED
  BY <1>5, <1>6 DEF Z

\* An item ends within the data or at its end, and after its beginning.
Ascends(d, L) == /\ L \in [Positions(d) -> SUBSET Positions(d)]
                 /\ \A i \in Positions(d) : \A j \in L[i] : i < j

LEMMA EndsAscend ==
    ASSUME NEW d \in Seq(Headers), NEW l \in 0..(MaxDepth + 1)
    PROVE  Ascends(d, Ends(d)[l])
<1>1. CASE l = 0
  BY <1>1, EndsByLevel DEF Ascends
<1>2. CASE l # 0
  <2>1. l \in 1..(MaxDepth + 1)
    BY <1>2
  <2> DEFINE L == Ends(d)[l - 1]
  <2>2. Ends(d)[l] = Around(d, L)
    BY <2>1, EndsByLevel
  <2> HIDE DEF L
  <2>3. Ascends(d, Around(d, L))
    BY DEF Around, Ascends, Positions
  <2> QED
    BY <2>2, <2>3
<1> QED
  BY <1>1, <1>2
-----------------------------------------------------------------------------
(* Items in a row *)

\* Where parts do not go back, the last ends no earlier than the first begins.
LEMMA CutAscends ==
    ASSUME NEW d \in Seq(Headers), NEW i, NEW j, NEW n \in Nat, NEW c \in Cuts(d, i, j, n),
           \A k \in 1..n : c[k - 1] <= c[k]
    PROVE  i <= j
<1> DEFINE S == {m \in Nat : m <= n => i <= c[m]}
<1>1. /\ c \in [0..n -> Positions(d)] /\ c[0] = i /\ c[n] = j
      /\ Positions(d) \subseteq Nat
  BY DEF Cuts, Positions
<1>2. 0 \in S
  BY <1>1
<1>3. ASSUME NEW m \in S PROVE m + 1 \in S
  <2>1. SUFFICES ASSUME m + 1 <= n PROVE i <= c[m + 1]
    OBVIOUS
  <2>2. m + 1 \in 1..n /\ m \in 0..n /\ m + 1 \in 0..n /\ (m + 1) - 1 = m /\ 0 \in 0..n
    BY <2>1
  <2>3. c[m] <= c[m + 1] /\ i <= c[m]
    BY <2>1, <2>2
  <2> QED
    BY <1>1, <2>2, <2>3
<1>4. n \in S
  <2> HIDE DEF S
  <2>1. S \in SUBSET Nat
    BY DEF S
  <2> QED
    BY <1>2, <1>3, <2>1, NaturalsFrom0
<1> QED
  BY <1>1, <1>4

LEMMA ItemsAscend ==
    ASSUME NEW d \in Seq(Headers), NEW i, NEW j, NEW n \in Nat, NEW L, Ascends(d, L),
           AreItems(d, i, j, n, L)
    PROVE  i <= j
<1>1. PICK c \in Cuts(d, i, j, n) : \A k \in 1..n : c[k] \in L[c[k - 1]]
  BY DEF AreItems
<1>2. ASSUME NEW k \in 1..n PROVE c[k - 1] <= c[k]
  BY <1>1 DEF Cuts, Ascends, Positions
<1> QED
  BY <1>2, CutAscends

LEMMA EntriesAscend ==
    ASSUME NEW d \in Seq(Headers), NEW i, NEW j, NEW n \in Nat, NEW L, Ascends(d, L),
           AreEntries(d, i, j, n, L)
    PROVE  i <= j
<1>1. PICK c \in Cuts(d, i, j, n) : \A k \in 1..n : Keyed(d, c[k - 1]) /\ c[k] \in L[c[k - 1] + 1]
  BY DEF AreEntries
<1>2. ASSUME NEW k \in 1..n PROVE c[k - 1] <= c[k]
  <2>1. c[k - 1] \in Positions(d) /\ c[k] \in Positions(d)
    BY DEF Cuts
  <2>2. c[k - 1] + 1 \in Positions(d)
    BY <1>1, <2>1 DEF Keyed, Positions
  <2> QED
    BY <1>1, <2>1, <2>2 DEF Ascends, Positions
<1> QED
  BY <1>2, CutAscends

\* No items take up nothing.
LEMMA NoItems ==
    ASSUME NEW d \in Seq(Headers), NEW i \in Positions(d), NEW j, NEW L
    PROVE  AreItems(d, i, j, 0, L) <=> i = j
<1>1. ASSUME i = j PROVE AreItems(d, i, j, 0, L)
  <2> DEFINE c == [k \in 0..0 |-> i]
  <2>1. c \in Cuts(d, i, j, 0)
    BY <1>1 DEF Cuts
  <2> HIDE DEF c
  <2> QED
    BY <2>1 DEF AreItems
<1> QED
  BY <1>1 DEF AreItems, Cuts

\* Of n + 1 parts, those after the first.
Later(c, n) == [k \in 0..n |-> c[k + 1]]

LEMMA CutOfLater ==
    ASSUME NEW d \in Seq(Headers), NEW i, NEW j, NEW n \in Nat, NEW c \in Cuts(d, i, j, n + 1)
    PROVE  /\ Later(c, n) \in Cuts(d, c[1], j, n)
           /\ c[0] = i
           /\ \A k \in 1..n : /\ k + 1 \in 1..(n + 1)
                             /\ Later(c, n)[k] = c[k + 1] /\ Later(c, n)[k - 1] = c[(k + 1) - 1]
  BY DEF Later, Cuts

\* n parts with one more before them.
Behind(i, c, n) == [k \in 0..(n + 1) |-> IF k = 0 THEN i ELSE c[k - 1]]

LEMMA CutBehind ==
    ASSUME NEW d \in Seq(Headers), NEW i \in Positions(d), NEW p, NEW j, NEW n \in Nat,
           NEW c \in Cuts(d, p, j, n)
    PROVE  /\ Behind(i, c, n) \in Cuts(d, i, j, n + 1)
           /\ Behind(i, c, n)[0] = i /\ Behind(i, c, n)[1] = p
           /\ \A k \in 1..(n + 1) : k # 1 => /\ k - 1 \in 1..n
                                            /\ Behind(i, c, n)[k] = c[k - 1]
                                            /\ Behind(i, c, n)[k - 1] = c[(k - 1) - 1]
<1>1. c \in [0..n -> Positions(d)] /\ c[0] = p /\ c[n] = j
  BY DEF Cuts
<1>2. Behind(i, c, n) \in [0..(n + 1) -> Positions(d)]
  BY <1>1 DEF Behind
<1>3. Behind(i, c, n)[n + 1] = j
  BY <1>1 DEF Behind
<1>4. Behind(i, c, n)[0] = i /\ Behind(i, c, n)[1] = p
  BY <1>1 DEF Behind
<1>5. ASSUME NEW k \in 1..(n + 1), k # 1
      PROVE  /\ k - 1 \in 1..n
             /\ Behind(i, c, n)[k] = c[k - 1] /\ Behind(i, c, n)[k - 1] = c[(k - 1) - 1]
  BY <1>5 DEF Behind
<1> QED
  BY <1>2, <1>3, <1>4, <1>5 DEF Cuts

\* The first of n + 1 items is one, and n come after it.
LEMMA NextItem ==
    ASSUME NEW d \in Seq(Headers), NEW i \in Positions(d), NEW j, NEW n \in Nat, NEW L
    PROVE  AreItems(d, i, j, n + 1, L) <=> \E p \in L[i] : AreItems(d, p, j, n, L)
<1>1. ASSUME AreItems(d, i, j, n + 1, L) PROVE \E p \in L[i] : AreItems(d, p, j, n, L)
  <2>1. PICK c \in Cuts(d, i, j, n + 1) : \A k \in 1..(n + 1) : c[k] \in L[c[k - 1]]
    BY <1>1 DEF AreItems
  <2>2. \A k \in 1..n : Later(c, n)[k] \in L[Later(c, n)[k - 1]]
    BY <2>1, CutOfLater
  <2>3. c[1] \in L[i]
    BY <2>1, CutOfLater
  <2> QED
    BY <2>2, <2>3, CutOfLater DEF AreItems
<1>2. ASSUME NEW p \in L[i], AreItems(d, p, j, n, L) PROVE AreItems(d, i, j, n + 1, L)
  <2>1. PICK c \in Cuts(d, p, j, n) : \A k \in 1..n : c[k] \in L[c[k - 1]]
    BY <1>2 DEF AreItems
  <2> DEFINE e == Behind(i, c, n)
  <2>2. ASSUME NEW k \in 1..(n + 1) PROVE e[k] \in L[e[k - 1]]
    BY <2>1, CutBehind
  <2>3. e \in Cuts(d, i, j, n + 1)
    BY CutBehind
  <2> HIDE DEF e
  <2> QED
    BY <2>2, <2>3 DEF AreItems
<1> QED
  BY <1>1, <1>2

-----------------------------------------------------------------------------
(* Entries in a row *)

\* A key whose value none of those seen has.
NewKey(d, i, seen) == Keyed(d, i) /\ \A h \in seen : h.val # d[i].val

\* n entries in a row of a map that has had the keys seen.
NewEntries(d, i, j, n, L, seen) ==
    \E c \in Cuts(d, i, j, n) :
        /\ \A k \in 1..n : NewKey(d, c[k - 1], seen) /\ c[k] \in L[c[k - 1] + 1]
        /\ \A k, m \in 1..n : d[c[k - 1]].val = d[c[m - 1]].val => k = m

LEMMA EntriesAreNew ==
    ASSUME NEW d, NEW i, NEW j, NEW n, NEW L
    PROVE  AreEntries(d, i, j, n, L) <=> NewEntries(d, i, j, n, L, {})
  BY DEF AreEntries, NewEntries, NewKey

LEMMA NoEntries ==
    ASSUME NEW d \in Seq(Headers), NEW i \in Positions(d), NEW j, NEW L, NEW seen
    PROVE  NewEntries(d, i, j, 0, L, seen) <=> i = j
<1>1. ASSUME i = j PROVE NewEntries(d, i, j, 0, L, seen)
  <2> DEFINE c == [k \in 0..0 |-> i]
  <2>1. c \in Cuts(d, i, j, 0)
    BY <1>1 DEF Cuts
  <2> HIDE DEF c
  <2> QED
    BY <2>1 DEF NewEntries
<1> QED
  BY <1>1 DEF NewEntries, Cuts

\* The first of n + 1 entries is a new key and an item, and n come after it whose
\* keys are new beside that one too.
LEMMA NextEntry ==
    ASSUME NEW d \in Seq(Headers), NEW i \in Positions(d), NEW j, NEW n \in Nat, NEW L,
           NEW seen
    PROVE  NewEntries(d, i, j, n + 1, L, seen) <=>
               /\ NewKey(d, i, seen)
               /\ \E p \in L[i + 1] : NewEntries(d, p, j, n, L, seen \cup {d[i]})
<1>1. ASSUME NewEntries(d, i, j, n + 1, L, seen)
      PROVE  /\ NewKey(d, i, seen)
             /\ \E p \in L[i + 1] : NewEntries(d, p, j, n, L, seen \cup {d[i]})
  <2>1. PICK c \in Cuts(d, i, j, n + 1) :
            /\ \A k \in 1..(n + 1) : NewKey(d, c[k - 1], seen) /\ c[k] \in L[c[k - 1] + 1]
            /\ \A k, m \in 1..(n + 1) : d[c[k - 1]].val = d[c[m - 1]].val => k = m
    BY <1>1 DEF NewEntries
  <2> DEFINE e == Later(c, n)
             V(k) == d[c[k - 1]].val
  <2>2. \A k, m \in 1..(n + 1) : V(k) = V(m) => k = m
    BY <2>1
  <2>3. /\ e \in Cuts(d, c[1], j, n)
        /\ \A k \in 1..n : e[k] = c[k + 1] /\ e[k - 1] = c[(k + 1) - 1] /\ k + 1 \in 1..(n + 1)
    BY CutOfLater
  <2>4. NewKey(d, i, seen) /\ c[1] \in L[i + 1] /\ V(1) = d[i].val
    BY <2>1, CutOfLater
  <2>5. ASSUME NEW k \in 1..n PROVE d[e[k - 1]].val = V(k + 1)
    BY <2>3
  <2> HIDE DEF e, V
  <2>6. ASSUME NEW k \in 1..n PROVE NewKey(d, e[k - 1], seen) /\ e[k] \in L[e[k - 1] + 1]
    BY <2>1, <2>3
  <2>7. ASSUME NEW k \in 1..n PROVE NewKey(d, e[k - 1], seen \cup {d[i]})
    <3>1. V(k + 1) # V(1)
      BY <2>2
    <3> QED
      BY <2>4, <2>5, <2>6, <3>1 DEF NewKey
  <2>8. ASSUME NEW k \in 1..n, NEW m \in 1..n, d[e[k - 1]].val = d[e[m - 1]].val PROVE k = m
    <3>1. V(k + 1) = V(m + 1) /\ k + 1 \in 1..(n + 1) /\ m + 1 \in 1..(n + 1)
      BY <2>5, <2>8
    <3> QED
      BY <2>2, <3>1
  <2>9. NewEntries(d, c[1], j, n, L, seen \cup {d[i]})
    BY <2>3, <2>6, <2>7, <2>8 DEF NewEntries
  <2> QED
    BY <2>4, <2>9
<1>2. ASSUME NewKey(d, i, seen), NEW p \in L[i + 1], NewEntries(d, p, j, n, L, seen \cup {d[i]})
      PROVE  NewEntries(d, i, j, n + 1, L, seen)
  <2>1. PICK c \in Cuts(d, p, j, n) :
            /\ \A k \in 1..n : NewKey(d, c[k - 1], seen \cup {d[i]}) /\ c[k] \in L[c[k - 1] + 1]
            /\ \A k, m \in 1..n : d[c[k - 1]].val = d[c[m - 1]].val => k = m
    BY <1>2 DEF NewEntries
  <2> DEFINE e == Behind(i, c, n)
             V(k) == d[c[k - 1]].val
  <2>2. \A k, m \in 1..n : V(k) = V(m) => k = m
    BY <2>1
  <2>3. /\ e \in Cuts(d, i, j, n + 1) /\ e[0] = i /\ e[1] = p
        /\ \A k \in 1..(n + 1) :
               k # 1 => e[k] = c[k - 1] /\ e[k - 1] = c[(k - 1) - 1] /\ k - 1 \in 1..n
    BY CutBehind
  <2>4. ASSUME NEW k \in 1..(n + 1), k # 1 PROVE d[e[k - 1]].val = V(k - 1)
    BY <2>3, <2>4
  <2> HIDE DEF e, V
  <2>5. ASSUME NEW k \in 1..(n + 1), k # 1
        PROVE  NewKey(d, e[k - 1], seen \cup {d[i]}) /\ e[k] \in L[e[k - 1] + 1]
    BY <2>1, <2>3, <2>5
  <2>6. ASSUME NEW k \in 1..(n + 1) PROVE NewKey(d, e[k - 1], seen) /\ e[k] \in L[e[k - 1] + 1]
    <3>1. CASE k = 1
      BY <1>2, <2>3, <3>1
    <3>2. CASE k # 1
      BY <2>5, <3>2 DEF NewKey
    <3> QED
      BY <3>1, <3>2
  <2>7. ASSUME NEW k \in 1..(n + 1), k # 1 PROVE d[e[k - 1]].val # d[e[1 - 1]].val
    <3>1. NewKey(d, e[k - 1], seen \cup {d[i]})
      BY <2>5, <2>7
    <3>2. d[i].val # d[e[k - 1]].val
      BY <3>1 DEF NewKey
    <3>3. e[1 - 1] = i
      BY <2>3
    <3> QED
      BY <3>2, <3>3
  <2>8. ASSUME NEW k \in 1..(n + 1), NEW m \in 1..(n + 1), d[e[k - 1]].val = d[e[m - 1]].val
        PROVE  k = m
    <3>1. CASE k # 1 /\ m # 1
      <4>1. V(k - 1) = V(m - 1) /\ k - 1 \in 1..n /\ m - 1 \in 1..n
        BY <2>4, <2>8, <3>1
      <4>2. k - 1 = m - 1
        BY <2>2, <4>1
      <4> QED
        BY <4>2
    <3>2. CASE k = 1 \/ m = 1
      BY <2>7, <2>8, <3>2
    <3> QED
      BY <3>1, <3>2
  <2> QED
    BY <2>3, <2>6, <2>8 DEF NewEntries
<1> QED
  BY <1>1, <1>2

-----------------------------------------------------------------------------
(* What an item is, by its first header *)

LEMMA EndsPastData ==
    ASSUME NEW d \in Seq(Headers), NEW L
    PROVE  Around(d, L)[Len(d) + 1] = {}
  BY DEF Around, Positions

\* The end of an item with a tag is that of the item the tag is on.
LEMMA EndsOfTag ==
    ASSUME NEW d \in Seq(Headers), NEW i \in 1..Len(d), d[i].mt = "tag", NEW L
    PROVE  Around(d, L)[i] = Around(d, L)[i + 1]
<1> DEFINE Is(p, j) == \E t \in p..(j - 1) : /\ \A u \in p..(t - 1) : d[u].mt = "tag"
                                             /\ IsContent(d, t, j, L)
<1>1. ASSUME NEW j \in Positions(d) PROVE Is(i, j) <=> Is(i + 1, j)
  <2>1. ~IsContent(d, i, j, L)
    BY DEF IsContent
  <2>2. ASSUME Is(i, j) PROVE Is(i + 1, j)
    <3>1. PICK t \in i..(j - 1) : /\ \A u \in i..(t - 1) : d[u].mt = "tag"
                                  /\ IsContent(d, t, j, L)
      BY <2>2
    <3>2. t \in (i + 1)..(j - 1)
      BY <2>1, <3>1 DEF Positions
    <3>3. \A u \in (i + 1)..(t - 1) : u \in i..(t - 1)
      OBVIOUS
    <3> QED
      BY <3>1, <3>2, <3>3
  <2>3. ASSUME Is(i + 1, j) PROVE Is(i, j)
    <3>1. PICK t \in (i + 1)..(j - 1) : /\ \A u \in (i + 1)..(t - 1) : d[u].mt = "tag"
                                        /\ IsContent(d, t, j, L)
      BY <2>3
    <3>2. \A u \in i..(t - 1) : u = i \/ u \in (i + 1)..(t - 1)
      BY DEF Positions
    <3>3. t \in i..(j - 1)
      BY DEF Positions
    <3> QED
      BY <3>1, <3>2, <3>3
  <2> QED
    BY <2>2, <2>3
<1>2. Around(d, L)[i] = {j \in Positions(d) : Is(i, j)}
  BY DEF Around, Positions
<1>3. Around(d, L)[i + 1] = {j \in Positions(d) : Is(i + 1, j)}
  BY DEF Around, Positions
<1> HIDE DEF Is
<1> QED
  BY <1>1, <1>2, <1>3

\* Without a tag, the header says what the item is.
LEMMA EndsOfContent ==
    ASSUME NEW d \in Seq(Headers), NEW i \in 1..Len(d), d[i].mt # "tag", NEW L, Ascends(d, L)
    PROVE  Around(d, L)[i] = {j \in Positions(d) : IsContent(d, i, j, L)}
<1> DEFINE Is(j) == \E t \in i..(j - 1) : /\ \A u \in i..(t - 1) : d[u].mt = "tag"
                                          /\ IsContent(d, t, j, L)
<1>1. ASSUME NEW j \in Positions(d), Is(j) PROVE IsContent(d, i, j, L)
  BY <1>1 DEF Positions
<1>2. ASSUME NEW j \in Positions(d), IsContent(d, i, j, L) PROVE Is(j)
  <2>1. d[i] \in Headers /\ d[i].arg \in Nat
    OBVIOUS
  <2>2. i < j
    <3>1. CASE AreItems(d, i + 1, j, d[i].arg, L)
      <4>1. i + 1 <= j
        BY <2>1, <3>1, ItemsAscend
      <4> QED
        BY <4>1 DEF Positions
    <3>2. CASE AreEntries(d, i + 1, j, d[i].arg, L)
      <4>1. i + 1 <= j
        BY <2>1, <3>2, EntriesAscend
      <4> QED
        BY <4>1 DEF Positions
    <3> QED
      BY <1>2, <3>1, <3>2 DEF IsContent
  <2>3. i \in i..(j - 1) /\ i..(i - 1) = {}
    BY <2>2 DEF Positions
  <2> QED
    BY <1>2, <2>3
<1>3. Around(d, L)[i] = {j \in Positions(d) : Is(j)}
  BY DEF Around, Positions
<1> HIDE DEF Is
<1> QED
  BY <1>1, <1>2, <1>3
-----------------------------------------------------------------------------
(* What is left of one call *)

Frames == [of : {"array", "map"}, left : Nat, seen : SUBSET Headers]

\* The items that the call fr still has to read, from i up to j: for a map in
\* pairs, of which the item alone may be to come.
Rest(d, fr, i, j, L) ==
    \/ fr.of = "array" /\ AreItems(d, i, j, fr.left, L)
    \/ /\ fr.of = "map"
       /\ \E n \in Nat : \/ fr.left = 2 * n /\ NewEntries(d, i, j, n, L, fr.seen)
                         \/ /\ fr.left = 2 * n + 1
                            /\ \E p \in L[i] : NewEntries(d, p, j, n, L, fr.seen)

KeyIsNext(fr) == fr.of = "map" /\ fr.left % 2 = 0

\* The call once it has read the item at i.
OneLess(d, fr, i) ==
    [fr EXCEPT !.left = @ - 1, !.seen = IF KeyIsNext(fr) THEN @ \cup {d[i]} ELSE @]

\* A key is one item.
KeysAreShort(d, L) == \A i \in Positions(d) : Keyed(d, i) => \/ L[i] = {i + 1}
                                                             \/ L[i] = {} /\ L[i + 1] = {}

LEMMA Halves ==
    ASSUME NEW m \in Nat
    PROVE  /\ m % 2 = 0 => \E n \in Nat : m = 2 * n
           /\ m % 2 # 0 => \E n \in Nat : m = 2 * n + 1
           /\ \A n \in Nat : (2 * n) % 2 = 0 /\ (2 * n + 1) % 2 = 1
<1>1. m \div 2 \in Nat /\ m = 2 * (m \div 2) + (m % 2) /\ m % 2 \in 0..1
  OBVIOUS
<1>2. \A n \in Nat : (2 * n) % 2 = 0 /\ (2 * n + 1) % 2 = 1
  OBVIOUS
<1> QED
  BY <1>1, <1>2

\* A call that has read all its items ends where it is.
LEMMA RestOfNone ==
    ASSUME NEW d \in Seq(Headers), NEW fr \in Frames, fr.left = 0, NEW i \in Positions(d), NEW j, NEW L
    PROVE  Rest(d, fr, i, j, L) <=> i = j
<1>1. \A n \in Nat : (fr.left = 2 * n <=> n = 0) /\ fr.left # 2 * n + 1
  OBVIOUS
<1>2. fr.of \in {"array", "map"}
  BY DEF Frames
<1>3. AreItems(d, i, j, fr.left, L) <=> i = j
  BY NoItems
<1>4. NewEntries(d, i, j, 0, L, fr.seen) <=> i = j
  BY NoEntries
<1> QED
  BY <1>1, <1>2, <1>3, <1>4 DEF Rest

\* A call with items to read reads one, that a key has to be new, and then the
\* rest of them.
LEMMA RestOfMore ==
    ASSUME NEW d \in Seq(Headers), NEW fr \in Frames, fr.left > 0, NEW i \in Positions(d), NEW j,
           NEW L, Ascends(d, L), KeysAreShort(d, L)
    PROVE  Rest(d, fr, i, j, L) <=> /\ KeyIsNext(fr) => NewKey(d, i, fr.seen)
                                    /\ \E p \in L[i] : Rest(d, OneLess(d, fr, i), p, j, L)
<1> DEFINE g == OneLess(d, fr, i)
<1>1. /\ fr.of \in {"array", "map"} /\ fr.left \in Nat /\ g.of = fr.of /\ g.left = fr.left - 1
      /\ g.seen = IF KeyIsNext(fr) THEN fr.seen \cup {d[i]} ELSE fr.seen
  BY DEF Frames, OneLess
<1> HIDE DEF g
<1>2. CASE fr.of = "array"
  <2>1. AreItems(d, i, j, fr.left, L) <=> \E p \in L[i] : AreItems(d, p, j, g.left, L)
    <3>1. g.left \in Nat /\ fr.left = g.left + 1
      BY <1>1
    <3> QED
      BY <3>1, NextItem
  <2> QED
    BY <1>1, <1>2, <2>1 DEF Rest, KeyIsNext, g
<1>3. CASE fr.of = "map" /\ KeyIsNext(fr)
  <2>1. PICK n \in Nat : fr.left = 2 * (n + 1)
    <3>1. PICK m \in Nat : fr.left = 2 * m
      BY <1>1, <1>3, Halves DEF KeyIsNext
    <3>2. m - 1 \in Nat /\ m = (m - 1) + 1
      BY <3>1
    <3> QED
      BY <3>1, <3>2
  <2>2. Rest(d, fr, i, j, L) <=> NewEntries(d, i, j, n + 1, L, fr.seen)
    <3>1. \A m \in Nat : (fr.left = 2 * m <=> m = n + 1) /\ fr.left # 2 * m + 1
      BY <2>1
    <3> QED
      BY <1>3, <3>1 DEF Rest
  <2>3. ASSUME NEW p PROVE Rest(d, g, p, j, L) <=> \E q \in L[p] : NewEntries(d, q, j, n, L, g.seen)
    <3>1. \A m \in Nat : (g.left = 2 * m + 1 <=> m = n) /\ g.left # 2 * m
      BY <1>1, <2>1
    <3> QED
      BY <1>1, <1>3, <3>1 DEF Rest
  <2>4. NewEntries(d, i, j, n + 1, L, fr.seen) <=>
            /\ NewKey(d, i, fr.seen)
            /\ \E p \in L[i + 1] : NewEntries(d, p, j, n, L, g.seen)
    <3>1. g.seen = fr.seen \cup {d[i]}
      BY <1>1, <1>3
    <3>2. NewEntries(d, i, j, n + 1, L, fr.seen) <=>
              /\ NewKey(d, i, fr.seen)
              /\ \E p \in L[i + 1] : NewEntries(d, p, j, n, L, fr.seen \cup {d[i]})
      BY NextEntry
    <3> QED
      BY <3>1, <3>2
  <2>5. ASSUME NewKey(d, i, fr.seen)
        PROVE  (\E p \in L[i] : Rest(d, g, p, j, L)) <=>
                   \E p \in L[i + 1] : NewEntries(d, p, j, n, L, g.seen)
    <3>1. Keyed(d, i) /\ i + 1 \in Positions(d)
      BY <2>5 DEF NewKey, Keyed, Positions
    <3>2. CASE L[i] = {i + 1}
      BY <2>3, <3>2
    <3>3. CASE L[i] = {} /\ L[i + 1] = {}
      BY <3>3
    <3> QED
      BY <3>1, <3>2, <3>3 DEF KeysAreShort
  <2> QED
    BY <1>3, <2>2, <2>4, <2>5 DEF g
<1>4. CASE fr.of = "map" /\ ~KeyIsNext(fr)
  <2>1. PICK n \in Nat : fr.left = 2 * n + 1
    BY <1>1, <1>4, Halves DEF KeyIsNext
  <2>2. Rest(d, fr, i, j, L) <=> \E p \in L[i] : NewEntries(d, p, j, n, L, fr.seen)
    <3>1. \A m \in Nat : (fr.left = 2 * m + 1 <=> m = n) /\ fr.left # 2 * m
      BY <2>1
    <3> QED
      BY <1>4, <3>1 DEF Rest
  <2>3. ASSUME NEW p PROVE Rest(d, g, p, j, L) <=> NewEntries(d, p, j, n, L, fr.seen)
    <3>1. \A m \in Nat : (g.left = 2 * m <=> m = n) /\ g.left # 2 * m + 1
      BY <1>1, <2>1
    <3> QED
      BY <1>1, <1>4, <3>1 DEF Rest
  <2> QED
    BY <1>4, <2>2, <2>3 DEF g
<1> QED
  BY <1>1, <1>2, <1>3, <1>4
-----------------------------------------------------------------------------
(* What the levels are for so many calls *)

\* Where the items end that the n-th call reads.
Level(d, n) == Ends(d)[MaxDepth + 2 - n]

LEMMA LevelsAscend ==
    ASSUME NEW d \in Seq(Headers), NEW n \in 1..(MaxDepth + 2)
    PROVE  Ascends(d, Level(d, n))
<1>1. MaxDepth + 2 - n \in 0..(MaxDepth + 1)
  OBVIOUS
<1> QED
  BY <1>1, EndsAscend DEF Level

\* One call too deep has no items, and any other those around the next one's.
LEMMA LevelsNest ==
    ASSUME NEW d \in Seq(Headers), NEW n \in 1..(MaxDepth + 2)
    PROVE  /\ n = MaxDepth + 2 => \A i \in Positions(d) : Level(d, n)[i] = {}
           /\ n # MaxDepth + 2 => Level(d, n) = Around(d, Level(d, n + 1))
<1>1. ASSUME n = MaxDepth + 2, NEW i \in Positions(d) PROVE Level(d, n)[i] = {}
  <2>1. MaxDepth + 2 - n = 0
    BY <1>1
  <2> QED
    BY <2>1, EndsByLevel DEF Level
<1>2. ASSUME n # MaxDepth + 2 PROVE Level(d, n) = Around(d, Level(d, n + 1))
  <2> DEFINE l == MaxDepth + 2 - n
  <2>1. l \in 1..(MaxDepth + 1) /\ MaxDepth + 2 - (n + 1) = l - 1
    BY <1>2
  <2>2. Level(d, n) = Ends(d)[l] /\ Level(d, n + 1) = Ends(d)[l - 1]
    BY <2>1 DEF Level
  <2> HIDE DEF l
  <2>3. \A k \in 1..(MaxDepth + 1) : Ends(d)[k] = Around(d, Ends(d)[k - 1])
    BY EndsByLevel
  <2>4. Ends(d)[l] = Around(d, Ends(d)[l - 1])
    BY <2>1, <2>3
  <2> QED
    BY <2>2, <2>4
<1> QED
  BY <1>1, <1>2

\* The items that the n-th call may find at i.
LEMMA ItemsAt ==
    ASSUME NEW d \in Seq(Headers), NEW n \in 1..(MaxDepth + 1), NEW i \in 1..Len(d)
    PROVE  LET L == Level(d, n)  M == Level(d, n + 1) IN
           /\ d[i].mt = "tag" => L[i] = L[i + 1]
           /\ d[i].mt = "scalar" => L[i] = {i + 1}
           /\ d[i].mt \in {"cut", "indefinite"} => L[i] = {}
           /\ d[i].mt = "array" => L[i] = {j \in Positions(d) : AreItems(d, i + 1, j, d[i].arg, M)}
           /\ d[i].mt = "map" => L[i] = {j \in Positions(d) : AreEntries(d, i + 1, j, d[i].arg, M)}
<1> DEFINE L == Level(d, n)
           M == Level(d, n + 1)
<1>1. L = Around(d, M) /\ Ascends(d, M)
  BY LevelsNest, LevelsAscend
<1> HIDE DEF L, M
<1>2. d[i].mt = "tag" => L[i] = L[i + 1]
  BY <1>1, EndsOfTag
<1>3. d[i].mt # "tag" => L[i] = {j \in Positions(d) : IsContent(d, i, j, M)}
  BY <1>1, EndsOfContent
<1>4. d[i].mt = "scalar" => L[i] = {i + 1}
  BY <1>3 DEF IsContent, Positions
<1>5. d[i].mt \in {"cut", "indefinite"} => L[i] = {}
  BY <1>3 DEF IsContent
<1>6. d[i].mt = "array" => L[i] = {j \in Positions(d) : AreItems(d, i + 1, j, d[i].arg, M)}
  BY <1>3 DEF IsContent
<1>7. d[i].mt = "map" => L[i] = {j \in Positions(d) : AreEntries(d, i + 1, j, d[i].arg, M)}
  BY <1>3 DEF IsContent
<1> QED
  BY <1>2, <1>4, <1>5, <1>6, <1>7 DEF L, M

LEMMA NothingPastData ==
    ASSUME NEW d \in Seq(Headers), NEW n \in 1..(MaxDepth + 2)
    PROVE  Level(d, n)[Len(d) + 1] = {}
<1>1. CASE n = MaxDepth + 2
  BY <1>1, LevelsNest DEF Positions
<1>2. CASE n # MaxDepth + 2
  BY <1>2, LevelsNest, EndsPastData
<1> QED
  BY <1>1, <1>2

LEMMA KeysAreShortAt ==
    ASSUME NEW d \in Seq(Headers), NEW n \in 1..(MaxDepth + 2)
    PROVE  KeysAreShort(d, Level(d, n))
<1> SUFFICES ASSUME NEW i \in Positions(d), Keyed(d, i)
             PROVE  \/ Level(d, n)[i] = {i + 1}
                    \/ Level(d, n)[i] = {} /\ Level(d, n)[i + 1] = {}
  BY DEF KeysAreShort
<1>1. i \in 1..Len(d) /\ i + 1 \in Positions(d) /\ d[i].mt = "scalar"
  BY DEF Keyed, Positions
<1>2. CASE n = MaxDepth + 2
  BY <1>1, <1>2, LevelsNest
<1>3. CASE n # MaxDepth + 2
  BY <1>1, <1>3, ItemsAt
<1> QED
  BY <1>2, <1>3

\* Where the pass stops, nothing that the call could read is an item.
LEMMA NothingToRead ==
    ASSUME NEW d \in Seq(Headers), NEW n \in 1..(MaxDepth + 2), NEW i \in Positions(d), NEW j,
           NEW fr \in Frames, fr.left > 0,
           \/ n = MaxDepth + 2 \/ i > Len(d) \/ d[i].mt = "indefinite"
           \/ KeyIsNext(fr) /\ ~NewKey(d, i, fr.seen)
    PROVE  ~Rest(d, fr, i, j, Level(d, n))
<1>1. Rest(d, fr, i, j, Level(d, n)) => /\ KeyIsNext(fr) => NewKey(d, i, fr.seen)
                                        /\ Level(d, n)[i] # {}
  BY RestOfMore, LevelsAscend, KeysAreShortAt
<1>2. CASE n = MaxDepth + 2
  BY <1>1, <1>2, LevelsNest
<1>3. CASE i > Len(d)
  <2>1. i = Len(d) + 1
    BY <1>3 DEF Positions
  <2> QED
    BY <1>1, <2>1, NothingPastData
<1>4. CASE n # MaxDepth + 2 /\ i <= Len(d) /\ d[i].mt = "indefinite"
  <2>1. n \in 1..(MaxDepth + 1) /\ i \in 1..Len(d)
    BY <1>4 DEF Positions
  <2> QED
    BY <1>1, <1>4, <2>1, ItemsAt
<1> QED
  BY <1>1, <1>2, <1>3, <1>4 DEF Positions

-----------------------------------------------------------------------------
(* What is left of all calls *)

\* The rest of the data, from b on, is what the calls fs[1] to fs[n] still have
\* to read, the last of them first.
Fits(d, fs, n, b) ==
    \E e \in [0..n -> Positions(d)] :
        /\ e[0] = Len(d) + 1 /\ e[n] = b
        /\ \A f \in 1..n : Rest(d, fs[f], e[f], e[f - 1], Level(d, f))

LEMMA FitsNone ==
    ASSUME NEW d \in Seq(Headers), NEW fs, NEW b
    PROVE  Fits(d, fs, 0, b) <=> b = Len(d) + 1
<1>1. ASSUME b = Len(d) + 1 PROVE Fits(d, fs, 0, b)
  <2> DEFINE e == [f \in 0..0 |-> b]
  <2>1. e \in [0..0 -> Positions(d)] /\ e[0] = b
    BY <1>1 DEF Positions
  <2> HIDE DEF e
  <2> QED
    BY <1>1, <2>1 DEF Fits
<1> QED
  BY <1>1 DEF Fits

\* The last of n + 1 calls ends somewhere, and what is left from there on is the others'.
LEMMA FitsLast ==
    ASSUME NEW d \in Seq(Headers), NEW fs, NEW n \in Nat, NEW b
    PROVE  Fits(d, fs, n + 1, b) <=>
               /\ b \in Positions(d)
               /\ \E q \in Positions(d) : /\ Rest(d, fs[n + 1], b, q, Level(d, n + 1))
                                          /\ Fits(d, fs, n, q)
<1>1. ASSUME Fits(d, fs, n + 1, b)
      PROVE  /\ b \in Positions(d)
             /\ \E q \in Positions(d) : /\ Rest(d, fs[n + 1], b, q, Level(d, n + 1))
                                        /\ Fits(d, fs, n, q)
  <2>1. PICK e \in [0..(n + 1) -> Positions(d)] :
            /\ e[0] = Len(d) + 1 /\ e[n + 1] = b
            /\ \A f \in 1..(n + 1) : Rest(d, fs[f], e[f], e[f - 1], Level(d, f))
    BY <1>1 DEF Fits
  <2> DEFINE g == [f \in 0..n |-> e[f]]
  <2>2. g \in [0..n -> Positions(d)] /\ g[0] = Len(d) + 1 /\ g[n] = e[n]
    BY <2>1
  <2>3. \A f \in 1..n : g[f] = e[f] /\ g[f - 1] = e[f - 1] /\ f \in 1..(n + 1)
    OBVIOUS
  <2> HIDE DEF g
  <2>4. Fits(d, fs, n, e[n])
    BY <2>1, <2>2, <2>3 DEF Fits
  <2>5. Rest(d, fs[n + 1], b, e[n], Level(d, n + 1))
    <3>1. (n + 1) - 1 = n /\ n + 1 \in 1..(n + 1)
      OBVIOUS
    <3> QED
      BY <2>1, <3>1
  <2> QED
    BY <2>1, <2>4, <2>5
<1>2. ASSUME b \in Positions(d), NEW q \in Positions(d),
             Rest(d, fs[n + 1], b, q, Level(d, n + 1)), Fits(d, fs, n, q)
      PROVE  Fits(d, fs, n + 1, b)
  <2>1. PICK e \in [0..n -> Positions(d)] :
            /\ e[0] = Len(d) + 1 /\ e[n] = q
            /\ \A f \in 1..n : Rest(d, fs[f], e[f], e[f - 1], Level(d, f))
    BY <1>2 DEF Fits
  <2> DEFINE g == [f \in 0..(n + 1) |-> IF f = n + 1 THEN b ELSE e[f]]
  <2>2. g \in [0..(n + 1) -> Positions(d)] /\ g[0] = Len(d) + 1 /\ g[n + 1] = b /\ g[n] = q
    BY <1>2, <2>1
  <2>3. \A f \in 1..n : g[f] = e[f] /\ g[f - 1] = e[f - 1]
    OBVIOUS
  <2> HIDE DEF g
  <2>4. ASSUME NEW f \in 1..(n + 1) PROVE Rest(d, fs[f], g[f], g[f - 1], Level(d, f))
    <3>1. CASE f \in 1..n
      BY <2>1, <2>3, <3>1
    <3>2. CASE f = n + 1
      <4>1. f - 1 = n
        BY <3>2
      <4> QED
        BY <1>2, <2>2, <3>2, <4>1
    <3> QED
      BY <3>1, <3>2
  <2> QED
    BY <2>2, <2>4 DEF Fits
<1> QED
  BY <1>1, <1>2

\* It is a matter of these calls only.
LEMMA FitsSame ==
    ASSUME NEW d, NEW fs, NEW gs, NEW n, NEW b, \A f \in 1..n : fs[f] = gs[f]
    PROVE  Fits(d, fs, n, b) <=> Fits(d, gs, n, b)
  BY DEF Fits
-----------------------------------------------------------------------------
(* The pass *)

ScanTypes == /\ data \in Seq(Headers) /\ off \in 1..(Len(data) + 2)
             /\ frames \in Seq(Frames) /\ Len(frames) <= MaxDepth + 2
             /\ verdict \in {"open", "accepted", "rejected"}

\* The data is one item exactly if what is left of it fits what is left to read
\* (core.py:352-395).
LeftFits == verdict = "open" => (IsOneItem(data) <=> Fits(data, frames, Len(frames), off))

ScanInv == ScanTypes /\ LeftFits /\ ScanIsExact

LEMMA InitScanInv == Init => ScanInv
<1> SUFFICES ASSUME Init PROVE ScanInv
  OBVIOUS
<1> USE DEF Init
<1>1. data \in Seq(Headers)
  BY SeqDef
<1>2. ScanTypes
  BY <1>1 DEF ScanTypes, Frames
<1>3. LeftFits
  <2> DEFINE L == Level(data, 1)
  <2>1. frames[1].of = "array" /\ frames[1].left = 0 + 1 /\ Len(frames) = 0 + 1
    OBVIOUS
  <2>2. 1 \in Positions(data) /\ L = Ends(data)[MaxDepth + 1] /\ L[1] \subseteq Positions(data)
    <3>1. 1 \in Positions(data)
      BY <1>1 DEF Positions
    <3>2. MaxDepth + 2 - 1 = MaxDepth + 1
      OBVIOUS
    <3>3. Ascends(data, L)
      BY <1>1, LevelsAscend
    <3> QED
      BY <3>1, <3>2, <3>3 DEF Level, Ascends
  <2> HIDE DEF L
  <2>3. ASSUME NEW q PROVE Rest(data, frames[1], 1, q, L) <=> q \in L[1]
    <3>1. Rest(data, frames[1], 1, q, L) <=> AreItems(data, 1, q, 0 + 1, L)
      BY <2>1 DEF Rest
    <3>2. AreItems(data, 1, q, 0 + 1, L) <=> \E p \in L[1] : AreItems(data, p, q, 0, L)
      BY <1>1, <2>2, NextItem
    <3>3. \A p \in L[1] : AreItems(data, p, q, 0, L) <=> p = q
      BY <1>1, <2>2, NoItems
    <3> QED
      BY <3>1, <3>2, <3>3
  <2>4. Fits(data, frames, 0 + 1, 1) <=>
            \E q \in Positions(data) : Rest(data, frames[1], 1, q, L) /\ q = Len(data) + 1
    <3>1. Fits(data, frames, 0 + 1, 1) <=>
              /\ 1 \in Positions(data)
              /\ \E q \in Positions(data) : /\ Rest(data, frames[0 + 1], 1, q, Level(data, 0 + 1))
                                            /\ Fits(data, frames, 0, q)
      BY <1>1, FitsLast
    <3> QED
      BY <1>1, <2>2, <3>1, FitsNone DEF L
  <2> QED
    BY <2>1, <2>2, <2>3, <2>4 DEF LeftFits, IsOneItem
<1> QED
  BY <1>2, <1>3 DEF ScanInv, ScanIsExact

\* With a call under way that has items to read, what is left to read and where.
LEMMA Wanted ==
    ASSUME ScanInv, Wants
    PROVE  /\ data \in Seq(Headers) /\ verdict = "open"
           /\ Len(frames) \in 1..(MaxDepth + 2) /\ Len(frames) - 1 \in Nat
           /\ Top \in Frames /\ Top.left > 0
           /\ IsKey <=> KeyIsNext(Top)
           /\ IsOneItem(data) <=>
                  /\ off \in Positions(data)
                  /\ \E q \in Positions(data) :
                         /\ Rest(data, Top, off, q, Level(data, Len(frames)))
                         /\ Fits(data, frames, Len(frames) - 1, q)
<1>1. /\ data \in Seq(Headers) /\ verdict = "open"
      /\ Len(frames) \in 1..(MaxDepth + 2) /\ Len(frames) - 1 \in Nat
      /\ Top \in Frames /\ Top.left > 0
  BY DEF ScanInv, ScanTypes, Wants, Top
<1>2. IsOneItem(data) <=> Fits(data, frames, (Len(frames) - 1) + 1, off)
  BY <1>1 DEF ScanInv, LeftFits
<1>3. Top = frames[(Len(frames) - 1) + 1] /\ (Len(frames) - 1) + 1 = Len(frames)
  BY <1>1 DEF Top
<1> QED
  BY <1>1, <1>2, <1>3, FitsLast DEF IsKey, KeyIsNext
\* The data is one item exactly if from the end of the item that is read next, the
\* rest fits the calls once it is counted.
LEMMA Reads ==
    ASSUME ScanInv, Wants, Admitted
    PROVE  LET n == Len(frames)  g == Counted(data[off]) IN
           /\ n \in 1..(MaxDepth + 1) /\ off \in 1..Len(data)
           /\ IsKey => data[off].mt = "scalar"
           /\ g \in Seq(Frames) /\ Len(g) = n
           /\ IsOneItem(data) <=> \E p \in Level(data, n)[off] : Fits(data, g, n, p)
<1> DEFINE n == Len(frames)
           g == Counted(data[off])
           L == Level(data, n)
<1>1. /\ data \in Seq(Headers) /\ n \in 1..(MaxDepth + 2) /\ n - 1 \in Nat
      /\ Top \in Frames /\ Top.left > 0 /\ (IsKey <=> KeyIsNext(Top))
      /\ IsOneItem(data) <=> /\ off \in Positions(data)
                             /\ \E q \in Positions(data) : /\ Rest(data, Top, off, q, L)
                                                           /\ Fits(data, frames, n - 1, q)
  BY Wanted
<1>2. n \in 1..(MaxDepth + 1) /\ off \in 1..Len(data) /\ off \in Positions(data)
  BY <1>1 DEF Admitted, Readable, Depth, ScanInv, ScanTypes, Positions
<1>3. data[off] \in Headers
  BY <1>1, <1>2
<1>4. IsKey => data[off].mt = "scalar" /\ NewKey(data, off, Top.seen)
  BY <1>2, <1>3 DEF Admitted, KeyAllowed, NewKey, Keyed
<1>5. /\ g \in Seq(Frames) /\ Len(g) = n
      /\ g[n] = OneLess(data, Top, off) /\ \A f \in 1..(n - 1) : g[f] = frames[f]
  <2>1. frames \in Seq(Frames) /\ Top = frames[n] /\ n \in 1..Len(frames)
    BY <1>1 DEF ScanInv, ScanTypes, Top
  <2>2. OneLess(data, Top, off) \in Frames
    <3>1. /\ Top.of \in {"array", "map"} /\ Top.left - 1 \in Nat /\ Top.seen \in SUBSET Headers
          /\ Top.seen \cup {data[off]} \in SUBSET Headers
      BY <1>1, <1>3 DEF Frames
    <3> QED
      BY <1>1, <3>1 DEF OneLess, Frames
  <2>3. g = [frames EXCEPT ![n] = OneLess(data, Top, off)]
    BY <1>1, <2>1 DEF Counted, OneLess
  <2> HIDE DEF g
  <2> QED
    BY <2>1, <2>2, <2>3
<1> HIDE DEF L, g
<1>6. ASSUME NEW q \in Positions(data)
      PROVE  Rest(data, Top, off, q, L) <=> \E p \in L[off] : Rest(data, g[n], p, q, L)
  <2>1. Ascends(data, L) /\ KeysAreShort(data, L)
    BY <1>1, LevelsAscend, KeysAreShortAt DEF L
  <2> QED
    BY <1>1, <1>2, <1>4, <1>5, <2>1, RestOfMore
<1>7. ASSUME NEW p \in L[off]
      PROVE  Fits(data, g, n, p) <=>
                 \E q \in Positions(data) : /\ Rest(data, g[n], p, q, L)
                                            /\ Fits(data, frames, n - 1, q)
  <2>1. p \in Positions(data)
    BY <1>1, <1>2, LevelsAscend DEF L, Ascends
  <2>2. Fits(data, g, (n - 1) + 1, p) <=>
            \E q \in Positions(data) : /\ Rest(data, g[(n - 1) + 1], p, q, Level(data, (n - 1) + 1))
                                       /\ Fits(data, g, n - 1, q)
    BY <1>1, <2>1, FitsLast
  <2>3. (n - 1) + 1 = n
    BY <1>1
  <2>4. ASSUME NEW q PROVE Fits(data, g, n - 1, q) <=> Fits(data, frames, n - 1, q)
    BY <1>5, FitsSame
  <2> QED
    BY <2>2, <2>3, <2>4 DEF L
<1>8. IsOneItem(data) <=> \E p \in L[off] : Fits(data, g, n, p)
  BY <1>1, <1>2, <1>6, <1>7
<1> QED
  BY <1>2, <1>4, <1>5, <1>8 DEF L, g

\* A tag moves on what is left and no item (core.py:394-395).
LEMMA ScanTagStep ==
    ASSUME ScanInv, ScanTag
    PROVE  ScanInv'
<1> DEFINE n == Len(frames)
           L == Level(data, n)
<1>1. /\ Wants /\ Admitted /\ data[off].mt = "tag" /\ off' = off + 1
      /\ data' = data /\ frames' = frames /\ verdict' = verdict
  BY DEF ScanTag
<1>2. /\ data \in Seq(Headers) /\ n \in 1..(MaxDepth + 2) /\ n - 1 \in Nat /\ verdict = "open"
      /\ Top \in Frames /\ Top.left > 0 /\ (IsKey <=> KeyIsNext(Top))
      /\ IsOneItem(data) <=> /\ off \in Positions(data)
                             /\ \E q \in Positions(data) : /\ Rest(data, Top, off, q, L)
                                                           /\ Fits(data, frames, n - 1, q)
  BY <1>1, Wanted
<1>3. n \in 1..(MaxDepth + 1) /\ off \in 1..Len(data) /\ ~KeyIsNext(Top)
  BY <1>1, <1>2, Reads
<1>4. off \in Positions(data) /\ off + 1 \in Positions(data) /\ L[off] = L[off + 1]
  BY <1>1, <1>2, <1>3, ItemsAt DEF Positions
<1>5. Ascends(data, L) /\ KeysAreShort(data, L)
  BY <1>2, LevelsAscend, KeysAreShortAt
<1>6. OneLess(data, Top, off) = OneLess(data, Top, off + 1)
  BY <1>3 DEF OneLess
<1> HIDE DEF L
<1>7. ASSUME NEW q
      PROVE  Rest(data, Top, off, q, L) <=> Rest(data, Top, off + 1, q, L)
  <2>1. Rest(data, Top, off, q, L) <=> \E p \in L[off] : Rest(data, OneLess(data, Top, off), p, q, L)
    BY <1>2, <1>3, <1>4, <1>5, RestOfMore
  <2>2. Rest(data, Top, off + 1, q, L) <=>
            \E p \in L[off + 1] : Rest(data, OneLess(data, Top, off + 1), p, q, L)
    BY <1>2, <1>3, <1>4, <1>5, RestOfMore
  <2> QED
    BY <1>4, <1>6, <2>1, <2>2
<1>8. Fits(data, frames, n, off + 1) <=>
          \E q \in Positions(data) : /\ Rest(data, Top, off + 1, q, L)
                                     /\ Fits(data, frames, n - 1, q)
  <2>1. Fits(data, frames, (n - 1) + 1, off + 1) <=>
            \E q \in Positions(data) :
                /\ Rest(data, frames[(n - 1) + 1], off + 1, q, Level(data, (n - 1) + 1))
                /\ Fits(data, frames, n - 1, q)
    BY <1>2, <1>4, FitsLast
  <2>2. (n - 1) + 1 = n /\ frames[n] = Top
    BY <1>2 DEF Top
  <2> QED
    BY <2>1, <2>2 DEF L
<1>9. LeftFits'
  BY <1>1, <1>2, <1>4, <1>7, <1>8 DEF LeftFits
<1>10. ScanTypes'
  BY <1>1, <1>3 DEF ScanInv, ScanTypes
<1> QED
  BY <1>1, <1>2, <1>9, <1>10 DEF ScanInv, ScanIsExact

\* What is read is one item, and content that is cut off is none (core.py:375-378).
LEMMA ScanScalarStep ==
    ASSUME ScanInv, ScanScalar
    PROVE  ScanInv'
<1> DEFINE n == Len(frames)
           g == Counted(data[off])
           L == Level(data, n)
<1>1. /\ Wants /\ Admitted /\ data[off].mt \in {"scalar", "cut"}
      /\ off' = IF data[off].mt = "cut" THEN Len(data) + 2 ELSE off + 1
      /\ data' = data /\ frames' = g /\ verdict' = verdict
  BY DEF ScanScalar
<1>2. data \in Seq(Headers) /\ verdict = "open" /\ n - 1 \in Nat
  BY <1>1, Wanted
<1>3. /\ n \in 1..(MaxDepth + 1) /\ off \in 1..Len(data)
      /\ g \in Seq(Frames) /\ Len(g) = n
      /\ IsOneItem(data) <=> \E p \in L[off] : Fits(data, g, n, p)
  BY <1>1, Reads
<1>4. IsOneItem(data) <=> Fits(data, g, n, off')
  <2>1. CASE data[off].mt = "scalar"
    <3>1. L[off] = {off + 1} /\ off' = off + 1
      BY <1>1, <1>2, <1>3, <2>1, ItemsAt
    <3> QED
      BY <1>3, <3>1
  <2>2. CASE data[off].mt = "cut"
    <3>1. L[off] = {} /\ off' = Len(data) + 2
      BY <1>1, <1>2, <1>3, <2>2, ItemsAt
    <3>2. ~Fits(data, g, n, off')
      BY <1>2, <1>3, <3>1 DEF Fits, Positions
    <3> QED
      BY <1>3, <3>1, <3>2
  <2> QED
    BY <1>1, <2>1, <2>2
<1>5. LeftFits'
  BY <1>1, <1>2, <1>3, <1>4 DEF LeftFits
<1>6. ScanTypes'
  BY <1>1, <1>3 DEF ScanInv, ScanTypes
<1> QED
  BY <1>1, <1>2, <1>5, <1>6 DEF ScanInv, ScanIsExact
\* What is inside a container is what its call has to read (core.py:379-393).
LEMMA ScanContainerStep ==
    ASSUME ScanInv, ScanContainer
    PROVE  ScanInv'
<1> DEFINE n == Len(frames)
           g == Counted(data[off])
           h == data[off]
           call == [of |-> h.mt, seen |-> {}, left |-> IF h.mt = "map" THEN 2 * h.arg ELSE h.arg]
           L == Level(data, n)
           M == Level(data, n + 1)
<1>1. /\ Wants /\ Admitted /\ h.mt \in {"array", "map"}
      /\ off' = off + 1 /\ data' = data /\ frames' = Append(g, call) /\ verdict' = verdict
  BY DEF ScanContainer
<1>2. data \in Seq(Headers) /\ verdict = "open"
  BY <1>1, Wanted
<1>3. /\ n \in 1..(MaxDepth + 1) /\ off \in 1..Len(data)
      /\ g \in Seq(Frames) /\ Len(g) = n
      /\ IsOneItem(data) <=> \E p \in L[off] : Fits(data, g, n, p)
  BY <1>1, Reads
<1>4. h \in Headers /\ h.arg \in Nat
  BY <1>2, <1>3
<1>5. call \in Frames
  BY <1>1, <1>4 DEF Frames
<1>6. off + 1 \in Positions(data)
  BY <1>2, <1>3 DEF Positions
<1>7. ASSUME NEW q \in Positions(data) PROVE q \in L[off] <=> Rest(data, call, off + 1, q, M)
  <2>1. CASE h.mt = "array"
    <3>1. q \in L[off] <=> AreItems(data, off + 1, q, h.arg, M)
      BY <1>2, <1>3, <2>1, ItemsAt
    <3> QED
      BY <2>1, <3>1 DEF Rest
  <2>2. CASE h.mt = "map"
    <3>1. q \in L[off] <=> AreEntries(data, off + 1, q, h.arg, M)
      BY <1>2, <1>3, <2>2, ItemsAt
    <3>2. \A m \in Nat : (call.left = 2 * m <=> m = h.arg) /\ call.left # 2 * m + 1
      BY <1>4, <2>2
    <3>3. call.of = "map" /\ call.seen = {}
      BY <2>2
    <3> HIDE DEF call, h
    <3>4. Rest(data, call, off + 1, q, M) <=> NewEntries(data, off + 1, q, h.arg, M, {})
      BY <1>4, <3>2, <3>3 DEF Rest
    <3> QED
      BY <3>1, <3>4, EntriesAreNew
  <2> QED
    BY <1>1, <2>1, <2>2
<1> HIDE DEF g, call, L, M
<1>8. /\ frames' \in Seq(Frames) /\ Len(frames') = n + 1
      /\ frames'[n + 1] = call /\ \A f \in 1..n : frames'[f] = g[f]
  BY <1>1, <1>3, <1>5
<1>9. ASSUME NEW q PROVE Fits(data, frames', n, q) <=> Fits(data, g, n, q)
  BY <1>8, FitsSame
<1>10. Fits(data, frames', n + 1, off + 1) <=>
           \E q \in Positions(data) : Rest(data, call, off + 1, q, M) /\ Fits(data, g, n, q)
  <2>1. Fits(data, frames', n + 1, off + 1) <=>
            \E q \in Positions(data) : /\ Rest(data, frames'[n + 1], off + 1, q, Level(data, n + 1))
                                       /\ Fits(data, frames', n, q)
    <3>1. n \in Nat
      BY <1>3
    <3> HIDE DEF n
    <3> QED
      BY <1>2, <1>6, <3>1, FitsLast
  <2> QED
    BY <1>8, <1>9, <2>1 DEF M
<1>11. L[off] \subseteq Positions(data)
  <2>1. Ascends(data, L)
    BY <1>2, <1>3, LevelsAscend DEF L
  <2>2. off \in Positions(data)
    BY <1>2, <1>3 DEF Positions
  <2> QED
    BY <2>1, <2>2 DEF Ascends
<1>12. LeftFits'
  BY <1>1, <1>2, <1>3, <1>7, <1>8, <1>10, <1>11 DEF LeftFits
<1>13. ScanTypes'
  BY <1>1, <1>3, <1>8 DEF ScanInv, ScanTypes
<1> QED
  BY <1>1, <1>2, <1>12, <1>13 DEF ScanInv, ScanIsExact

\* The pass stops only where the grammar has no item: too deep, past the data, of
\* no definite length, or not a new key where a key is due (core.py:341-373, 385-390).
LEMMA RejectStep ==
    ASSUME ScanInv, Reject
    PROVE  ScanInv'
<1> DEFINE n == Len(frames)
<1>1. Wants /\ ~Admitted /\ verdict' = "rejected" /\ data' = data /\ off' = off /\ frames' = frames
  BY DEF Reject
<1>2. /\ data \in Seq(Headers) /\ n \in 1..(MaxDepth + 2) /\ n - 1 \in Nat
      /\ Top \in Frames /\ Top.left > 0 /\ (IsKey <=> KeyIsNext(Top))
      /\ IsOneItem(data) <=> /\ off \in Positions(data)
                             /\ \E q \in Positions(data) :
                                    /\ Rest(data, Top, off, q, Level(data, n))
                                    /\ Fits(data, frames, n - 1, q)
  BY <1>1, Wanted
<1>3. \/ n = MaxDepth + 2 \/ off > Len(data) \/ data[off].mt = "indefinite"
      \/ KeyIsNext(Top) /\ ~NewKey(data, off, Top.seen)
  BY <1>1, <1>2 DEF Admitted, Readable, Depth, KeyAllowed, NewKey, Keyed, ScanInv, ScanTypes
<1>4. ~IsOneItem(data)
  BY <1>2, <1>3, NothingToRead
<1>5. ScanTypes'
  BY <1>1 DEF ScanInv, ScanTypes
<1> QED
  BY <1>1, <1>4, <1>5 DEF ScanInv, LeftFits, ScanIsExact

LEMMA ButTheLast ==
    ASSUME NEW fs \in Seq(Frames), Len(fs) - 1 \in Nat
    PROVE  LET gs == SubSeq(fs, 1, Len(fs) - 1) IN
           gs \in Seq(Frames) /\ Len(gs) = Len(fs) - 1 /\ \A f \in 1..(Len(fs) - 1) : gs[f] = fs[f]
<1> DEFINE m == Len(fs) - 1
<1>1. m \in Nat /\ \A f \in 1..m : fs[f] \in Frames
  OBVIOUS
<1> HIDE DEF m
<1>2. /\ SubSeq(fs, 1, m) \in Seq(Frames)
      /\ Len(SubSeq(fs, 1, m)) = IF 1 <= m THEN m - 1 + 1 ELSE 0
      /\ \A f \in 1..(m - 1 + 1) : SubSeq(fs, 1, m)[f] = fs[1 + f - 1]
  BY <1>1, SubSeqProperties
<1>3. (IF 1 <= m THEN m - 1 + 1 ELSE 0) = m /\ m - 1 + 1 = m /\ \A f \in 1..m : 1 + f - 1 = f
  BY <1>1
<1>4. SubSeq(fs, 1, m) \in Seq(Frames) /\ Len(SubSeq(fs, 1, m)) = m
      /\ \A f \in 1..m : SubSeq(fs, 1, m)[f] = fs[f]
  BY <1>2, <1>3
<1> QED
  BY <1>4 DEF m

\* A call that has read all its items leaves the rest to the others (core.py:382-393).
LEMMA ReturnStep ==
    ASSUME ScanInv, Return
    PROVE  ScanInv'
<1> DEFINE n == Len(frames)
           m == n - 1
<1>1. /\ verdict = "open" /\ frames # <<>> /\ Top.left = 0
      /\ frames' = SubSeq(frames, 1, m) /\ data' = data /\ off' = off /\ verdict' = verdict
  BY DEF Return
<1>2. /\ data \in Seq(Headers) /\ frames \in Seq(Frames) /\ n \in 1..(MaxDepth + 2) /\ m \in Nat
      /\ Top \in Frames /\ off \in 1..(Len(data) + 2)
  BY <1>1 DEF ScanInv, ScanTypes, Top
<1>3. /\ frames' \in Seq(Frames) /\ Len(frames') = m /\ \A f \in 1..m : frames'[f] = frames[f]
  BY <1>1, <1>2, ButTheLast
<1>4. Fits(data, frames, m + 1, off) <=> Fits(data, frames, m, off)
  <2>1. m + 1 = n /\ frames[n] = Top
    BY <1>2 DEF Top
  <2>2. off \in Positions(data) =>
            \A q \in Positions(data) : Rest(data, Top, off, q, Level(data, n)) <=> off = q
    BY <1>1, <1>2, RestOfNone
  <2> HIDE DEF m
  <2>3. Fits(data, frames, m, off) => off \in Positions(data)
    BY <1>2 DEF Fits
  <2>4. Fits(data, frames, m + 1, off) <=>
            /\ off \in Positions(data)
            /\ \E q \in Positions(data) : /\ Rest(data, frames[m + 1], off, q, Level(data, m + 1))
                                          /\ Fits(data, frames, m, q)
    BY <1>2, FitsLast
  <2> QED
    BY <2>1, <2>2, <2>3, <2>4
<1>5. Fits(data, frames', m, off) <=> Fits(data, frames, m, off)
  BY <1>3, FitsSame
<1>6. n = m + 1
  BY <1>2
<1> HIDE DEF m
<1>7. LeftFits'
  BY <1>1, <1>3, <1>4, <1>5, <1>6 DEF ScanInv, LeftFits
<1>8. ScanTypes'
  BY <1>1, <1>2, <1>3, <1>6 DEF ScanInv, ScanTypes
<1> QED
  BY <1>1, <1>7, <1>8 DEF ScanInv, ScanIsExact

\* Nothing may be left when the outermost call is done (core.py:398-401).
LEMMA CheckEndStep ==
    ASSUME ScanInv, CheckEnd
    PROVE  ScanInv'
<1>1. /\ verdict = "open" /\ Len(frames) = 0 /\ data' = data /\ off' = off /\ frames' = frames
      /\ verdict' = IF off = Len(data) + 1 THEN "accepted" ELSE "rejected"
  BY DEF CheckEnd
<1>2. IsOneItem(data) <=> off = Len(data) + 1
  BY <1>1, FitsNone DEF ScanInv, ScanTypes, LeftFits
<1>3. ScanTypes'
  BY <1>1 DEF ScanInv, ScanTypes
<1> QED
  BY <1>1, <1>2, <1>3 DEF ScanInv, LeftFits, ScanIsExact

LEMMA NextScanInv ==
    ASSUME ScanInv, [Next]_vars
    PROVE  ScanInv'
<1>1. CASE UNCHANGED vars
  BY <1>1 DEF vars, ScanInv, ScanTypes, LeftFits, ScanIsExact
<1> QED
  BY <1>1, ScanTagStep, ScanScalarStep, ScanContainerStep, RejectStep, ReturnStep, CheckEndStep
     DEF Next

\* Throughout the pass, the data is one item exactly if what is left of it fits the
\* calls that are not done (core.py:323-395).
THEOREM Invariance == Spec => []ScanInv
  BY InitScanInv, NextScanInv, PTL DEF Spec

\* The pass stays within its types and no deeper than one call below the limit
\* (core.py:326, 341), whatever the data and the limit.
THEOREM TypeCorrect == Spec => []TypeOK
<1>1. ASSUME ScanInv PROVE TypeOK
  <2>1. \A i \in 1..Len(frames) : frames[i] \in Frames
    BY <1>1 DEF ScanInv, ScanTypes
  <2>2. \A i \in 1..Len(frames) : frames[i].of \in {"array", "map"} /\ frames[i].left \in Nat
    BY <2>1 DEF Frames
  <2> QED
    BY <1>1, <2>2 DEF ScanInv, ScanTypes, TypeOK
<1> QED
  BY <1>1, Invariance, PTL

\* The pass accepts exactly one conformant item, and nothing else, for data of any
\* length and any limit of nesting (core.py:323-401).
THEOREM ScanCorrect == Spec => []ScanIsExact
<1>1. ScanInv => ScanIsExact
  BY DEF ScanInv
<1> QED
  BY <1>1, Invariance, PTL

\* Steps that the pass can still take: for each header one to read it and one to
\* return from it.
Work == 2 * (Len(data) + 2 - off) + Len(frames) + (IF verdict = "open" THEN 1 ELSE 0)

LEMMA NextWorks ==
    ASSUME ScanInv, Next
    PROVE  Work' < Work
<1> USE DEF Work
<1>1. /\ Len(data) \in Nat /\ off \in 1..(Len(data) + 2) /\ Len(frames) \in Nat
      /\ frames \in Seq(Frames)
  BY DEF ScanInv, ScanTypes
<1>2. CASE ScanTag
  BY <1>1, <1>2 DEF ScanTag
<1>3. CASE ScanScalar
  <2>1. off \in 1..Len(data) /\ Len(frames') = Len(frames)
    BY <1>3, Reads DEF ScanScalar
  <2>2. off' > off /\ off' \in Nat /\ data' = data /\ verdict' = verdict
    BY <1>1, <1>3, <2>1 DEF ScanScalar
  <2> QED
    BY <1>1, <2>1, <2>2
<1>4. CASE ScanContainer
  <2> DEFINE g == Counted(data[off])
  <2>1. g \in Seq(Frames) /\ Len(g) = Len(frames)
    BY <1>4, Reads DEF ScanContainer
  <2>2. /\ \E call : frames' = Append(g, call)
        /\ off' = off + 1 /\ data' = data /\ verdict' = verdict
    BY <1>4 DEF ScanContainer
  <2> HIDE DEF g
  <2>3. Len(frames') = Len(frames) + 1
    BY <2>1, <2>2
  <2> QED
    BY <1>1, <2>2, <2>3
<1>5. CASE Reject
  BY <1>1, <1>5 DEF Reject, Wants
<1>6. CASE Return
  <2>1. frames' = SubSeq(frames, 1, Len(frames) - 1) /\ Len(frames) - 1 \in Nat
    BY <1>1, <1>6 DEF Return
  <2>2. Len(frames') = Len(frames) - 1
    BY <1>1, <2>1, ButTheLast
  <2>3. data' = data /\ off' = off /\ verdict' = verdict
    BY <1>6 DEF Return
  <2> QED
    BY <1>1, <2>2, <2>3
<1>7. CASE CheckEnd
  BY <1>1, <1>7 DEF CheckEnd
<1> QED
  BY <1>2, <1>3, <1>4, <1>5, <1>6, <1>7 DEF Next

\* The pass ends after at most two steps for each header and four more, whatever
\* lengths the headers claim (core.py:379-395).
THEOREM PassEnds == /\ Spec => [](Work \in Nat) /\ [][Work' < Work]_vars
                    /\ Init => Work = 2 * Len(data) + 4
<1>1. ScanInv => Work \in Nat
  BY DEF ScanInv, ScanTypes, Work
<1>2. ScanInv /\ [Next]_vars => [Work' < Work]_vars
  BY NextWorks
<1>3. Init => Work = 2 * Len(data) + 4
  <2>1. Init => ScanInv
    BY InitScanInv
  <2>2. Init => Len(data) \in Nat
    BY <2>1 DEF ScanInv, ScanTypes
  <2> QED
    BY <2>2 DEF Init, Work
<1> QED
  BY <1>1, <1>2, <1>3, Invariance, PTL DEF Spec
=============================================================================
