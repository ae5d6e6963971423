---------------------------- MODULE IssuanceProofs ----------------------------
(***************************************************************************)
(* Proofs about issuing and validating an SD-CWT, for any claim set, any   *)
(* paths and any number of slots.  The invariant is that hashes are        *)
(* written innermost first: an opening is made when all that is redacted   *)
(* inside its value has been, so what it holds is final.                   *)
(***************************************************************************)
EXTENDS Issuance, FiniteSetTheorems, TLAPS

Done == {"issued", "presented", "valid", "refused"}

\* Nothing is redacted before every path was found to lead somewhere (core.py:541-542).
PathsAreChecked ==
    /\ status \in {"checking", "raised"} => Made = {}
    /\ status \notin {"checking", "raised"} => requested \subseteq Entries

\* The hashes of a node are those of the openings made of its entries, and decoys
\* are in the payload (core.py:480-482, 551-559).
HashesAreOfMade ==
    \A n \in Claims : hidden[n] = {d \in Made \cap Entries : Parent[d] = n}
                                  \cup (IF n = Root THEN Made \cap Decoys ELSE {})

\* An entry is hidden after everything that is redacted inside it (core.py:470-474).
InnermostFirst ==
    /\ Made \cap Entries \subseteq requested
    /\ \A c \in Made \cap Entries : /\ requested \cap Within(c) \subseteq Made
                                    /\ \A n \in Within(c) :
                                           openings[c][n] = {d \in requested : Parent[d] = n}

\* Decoys are made while there are fewer hashes than slots (core.py:547-550).
DecoysFillSlots ==
    Made \cap Decoys # {} => /\ requested \subseteq Made
                             /\ padTo # None /\ Cardinality(hidden[Root]) <= padTo

\* A token is signed when it is complete.
TokenIsComplete == status \in Done => requested \subseteq Made /\ Padded

TokenInv == PathsAreChecked /\ HashesAreOfMade /\ InnermostFirst /\ DecoysFillSlots /\ TokenIsComplete

\* A verdict, once given, stands (core.py:718-728).
IInv == TypeOK /\ TokenInv /\ ClosedPresentationsVerify /\ RoundTrip

-----------------------------------------------------------------------------
(* Induction, for sets of natural numbers *)

\* A set of natural numbers has a least member.
LEMMA LeastNatural ==
    ASSUME NEW S \in SUBSET Nat, S # {}
    PROVE  \E i \in S : \A j \in S : i <= j
<1>1. IsWellFoundedOn(OpToRel(<, Nat), Nat)
  BY NatLessThanWellFounded
<1>2. PICK i \in S : \A j \in S : ~(<<j, i>> \in OpToRel(<, Nat))
  BY <1>1, WFMin
<1>3. \A j \in S : ~(j < i)
  BY <1>2 DEF OpToRel
<1> QED
  BY <1>3

\* What has 0 and with each number the next has them all.
LEMMA NaturalsFrom0 ==
    ASSUME NEW S \in SUBSET Nat, 0 \in S, \A i \in S : i + 1 \in S
    PROVE  S = Nat
<1> SUFFICES ASSUME S # Nat PROVE FALSE
  OBVIOUS
<1>1. PICK i \in Nat \ S : \A j \in Nat \ S : i <= j
  BY LeastNatural
<1>2. i # 0 /\ i - 1 \in Nat /\ i - 1 \in S
  BY <1>1
<1> QED
  BY <1>1, <1>2

USE IssuanceAssumption

-----------------------------------------------------------------------------
(* The claim set is a tree *)

Up(n) == Above[n] \cup {n}

\* The entries around a node are the least set that leads outward from it.
LEMMA UpIsLeast ==
    ASSUME NEW n \in Claims
    PROVE  /\ Up(n) \subseteq Claims /\ n \in Up(n) /\ n \notin Above[n]
           /\ Outward(Up(n))
           /\ \A S \in SUBSET Claims : n \in S /\ Outward(S) => Up(n) \subseteq S
<1>1. Up(n) = {m \in Claims : \A S \in SUBSET Claims : n \in S /\ Outward(S) => m \in S}
  BY DEF Up, Above
<1>2. ASSUME NEW m \in Up(n), m # Root PROVE Parent[m] \in Up(n)
  <2>1. m \in Entries /\ Parent[m] \in Claims
    BY <1>1, <1>2 DEF Entries
  <2>2. \A S \in SUBSET Claims : n \in S /\ Outward(S) => Parent[m] \in S
    BY <1>1, <1>2 DEF Outward
  <2> QED
    BY <1>1, <2>1, <2>2
<1>3. Outward(Up(n))
  BY <1>2 DEF Outward
<1>4. n \notin Above[n]
  BY DEF Above
<1> QED
  BY <1>1, <1>3, <1>4

\* What holds of the root, and of an entry if it holds of what the entry is in, holds
\* of all claims.
LEMMA TreeInduction ==
    ASSUME NEW S \in SUBSET Claims, Root \in S, \A n \in Entries : Parent[n] \in S => n \in S
    PROVE  S = Claims
<1> SUFFICES ASSUME NEW n \in Claims \ S PROVE FALSE
  OBVIOUS
<1>1. Outward(Claims \ S)
  BY DEF Outward, Entries
<1>2. Up(n) \subseteq Claims \ S
  BY <1>1, UpIsLeast
<1>3. Root \in Up(n)
  BY DEF Up, Entries
<1> QED
  BY <1>2, <1>3

\* An entry is in what its map or array is in, and in that.
LEMMA UpOfParent ==
    /\ Up(Root) = {Root}
    /\ \A n \in Entries : Up(n) = {n} \cup Up(Parent[n])
<1>1. Up(Root) = {Root}
  <2>1. Outward({Root}) /\ {Root} \in SUBSET Claims
    BY DEF Outward
  <2>2. Up(Root) \subseteq {Root} /\ Root \in Up(Root)
    BY <2>1, UpIsLeast
  <2> QED
    BY <2>2
<1>2. ASSUME NEW n \in Entries PROVE Up(n) = {n} \cup Up(Parent[n])
  <2>1. n \in Claims /\ n # Root /\ Parent[n] \in Claims
    BY DEF Entries
  <2>2. Outward({n} \cup Up(Parent[n]))
    BY <2>1, UpIsLeast DEF Outward
  <2>3. Up(n) \subseteq {n} \cup Up(Parent[n])
    BY <2>1, <2>2, UpIsLeast
  <2>4. Parent[n] \in Up(n)
    BY <2>1, UpIsLeast DEF Outward
  <2>5. Up(Parent[n]) \subseteq Up(n)
    BY <2>1, <2>4, UpIsLeast
  <2> QED
    BY <2>1, <2>3, <2>5, UpIsLeast
<1> QED
  BY <1>1, <1>2

\* No entry is inside itself.
LEMMA AboveParent ==
    /\ Above[Root] = {}
    /\ \A n \in Entries : Above[n] = Up(Parent[n]) /\ Parent[n] \in Claims
<1> DEFINE S == {n \in Claims : n = Root \/ n \notin Up(Parent[n])}
<1>1. ASSUME NEW n \in Entries, Parent[n] \in S PROVE n \in S
  <2>1. n \in Claims /\ n # Root /\ Parent[n] \in Claims
    BY DEF Entries
  <2>2. SUFFICES ASSUME n \in Up(Parent[n]) PROVE FALSE
    BY <2>1
  <2>3. CASE Parent[n] = Root
    BY <2>1, <2>2, <2>3, UpOfParent
  <2>4. CASE Parent[n] # Root
    <3> DEFINE p == Parent[n]
    <3>1. p \in Entries /\ p \notin Up(Parent[p]) /\ Parent[p] \in Claims
      BY <1>1, <2>1, <2>4 DEF Entries
    <3>2. n = p \/ n \in Up(Parent[p])
      BY <2>2, <3>1, UpOfParent
    <3>3. n # p
      <4>1. Parent[p] \in Up(Parent[p])
        BY <3>1, UpIsLeast
      <4> QED
        BY <3>1, <4>1
    <3>4. n \notin Up(Parent[p])
      BY <2>1, <3>1, UpIsLeast DEF Outward
    <3> QED
      BY <3>2, <3>3, <3>4
  <2> QED
    BY <2>3, <2>4
<1>2. S = Claims
  BY <1>1, TreeInduction
<1>3. ASSUME NEW n \in Entries PROVE Above[n] = Up(Parent[n]) /\ Parent[n] \in Claims
  <2>1. n \in Claims /\ n # Root /\ n \notin Up(Parent[n]) /\ Parent[n] \in Claims
    BY <1>2 DEF Entries
  <2>2. Up(n) = {n} \cup Up(Parent[n]) /\ n \notin Above[n]
    BY <2>1, UpOfParent, UpIsLeast
  <2> QED
    BY <2>1, <2>2 DEF Up
<1>4. Above[Root] = {}
  BY UpOfParent, UpIsLeast DEF Up
<1> HIDE DEF S
<1> QED
  BY <1>3, <1>4

\* Being around is transitive.
LEMMA UpIsTransitive ==
    ASSUME NEW n \in Claims, NEW m \in Up(n)
    PROVE  /\ m \in Claims /\ Up(m) \subseteq Up(n)
           /\ m # n => Up(m) \subseteq Above[n]
<1>1. m \in Claims /\ Up(m) \subseteq Up(n)
  BY UpIsLeast
<1>2. CASE n = Root
  BY <1>1, <1>2, UpOfParent
<1>3. CASE n # Root
  <2>1. n \in Entries /\ Above[n] = Up(Parent[n]) /\ Parent[n] \in Claims
    BY <1>3, AboveParent DEF Entries
  <2>2. m # n => m \in Up(Parent[n])
    BY <2>1 DEF Up
  <2>3. m # n => Up(m) \subseteq Up(Parent[n])
    BY <2>1, <2>2, UpIsLeast
  <2> QED
    BY <1>1, <2>1, <2>3
<1> QED
  BY <1>2, <1>3

\* Of the entries around a node there is one that is inside all others.
LEMMA Innermost ==
    ASSUME NEW n \in Claims, NEW T \in SUBSET Up(n), T # {}
    PROVE  \E m \in T : T \subseteq Up(m)
<1> DEFINE S == {k \in Claims : \A U \in SUBSET Up(k) : U # {} => \E m \in U : U \subseteq Up(m)}
<1>1. Root \in S
  BY UpOfParent, UpIsLeast
<1>2. ASSUME NEW k \in Entries, Parent[k] \in S PROVE k \in S
  <2>1. k \in Claims
    BY DEF Entries
  <2>2. ASSUME NEW U \in SUBSET Up(k), U # {} PROVE \E m \in U : U \subseteq Up(m)
    <3>1. CASE k \in U
      BY <3>1
    <3>2. CASE k \notin U
      <4>1. U \subseteq Up(Parent[k])
        BY <3>2, UpOfParent
      <4> QED
        BY <1>2, <2>2, <4>1
    <3> QED
      BY <3>1, <3>2
  <2> QED
    BY <2>1, <2>2
<1>3. S = Claims
  BY <1>1, <1>2, TreeInduction
<1> QED
  BY <1>3

\* The depth of an entry is one more than that of the map or array it is in.
LEMMA Levels ==
    /\ Level(Root) = 0
    /\ \A n \in Claims : Level(n) \in Nat
    /\ \A n \in Entries : Level(n) = Level(Parent[n]) + 1
    /\ \A n \in Claims, m \in Claims : m \in Up(n) => Level(m) <= Level(n)
<1>1. \A n \in Claims : IsFiniteSet(Above[n]) /\ Level(n) \in Nat
  BY FS_Subset, FS_CardinalityType DEF Above, Level
<1>2. Level(Root) = 0
  BY AboveParent, FS_EmptySet DEF Level
<1>3. ASSUME NEW n \in Entries PROVE Level(n) = Level(Parent[n]) + 1
  <2>1. Above[n] = Above[Parent[n]] \cup {Parent[n]} /\ Parent[n] \in Claims
    BY AboveParent DEF Up
  <2>2. Parent[n] \notin Above[Parent[n]]
    BY <2>1, UpIsLeast
  <2> QED
    BY <1>1, <2>1, <2>2, FS_AddElement DEF Level
<1>4. ASSUME NEW n \in Claims, NEW m \in Up(n) PROVE Level(m) <= Level(n)
  <2>1. Above[m] \subseteq Above[n]
    BY <1>4, UpIsTransitive DEF Up
  <2> QED
    BY <1>1, <2>1, FS_Subset DEF Level
<1> QED
  BY <1>1, <1>2, <1>3, <1>4

-----------------------------------------------------------------------------
(* The token, as its recipient gets it *)

\* The hashes of a complete token, where the claim set had what they hide.
Redactions(n) == {d \in requested : Parent[d] = n} \cup (IF n = Root THEN Made \cap Decoys ELSE {})

\* The claims that are in the clear or whose opening is among P, all the way down.
Visible(P) == {n \in Claims : requested \cap Up(n) \subseteq P}

\* A node is serialised with the innermost opening around it, or with the payload.
LEMMA ContainerOf ==
    ASSUME TypeOK, NEW n \in Claims
    PROVE  \/ Container(n) = Root /\ Up(n) \cap Made = {}
           \/ /\ Container(n) \in Up(n) \cap Made \cap Entries
              /\ n \in Within(Container(n)) /\ n # Root
<1> DEFINE around == Up(n) \cap Made
<1>1. Made \cap Claims \subseteq Entries /\ Root \notin Made
  BY DEF TypeOK, Entries
<1>2. Container(n) = IF around = {} THEN Root ELSE CHOOSE m \in around : around \subseteq Up(m)
  BY DEF Container, Up
<1>3. CASE around = {}
  BY <1>2, <1>3
<1>4. CASE around # {}
  <2>1. \E m \in around : around \subseteq Up(m)
    <3>1. around \in SUBSET Up(n)
      OBVIOUS
    <3> HIDE DEF around
    <3> QED
      BY <1>4, <3>1, Innermost
  <2> DEFINE c == CHOOSE m \in around : around \subseteq Up(m)
  <2>2. c \in around /\ Container(n) = c
    BY <1>2, <1>4, <2>1
  <2>3. c \in Claims /\ c # Root /\ c \in Entries
    BY <1>1, <2>2, UpIsLeast
  <2>4. n # Root
    BY <2>2, <2>3, UpOfParent
  <2> QED
    BY <2>2, <2>3, <2>4 DEF Within, Up
<1> QED
  BY <1>3, <1>4

\* So whether a node is in the payload or in an opening, its hashes are those of the
\* entries to be redacted in it, and of the decoys if it is the payload.
LEMMA HashesOfToken ==
    ASSUME TypeOK, TokenInv, requested \subseteq Made, requested \subseteq Entries
    PROVE  /\ requested = Made \cap Entries
           /\ \A n \in Claims : /\ HashesAt(n) = Redactions(n)
                                /\ HashesAt(n) \subseteq Made
                                /\ Shape[n] = "value" => HashesAt(n) = {}
<1>1. requested = Made \cap Entries
  BY DEF TokenInv, InnermostFirst
<1>2. ASSUME NEW n \in Claims PROVE HashesAt(n) = Redactions(n)
  <2>1. CASE Container(n) = Root
    <3>1. HashesAt(n) = hidden[n]
      BY <2>1 DEF HashesAt
    <3>2. hidden[n] = {d \in requested : Parent[d] = n} \cup (IF n = Root THEN Made \cap Decoys ELSE {})
      <4>1. {d \in Made \cap Entries : Parent[d] = n} = {d \in requested : Parent[d] = n}
        BY <1>1
      <4> QED
        BY <4>1 DEF TokenInv, HashesAreOfMade
    <3> QED
      BY <3>1, <3>2 DEF Redactions
  <2>2. CASE Container(n) # Root
    <3>1. Container(n) \in Made \cap Entries /\ n \in Within(Container(n)) /\ n # Root
      BY <2>2, ContainerOf
    <3> QED
      BY <2>2, <3>1 DEF HashesAt, TokenInv, InnermostFirst, Redactions
  <2> QED
    BY <2>1, <2>2
<1>3. ASSUME NEW n \in Claims, Shape[n] = "value" PROVE Redactions(n) = {}
  <2>1. n # Root
    BY <1>3
  <2>2. \A d \in requested : Parent[d] # n
    BY <1>3
  <2> QED
    BY <2>1, <2>2 DEF Redactions
<1>4. \A n \in Claims : Redactions(n) \subseteq Made
  BY DEF Redactions
<1> QED
  BY <1>1, <1>2, <1>3, <1>4

\* A set as a sequence has each member once.
LEMMA SequenceOfSet ==
    ASSUME NEW S, IsFiniteSet(S)
    PROVE  /\ SetToSeq(S) \in [1..Cardinality(S) -> S]
           /\ Cardinality(S) \in Nat /\ Len(SetToSeq(S)) = Cardinality(S)
           /\ {SetToSeq(S)[i] : i \in 1..Len(SetToSeq(S))} = S
           /\ \A i, j \in 1..Len(SetToSeq(S)) : SetToSeq(S)[i] = SetToSeq(S)[j] => i = j
<1> DEFINE n == Cardinality(S)
           f == SetToSeq(S)
<1>1. n \in Nat /\ ExistsBijection(1..n, S)
  BY FS_CardinalityType
<1>2. \E g \in [1..n -> S] : IsInjective(g)
  BY <1>1 DEF ExistsBijection, Bijection, Injection, IsInjective
<1>3. f \in [1..n -> S] /\ IsInjective(f)
  BY <1>2 DEF SetToSeq
<1>4. Len(f) = n
  BY <1>1, <1>3
<1>5. f \in Injection(1..n, S)
  BY <1>3 DEF Injection, IsInjective
<1>6. f \in Surjection(1..n, S)
  <2>1. IsFiniteSet(1..n) /\ Cardinality(1..n) = n
    BY <1>1, FS_Interval
  <2> QED
    BY <1>5, <2>1, FS_Injection
<1>7. {f[i] : i \in 1..n} = S
  BY <1>3, <1>6 DEF Surjection
<1> HIDE DEF f
<1>8. \A i, j \in 1..n : f[i] = f[j] => i = j
  BY <1>3 DEF IsInjective
<1> QED
  BY <1>1, <1>3, <1>4, <1>7, <1>8 DEF f

\* What the matcher makes of the token and openings of it: they fit wherever their
\* hash is, no key is there twice, and inside are the entries that are not hidden.
LEMMA MatcherOnToken ==
    ASSUME TypeOK, TokenInv, requested \subseteq Made, requested \subseteq Entries,
           NEW P \in SUBSET Made, NEW n \in Claims
    PROVE  /\ O!Opened(n, P) = P \cap Redactions(n)
           /\ O!HashesIn(n) \cup TaggedHashes[n] = Redactions(n)
           /\ \A d \in P : O!HangsOn(d, n) <=> d \in Redactions(n)
           /\ O!KeysAreDistinct(n, P)
           /\ O!Inside(n, P) = {c \in Entries : Parent[c] = n /\ (c \in requested => c \in P)}
<1> DEFINE H == HashesAt(n)
<1>1. /\ H = Redactions(n) /\ H \subseteq Made /\ Made \subseteq Entries \cup Decoys
      /\ Shape[n] = "value" => H = {}
      /\ IsFiniteSet(H)
  <2>1. H \subseteq Made /\ Made \subseteq Claims \cup Decoys
    BY HashesOfToken DEF TypeOK, Entries
  <2> QED
    BY <2>1, HashesOfToken, FS_Union, FS_Subset DEF TypeOK
<1>2. Shape[n] \in {"map", "list", "value"}
  OBVIOUS
<1>3. ASSUME NEW d \in H
      PROVE  \/ d \in Decoys /\ n = Root
             \/ d \in Entries /\ d \notin Decoys /\ Parent[d] = n
  BY <1>1, <1>3 DEF Redactions, Entries
<1>4. O!HashesIn(n) = IF Shape[n] = "map" THEN H ELSE {}
  <2>1. CASE Shape[n] = "map"
    <3>1. O!HashesIn(n) = {SetToSeq(H)[i] : i \in 1..Len(SetToSeq(H))}
      BY <2>1 DEF O!HashesIn, ListedHashes
    <3> HIDE DEF H
    <3>2. {SetToSeq(H)[i] : i \in 1..Len(SetToSeq(H))} = H
      <4>1. IsFiniteSet(H)
        BY <1>1
      <4> QED
        BY <4>1, SequenceOfSet, Zenon
    <3> QED
      BY <2>1, <3>1, <3>2
  <2>2. CASE Shape[n] # "map"
    BY <2>2 DEF O!HashesIn, ListedHashes
  <2> QED
    BY <2>1, <2>2
<1>5. O!Opened(n, P) = P \cap H
  <2>1. CASE Shape[n] = "map"
    BY <1>1, <1>3, <1>4, <2>1 DEF O!Opened, TaggedHashes, FormOf, Hidable
  <2>2. CASE Shape[n] = "list"
    BY <1>1, <1>3, <1>4, <2>2 DEF O!Opened, TaggedHashes, FormOf, Hidable
  <2>3. CASE Shape[n] = "value"
    BY <1>1, <1>4, <2>3 DEF O!Opened, TaggedHashes, FormOf, Hidable
  <2> QED
    BY <1>2, <2>1, <2>2, <2>3
<1>6. O!HashesIn(n) \cup TaggedHashes[n] = H
  <2>1. CASE Shape[n] = "map"
    BY <1>4, <2>1 DEF TaggedHashes
  <2>2. CASE Shape[n] = "list"
    BY <1>4, <2>2 DEF TaggedHashes
  <2>3. CASE Shape[n] = "value"
    BY <1>1, <1>4, <2>3 DEF TaggedHashes
  <2> QED
    BY <1>2, <2>1, <2>2, <2>3
<1>7. \A d \in P : O!HangsOn(d, n) <=> d \in H
  <2>1. \A d \in P : d \in O!Opened(n, P) <=> O!HangsOn(d, n)
    <3>1. \A d \in P : FormOf[d] \in {"map", "elem", "decoy"}
      BY <1>1 DEF FormOf, Hidable
    <3> QED
      BY <3>1 DEF O!Opened, O!HangsOn
  <2> QED
    BY <1>5, <2>1
<1>8. O!KeysAreDistinct(n, P)
  <2> DEFINE s == SetToSeq(H)
  <2>1. CASE Shape[n] = "map"
    <3>1. /\ \A i, j \in 1..Len(s) : s[i] = s[j] => i = j
          /\ \A i \in 1..Len(s) : s[i] \in H /\ s[i] \in Entries \cup Decoys
      <4>1. /\ \A i, j \in 1..Len(s) : s[i] = s[j] => i = j
            /\ {s[i] : i \in 1..Len(s)} = H
        <5>1. IsFiniteSet(H)
          BY <1>1
        <5> QED
          BY <5>1, SequenceOfSet, Zenon
      <4> QED
        BY <1>1, <4>1
    <3>2. ListedHashes[n] = s
      BY <2>1 DEF ListedHashes
    <3> HIDE DEF s, H
    <3>3. \A i \in 1..Len(s) : KeyOf[s[i]] = s[i]
      BY <3>1 DEF KeyOf, Hidable
    <3>4. \A c \in ClearEntries[n] : c.key \notin H
      BY DEF ClearEntries, H
    <3> SUFFICES ASSUME NEW c \in O!ClaimsOf(n, P), NEW e \in O!ClaimsOf(n, P), c.key = e.key
                 PROVE  c = e
      BY DEF O!KeysAreDistinct
    <3>5. \A x \in O!ClaimsOf(n, P) :
              \/ \E i \in 1..Len(s) : x = [at |-> i, key |-> s[i]]
              \/ \E f \in ClearEntries[n] : x = [at |-> 0, key |-> f.key]
      BY <3>2, <3>3 DEF O!ClaimsOf
    <3> QED
      BY <3>1, <3>4, <3>5
  <2>2. CASE Shape[n] # "map"
    <3>1. \A x \in O!ClaimsOf(n, P) : \E f \in ClearEntries[n] : x = [at |-> 0, key |-> f.key]
      BY <2>2 DEF O!ClaimsOf, ListedHashes
    <3> QED
      BY <3>1 DEF O!KeysAreDistinct
  <2> QED
    BY <2>1, <2>2
<1>9. O!Inside(n, P) = {c \in Entries : Parent[c] = n /\ (c \in requested => c \in P)}
  <2>1. O!Inside(n, P) = {e \in Entries \ H : Parent[e] = n} \cup (P \cap H \cap Entries)
    <3> DEFINE X == {e \in Entries \ H : Parent[e] = n}
    <3>1. ClearEntries[n] = {[key |-> c, node |-> c] : c \in X}
      BY DEF ClearEntries
    <3> HIDE DEF X, H
    <3>2. ASSUME NEW x \in X PROVE \E c \in ClearEntries[n] : c.node = x
      <4>1. [key |-> x, node |-> x] \in ClearEntries[n]
        BY <3>1
      <4> QED
        BY <4>1
    <3>3. {c.node : c \in ClearEntries[n]} = X
      BY <3>1, <3>2
    <3>4. \A d \in P \cap H :
              /\ ValueOf[d] = IF d \in Decoys THEN Root ELSE d
              /\ FormOf[d] = "decoy" <=> d \in Decoys
      BY <1>1 DEF ValueOf, FormOf, Hidable
    <3>5. {ValueOf[d] : d \in {e \in P \cap H : FormOf[e] # "decoy"}} = P \cap H \cap Entries
      <4>1. \A d \in P \cap H : d \in Entries <=> d \notin Decoys
        BY <1>1 DEF Entries
      <4>2. {e \in P \cap H : FormOf[e] # "decoy"} = P \cap H \cap Entries
        BY <3>4, <4>1
      <4>3. \A d \in P \cap H \cap Entries : ValueOf[d] = d
        BY <3>4, <4>1
      <4> QED
        BY <4>2, <4>3
    <3> QED
      BY <1>5, <3>3, <3>5 DEF O!Inside, X
  <2>2. \A d \in Entries : d \in H <=> d \in requested /\ Parent[d] = n
    BY <1>1 DEF Redactions, Entries
  <2> QED
    BY <2>1, <2>2
<1> QED
  BY <1>1, <1>5, <1>6, <1>7, <1>8, <1>9

-----------------------------------------------------------------------------
(* What is reached in it *)

\* Layer by layer the matcher reaches just the visible claims.
LEMMA ReachedIsVisible ==
    ASSUME TypeOK, TokenInv, requested \subseteq Made, requested \subseteq Entries,
           NEW P \in SUBSET Made
    PROVE  O!Reached(P) = Visible(P)
<1> DEFINE In(n) == O!Inside(n, P)
           Vis(i) == {n \in Visible(P) : Level(n) <= i}
           f == [i \in Nat |-> Vis(i)]
           L == O!Layers(P)
<1>1. ASSUME NEW n \in Claims
      PROVE  In(n) = {c \in Entries : Parent[c] = n /\ (c \in requested => c \in P)}
  BY MatcherOnToken
<1>2. Vis(0) = {Root}
  <2>1. Root \in Visible(P)
    BY UpOfParent DEF Visible, Entries
  <2>2. \A n \in Entries : Level(n) # 0 /\ Level(n) \in Nat
    BY Levels, AboveParent
  <2>3. \A n \in Visible(P) : n = Root \/ n \in Entries
    BY DEF Visible, Entries
  <2> QED
    BY <2>1, <2>2, <2>3, Levels
<1>3. ASSUME NEW i \in Nat PROVE Vis(i + 1) = Vis(i) \cup UNION {In(n) : n \in Vis(i)}
  <2>1. ASSUME NEW c \in Vis(i + 1), c \notin Vis(i) PROVE \E n \in Vis(i) : c \in In(n)
    <3>1. c \in Claims /\ Level(c) = i + 1
      BY <2>1, Levels DEF Visible
    <3>2. c \in Entries
      BY <3>1, Levels DEF Entries
    <3>3. Parent[c] \in Claims /\ Level(Parent[c]) = i
      BY <3>1, <3>2, Levels, AboveParent
    <3>4. Up(Parent[c]) \subseteq Up(c) /\ c \in Up(c)
      BY <3>1, <3>2, UpOfParent
    <3>5. Parent[c] \in Vis(i)
      BY <2>1, <3>3, <3>4 DEF Visible
    <3>6. c \in In(Parent[c])
      BY <1>1, <2>1, <3>2, <3>3, <3>4 DEF Visible
    <3> QED
      BY <3>5, <3>6
  <2>2. ASSUME NEW n \in Vis(i), NEW c \in In(n) PROVE c \in Vis(i + 1)
    <3>1. n \in Claims /\ Level(n) <= i /\ Level(n) \in Nat
      BY <2>2, Levels DEF Visible
    <3>2. c \in Entries /\ c \in Claims /\ Parent[c] = n /\ (c \in requested => c \in P)
      BY <1>1, <2>2, <3>1 DEF Entries
    <3>3. Level(c) <= i + 1
      BY <3>1, <3>2, Levels
    <3>4. Up(c) = {c} \cup Up(n)
      BY <3>2, UpOfParent
    <3> QED
      BY <2>2, <3>2, <3>3, <3>4 DEF Visible
  <2>3. Vis(i) \subseteq Vis(i + 1)
    BY Levels DEF Visible
  <2> QED
    BY <2>1, <2>2, <2>3
<1>4. ASSUME NEW i \in Nat, i # 0 PROVE Vis(i) = Vis(i - 1) \cup UNION {In(n) : n \in Vis(i - 1)}
  <2>1. i - 1 \in Nat /\ (i - 1) + 1 = i
    BY <1>4
  <2> HIDE DEF Vis, In
  <2> QED
    BY <1>3, <2>1
<1> HIDE DEF Vis
<1>5. f = [i \in Nat |-> IF i = 0 THEN {Root}
                         ELSE LET N == f[i - 1] IN N \cup UNION {In(n) : n \in N}]
  <2>1. \A i \in Nat : i # 0 => i - 1 \in Nat /\ f[i - 1] = Vis(i - 1)
    OBVIOUS
  <2>2. \A i \in Nat : f[i] = IF i = 0 THEN {Root}
                              ELSE LET N == f[i - 1] IN N \cup UNION {In(n) : n \in N}
    BY <1>2, <1>4, <2>1
  <2> QED
    BY <2>2
<1> HIDE DEF f
<1>6. L = [i \in Nat |-> IF i = 0 THEN {Root}
                         ELSE LET N == L[i - 1] IN N \cup UNION {In(n) : n \in N}]
  BY <1>5 DEF O!Layers
<1> HIDE DEF L, In
<1>7. \A i \in Nat : L[i] = f[i]
  <2> DEFINE S == {i \in Nat : L[i] = f[i]}
  <2>1. 0 \in S
    BY <1>5, <1>6
  <2>2. ASSUME NEW i \in S PROVE i + 1 \in S
    <3>1. i + 1 \in Nat /\ i + 1 # 0 /\ (i + 1) - 1 = i
      OBVIOUS
    <3>2. L[i + 1] = L[i] \cup UNION {In(n) : n \in L[i]}
      BY <1>6, <3>1
    <3>3. f[i + 1] = f[i] \cup UNION {In(n) : n \in f[i]}
      BY <1>5, <3>1
    <3> QED
      BY <3>1, <3>2, <3>3
  <2>3. S = Nat
    BY <2>1, <2>2, NaturalsFrom0
  <2> QED
    BY <2>3
<1>8. Cardinality(Claims) \in Nat /\ \A n \in Claims : Level(n) <= Cardinality(Claims)
  BY FS_CardinalityType, FS_Subset DEF Level, Above
<1>9. O!Reached(P) = f[Cardinality(Claims)]
  BY <1>7, <1>8 DEF O!Reached, L, O!Cardinality, Cardinality
<1>10. f[Cardinality(Claims)] = Visible(P)
  BY <1>8 DEF f, Vis, Visible
<1> QED
  BY <1>9, <1>10

-----------------------------------------------------------------------------
(* The verdict on it *)

\* If the claim set has a level left for hashes, no part of the token is too deep.
LEMMA NothingTooDeep ==
    ASSUME TypeOK, TokenInv, requested \subseteq Made, requested \subseteq Entries, HasRoom,
           NEW n \in Claims
    PROVE  Depth(n) <= MaxDepth
<1> DEFINE c == Container(n)
           base == (IF c = Root THEN 0 ELSE 1) + Level(n) - Level(c)
<1>1. Level(n) \in Nat /\ Level(n) < MaxDepth
  BY Levels DEF HasRoom
<1>2. base \in Int /\ base <= Level(n)
  <2>1. CASE c = Root
    BY <1>1, <2>1, Levels
  <2>2. CASE c # Root
    <3>1. c \in Entries /\ c \in Claims
      BY <2>2, ContainerOf DEF Entries
    <3>2. Level(c) \in Nat /\ Level(c) >= 1
      BY <3>1, Levels, AboveParent
    <3> QED
      BY <1>1, <2>2, <3>2
  <2> QED
    BY <2>1, <2>2
<1>3. HashesAt(n) = Redactions(n)
  BY HashesOfToken
<1>4. ASSUME HashesAt(n) # {} PROVE Level(n) + 2 <= MaxDepth
  <2>1. CASE n = Root
    BY <2>1, Levels
  <2>2. ASSUME NEW d \in requested, Parent[d] = n PROVE Level(n) + 2 <= MaxDepth
    <3>1. d \in Claims /\ Level(d) = Level(n) + 1
      BY <2>2, Levels DEF Entries
    <3>2. Level(d) < MaxDepth
      BY <3>1 DEF HasRoom
    <3> QED
      BY <1>1, <3>1, <3>2
  <2> QED
    BY <1>3, <1>4, <2>1, <2>2 DEF Redactions
<1>5. Depth(n) = base + (IF HashesAt(n) = {} THEN 0 ELSE IF Shape[n] = "map" THEN 2 ELSE 1)
  BY DEF Depth
<1> HIDE DEF base, c
<1> QED
  BY <1>1, <1>2, <1>4, <1>5

\* The matcher takes openings that come with those of the redacted claims they are in.
LEMMA MatchedIsClosed ==
    ASSUME TypeOK, TokenInv, requested \subseteq Made, requested \subseteq Entries,
           NEW P \in SUBSET Made
    PROVE  O!ValidFor(Visible(P), P, FALSE)
               <=> \A d \in P \cap Entries : requested \cap Above[d] \subseteq P
<1>1. \A n \in Visible(P) : /\ n \in Claims /\ O!KeysAreDistinct(n, P)
                            /\ \A d \in P : O!HangsOn(d, n) <=> d \in Redactions(n)
  BY MatcherOnToken DEF Visible
<1>2. O!ValidFor(Visible(P), P, FALSE)
          <=> \A d \in P : \E n \in Visible(P) : d \in Redactions(n)
  BY <1>1 DEF O!ValidFor
<1>3. requested = Made \cap Entries /\ Made \subseteq Entries \cup Decoys
  BY HashesOfToken DEF TypeOK
<1>4. ASSUME NEW d \in P \cap Entries
      PROVE  (\E n \in Visible(P) : d \in Redactions(n)) <=> requested \cap Above[d] \subseteq P
  <2>1. d \in requested /\ d \notin Decoys /\ Parent[d] \in Claims /\ Above[d] = Up(Parent[d])
    BY <1>3, AboveParent DEF Entries
  <2>2. \A n \in Claims : d \in Redactions(n) <=> n = Parent[d]
    BY <2>1 DEF Redactions
  <2>3. Parent[d] \in Visible(P) <=> requested \cap Above[d] \subseteq P
    BY <2>1 DEF Visible
  <2> QED
    BY <1>1, <2>1, <2>2, <2>3
<1>5. ASSUME NEW d \in P, d \notin Entries PROVE \E n \in Visible(P) : d \in Redactions(n)
  <2>1. Root \in Visible(P)
    BY UpOfParent DEF Visible, Entries
  <2>2. d \in Redactions(Root)
    BY <1>3, <1>5 DEF Redactions
  <2> QED
    BY <2>1, <2>2
<1> QED
  BY <1>2, <1>4, <1>5

\* So does validate (core.py:718-728).
LEMMA AcceptableIsClosed ==
    ASSUME TypeOK, TokenInv, requested \subseteq Made, requested \subseteq Entries, HasRoom
    PROVE  Acceptable <=> \A d \in header \cap Entries : requested \cap Above[d] \subseteq header
<1>1. header \in SUBSET Made
  BY DEF TypeOK
<1>2. O!Reached(header) = Visible(header)
  BY <1>1, ReachedIsVisible
<1>3. \A c \in {Root} \cup (header \cap Entries) : CheckedDepth(c)
  BY NothingTooDeep DEF CheckedDepth
<1> QED
  BY <1>1, <1>2, <1>3, MatchedIsClosed DEF Acceptable

\* All openings together open every hash that can be reached.
LEMMA AllOpeningsOpen ==
    ASSUME TypeOK, TokenInv, requested \subseteq Made, requested \subseteq Entries
    PROVE  O!Valid(Made, TRUE)
<1>0. Made \in SUBSET Made
  OBVIOUS
<1>1. ASSUME NEW n \in Claims
      PROVE  /\ O!KeysAreDistinct(n, Made)
             /\ O!HashesIn(n) \cup TaggedHashes[n] = Redactions(n)
             /\ \A d \in Made : O!HangsOn(d, n) <=> d \in Redactions(n)
             /\ Redactions(n) \subseteq Made
  <2>1. Redactions(n) \subseteq Made
    BY HashesOfToken
  <2> QED
    BY <1>0, <2>1, MatcherOnToken
<1>2. O!Reachable(Made) = Claims
  <2>1. ASSUME NEW N \in SUBSET Claims, O!Closed(N, Made) PROVE N = Claims
    <3>1. Root \in N /\ \A n \in N : O!Inside(n, Made) \subseteq N
      <4>1. ASSUME NEW n \in N, NEW d \in Made, d \in O!Opened(n, Made)
            PROVE  O!HangsOn(d, n)
        <5>1. n \in Claims
          OBVIOUS
        <5>2. /\ O!Opened(n, Made) = Made \cap Redactions(n)
              /\ O!HangsOn(d, n) <=> d \in Redactions(n)
          BY <1>0, <5>1, MatcherOnToken
        <5> QED
          BY <4>1, <5>2
      <4>2. \A n \in N : O!Opened(n, Made) \subseteq Made
        BY DEF O!Opened
      <4> QED
        BY <2>1, <4>1, <4>2 DEF O!Closed, O!Inside
    <3>2. ASSUME NEW c \in Entries, Parent[c] \in N PROVE c \in N
      <4>1. c \in O!Inside(Parent[c], Made)
        <5>1. Parent[c] \in Claims /\ (c \in requested => c \in Made)
          BY <3>2
        <5>2. O!Inside(Parent[c], Made)
                  = {e \in Entries : Parent[e] = Parent[c] /\ (e \in requested => e \in Made)}
          BY <1>0, <5>1, MatcherOnToken
        <5> QED
          BY <3>2, <5>1, <5>2
      <4> QED
        BY <3>1, <3>2, <4>1
    <3> QED
      BY <3>1, <3>2, TreeInduction
  <2> QED
    BY <2>1 DEF O!Reachable
<1>3. ASSUME NEW d \in Made PROVE \E n \in Claims : d \in Redactions(n)
  <2>1. CASE d \in Entries
    BY <2>1, HashesOfToken, AboveParent DEF Redactions
  <2>2. CASE d \in Decoys
    BY <2>2 DEF Redactions
  <2> QED
    BY <2>1, <2>2 DEF TypeOK
<1> QED
  BY <1>1, <1>2, <1>3 DEF O!Valid, O!ValidFor

-----------------------------------------------------------------------------
(* Every step keeps the invariant *)

\* Before anything is redacted.
LEMMA InitIInv == Init => IInv
<1> SUFFICES ASSUME Init PROVE IInv
  OBVIOUS
<1>1. Made = {} /\ \A n \in Claims : hidden[n] = {}
  BY DEF Init, Made
<1>2. TypeOK
  BY <1>1 DEF Init, TypeOK
<1>3. TokenInv
  BY <1>1 DEF Init, TokenInv, PathsAreChecked, HashesAreOfMade, InnermostFirst, DecoysFillSlots,
              TokenIsComplete, Done
<1>4. ClosedPresentationsVerify /\ RoundTrip
  BY DEF Init, ClosedPresentationsVerify, RoundTrip, Validated
<1> QED
  BY <1>2, <1>3, <1>4 DEF IInv

\* The paths lead somewhere, or nothing is done.
LEMMA PathsIInv ==
    ASSUME IInv, ValidatePaths
    PROVE  IInv'
<1> USE DEF IInv, TokenInv, ValidatePaths
<1>1. Made' = Made /\ Made = {} /\ status' \in {"redacting", "raised"}
  BY DEF Made, PathsAreChecked
<1>2. TypeOK' /\ PathsAreChecked'
  BY <1>1 DEF TypeOK, PathsAreChecked
<1>3. HashesAreOfMade' /\ InnermostFirst' /\ DecoysFillSlots' /\ TokenIsComplete'
  BY <1>1 DEF HashesAreOfMade, InnermostFirst, DecoysFillSlots, TokenIsComplete, Done
<1>4. ClosedPresentationsVerify' /\ RoundTrip'
  BY <1>1 DEF ClosedPresentationsVerify, RoundTrip, Validated
<1> QED
  BY <1>2, <1>3, <1>4

\* An entry is hidden, and its opening holds what was written inside its value.
LEMMA RedactIInv ==
    ASSUME IInv, NEW n \in Entries, RedactNode(n)
    PROVE  IInv'
<1> USE DEF IInv, TokenInv, Hide
<1> DEFINE inside == [m \in Within(n) |-> hidden[m]]
<1>1. /\ status = "redacting" /\ n \in requested /\ n \notin Made
      /\ (Within(n) \ {n}) \cap requested \subseteq Made
      /\ hidden' = [hidden EXCEPT ![Parent[n]] = @ \cup {n}]
      /\ openings' = [x \in Made \cup {n} |-> IF x = n THEN inside ELSE openings[x]]
      /\ UNCHANGED <<requested, padTo, status, header, result>>
  BY DEF RedactNode
<1>2. /\ n \in Claims /\ n # Root /\ n \notin Decoys /\ Parent[n] \in Claims
      /\ requested \subseteq Entries
  BY <1>1 DEF Entries, PathsAreChecked
<1>3. /\ Made' = Made \cup {n}
      /\ \A c \in Made : openings'[c] = openings[c]
      /\ openings'[n] = inside
  BY <1>1 DEF Made
<1>4. ASSUME NEW m \in Within(n)
      PROVE  m \in Claims /\ m # Root /\ Parent[n] # m
  <2>1. m \in Claims /\ n \in Up(m)
    BY DEF Within, Up
  <2>2. m # Root
    BY <1>2, <2>1, UpOfParent
  <2>3. Parent[n] # m
    BY <1>2, <2>1, AboveParent, UpIsLeast DEF Up
  <2> QED
    BY <2>1, <2>2, <2>3
<1>5. ASSUME NEW m \in Claims
      PROVE  hidden'[m] = {d \in Made' \cap Entries : Parent[d] = m}
                          \cup (IF m = Root THEN Made' \cap Decoys ELSE {})
  <2>1. hidden'[m] = IF m = Parent[n] THEN hidden[m] \cup {n} ELSE hidden[m]
    BY <1>1 DEF TypeOK
  <2> QED
    BY <1>2, <1>3, <2>1 DEF HashesAreOfMade
<1>6. HashesAreOfMade'
  BY <1>5 DEF HashesAreOfMade
<1>7. ASSUME NEW m \in Within(n)
      PROVE  inside[m] = {d \in requested : Parent[d] = m} /\ inside[m] \subseteq Entries
  <2>1. m \in Claims /\ m # Root /\ inside[m] = hidden[m]
    BY <1>4
  <2>2. hidden[m] = {d \in Made \cap Entries : Parent[d] = m}
    BY <2>1 DEF HashesAreOfMade
  <2>3. ASSUME NEW d \in requested, Parent[d] = m PROVE d \in Made
    <3>1. d \in Entries /\ d \in Claims /\ n \in Up(m)
      BY <1>2, <2>3 DEF Within, Up, Entries
    <3>2. n \in Above[d]
      BY <2>3, <3>1, AboveParent
    <3>3. d \in Within(n) /\ d # n
      BY <3>1, <3>2, UpIsLeast DEF Within
    <3> QED
      BY <1>1, <3>3
  <2> QED
    BY <1>2, <2>1, <2>2, <2>3 DEF InnermostFirst
<1>8. InnermostFirst'
  <2>1. (Made \cap Entries \subseteq requested)'
    BY <1>1, <1>3 DEF InnermostFirst
  <2>2. ASSUME NEW c \in (Made \cap Entries)'
        PROVE  /\ requested' \cap Within(c) \subseteq Made'
               /\ \A m \in Within(c) : openings'[c][m] = {d \in requested' : Parent[d] = m}
    <3>1. CASE c = n
      BY <1>1, <1>3, <1>7, <3>1
    <3>2. CASE c \in Made \cap Entries
      BY <1>1, <1>3, <3>2 DEF InnermostFirst
    <3> QED
      BY <1>3, <3>1, <3>2
  <2> QED
    BY <2>1, <2>2 DEF InnermostFirst
<1>9. TypeOK'
  <2>1. hidden' \in [Claims -> SUBSET (Entries \cup Decoys)]
    BY <1>1 DEF TypeOK
  <2>2. inside \in [Within(n) -> SUBSET Entries]
    BY <1>7
  <2>3. \A d \in Made' \cap Entries : openings'[d] \in [Within(d) -> SUBSET Entries]
    BY <1>3, <2>2 DEF TypeOK
  <2>4. Made' \subseteq Entries \cup Decoys /\ header' \subseteq Made'
    BY <1>1, <1>3 DEF TypeOK
  <2> QED
    BY <1>1, <2>1, <2>3, <2>4 DEF TypeOK
<1>10. PathsAreChecked' /\ TokenIsComplete' /\ ClosedPresentationsVerify' /\ RoundTrip'
  BY <1>1, <1>2
  DEF PathsAreChecked, TokenIsComplete, ClosedPresentationsVerify, RoundTrip, Done, Validated
<1>11. DecoysFillSlots'
  BY <1>1, <1>2, <1>3 DEF DecoysFillSlots
<1> QED
  BY <1>6, <1>8, <1>9, <1>10, <1>11

\* A decoy takes a slot that is left.
LEMMA PadIInv ==
    ASSUME IInv, Pad
    PROVE  IInv'
<1> USE DEF IInv, TokenInv
<1>1. PICK d \in Decoys \ Made : Hide(d, Root, None)
  BY DEF Pad
<1>2. /\ status = "redacting" /\ requested \subseteq Made
      /\ padTo # None /\ ~(Cardinality(hidden[Root]) >= padTo)
      /\ hidden' = [hidden EXCEPT ![Root] = @ \cup {d}]
      /\ openings' = [x \in Made \cup {d} |-> IF x = d THEN None ELSE openings[x]]
      /\ UNCHANGED <<requested, padTo, status, header, result>>
  BY <1>1 DEF Pad, Redacted, Padded, Hide
<1>3. /\ Made' = Made \cup {d} /\ d \notin Entries /\ Made' \cap Entries = Made \cap Entries
      /\ \A c \in Made : openings'[c] = openings[c]
  BY <1>2 DEF Made, Entries
<1>4. \A m \in Claims : hidden'[m] = IF m = Root THEN hidden[m] \cup {d} ELSE hidden[m]
  BY <1>2 DEF TypeOK
<1>5. HashesAreOfMade'
  <2>1. ASSUME NEW m \in Claims
        PROVE  hidden'[m] = {c \in Made' \cap Entries : Parent[c] = m}
                            \cup (IF m = Root THEN Made' \cap Decoys ELSE {})
    <3>1. CASE m = Root
      <4>1. Made' \cap Decoys = (Made \cap Decoys) \cup {d}
        BY <1>3
      <4> QED
        BY <1>3, <1>4, <3>1, <4>1 DEF HashesAreOfMade
    <3>2. CASE m # Root
      BY <1>3, <1>4, <3>2 DEF HashesAreOfMade
    <3> QED
      BY <3>1, <3>2
  <2> QED
    BY <2>1 DEF HashesAreOfMade
<1>6. InnermostFirst'
  BY <1>2, <1>3 DEF InnermostFirst
<1>7. DecoysFillSlots'
  <2>1. d \notin hidden[Root] /\ hidden[Root] \subseteq Claims \cup Decoys
    BY <1>3 DEF HashesAreOfMade, TypeOK, Entries
  <2>2. IsFiniteSet(hidden[Root]) /\ Cardinality(hidden[Root]) \in Nat
    BY <2>1, FS_Union, FS_Subset, FS_CardinalityType
  <2>3. Cardinality(hidden'[Root]) = Cardinality(hidden[Root]) + 1
    BY <1>4, <2>1, <2>2, FS_AddElement
  <2>4. padTo \in Nat
    BY <1>2 DEF TypeOK
  <2>5. Cardinality(hidden'[Root]) <= padTo
    BY <1>2, <2>2, <2>3, <2>4
  <2> QED
    BY <1>2, <1>3, <2>5 DEF DecoysFillSlots
<1>8. TypeOK'
  BY <1>2, <1>3, <1>4 DEF TypeOK
<1>9. PathsAreChecked' /\ TokenIsComplete' /\ ClosedPresentationsVerify' /\ RoundTrip'
  BY <1>2
  DEF PathsAreChecked, TokenIsComplete, ClosedPresentationsVerify, RoundTrip, Done, Validated
<1> QED
  BY <1>5, <1>6, <1>7, <1>8, <1>9

\* Signing and presenting leave the token as it is.
LEMMA SignIInv ==
    ASSUME IInv, Sign \/ (\E P \in SUBSET Made : Present(P)) \/ UNCHANGED vars
    PROVE  IInv'
<1> USE DEF IInv, TokenInv
<1>1. UNCHANGED <<requested, padTo, hidden, openings, result>> /\ Made' = Made
  BY DEF Sign, Present, vars, Made
<1>2. \/ /\ status = "redacting" /\ status' = "issued" /\ header' = header
         /\ requested \subseteq Made /\ Padded
      \/ status = "issued" /\ status' = "presented" /\ header' \subseteq Made
      \/ UNCHANGED <<status, header>>
  BY DEF Sign, Present, vars, Redacted
<1>3. HashesAreOfMade' /\ InnermostFirst' /\ PathsAreChecked' /\ DecoysFillSlots'
  BY <1>1, <1>2 DEF HashesAreOfMade, InnermostFirst, PathsAreChecked, DecoysFillSlots
<1>4. TokenIsComplete'
  BY <1>1, <1>2 DEF TokenIsComplete, Padded, Done
<1>5. TypeOK'
  BY <1>1, <1>2 DEF TypeOK
<1>6. ClosedPresentationsVerify' /\ RoundTrip'
  BY <1>1, <1>2 DEF ClosedPresentationsVerify, RoundTrip, Validated
<1> QED
  BY <1>3, <1>4, <1>5, <1>6

\* Validation judges the token as it was issued, with the openings presented.
LEMMA ValidateIInv ==
    ASSUME IInv, Validate
    PROVE  IInv'
<1>1. /\ status = "presented"
      /\ status' = IF Acceptable THEN "valid" ELSE "refused"
      /\ result' = IF Acceptable THEN O!Reached(header) ELSE {}
      /\ UNCHANGED <<requested, padTo, hidden, openings, header>> /\ Made' = Made
  BY DEF Validate, Made
<1>2. /\ TypeOK /\ TokenInv /\ requested \subseteq Made /\ requested \subseteq Entries
      /\ header \in SUBSET Made
  BY <1>1 DEF IInv, TokenInv, PathsAreChecked, TokenIsComplete, Done, TypeOK
<1>3. O!Reached(header) = Visible(header) /\ Visible(header) \subseteq Claims
  BY <1>2, ReachedIsVisible DEF Visible
<1>4. HasRoom => (Acceptable <=> \A d \in header \cap Entries : requested \cap Above[d] \subseteq header)
  BY <1>2, AcceptableIsClosed
<1>5. TokenInv'
  BY <1>1, <1>2 DEF TokenInv, PathsAreChecked, HashesAreOfMade, InnermostFirst, DecoysFillSlots,
                    TokenIsComplete, Padded, Done
<1>6. TypeOK'
  BY <1>1, <1>2, <1>3 DEF TypeOK
<1>7. ClosedPresentationsVerify'
  BY <1>1, <1>4 DEF ClosedPresentationsVerify, HasRoom, Validated
<1>8. RoundTrip'
  BY <1>1, <1>3 DEF RoundTrip, Visible, Up
<1> QED
  BY <1>5, <1>6, <1>7, <1>8 DEF IInv

\* Every step keeps the invariant.
LEMMA NextIInv ==
    ASSUME IInv, [Next]_vars
    PROVE  IInv'
BY PathsIInv, RedactIInv, PadIInv, SignIInv, ValidateIInv DEF Next, Issue

\* The inductive invariant of issuance.
THEOREM Invariance == Spec => []IInv
  BY InitIInv, NextIInv, PTL DEF Spec

\* Types, for any claim set (core.py:544-559, 464-499).
THEOREM TypeCorrect == Spec => []TypeOK
<1>1. IInv => TypeOK
  BY DEF IInv
<1> QED
  BY <1>1, Invariance, PTL

\* An issued token presented with some of its openings is accepted exactly when no
\* opening comes without that of a claim around it (core.py:450-453, 624-627).
THEOREM ClosedCorrect == Spec => []ClosedPresentationsVerify
<1>1. IInv => ClosedPresentationsVerify
  BY DEF IInv
<1> QED
  BY <1>1, Invariance, PTL

\* What validation returns is what was issued without what was withheld, to any depth
\* of redactions in redactions (core.py:448-501, 718-728).
THEOREM RoundTripCorrect == Spec => []RoundTrip
<1>1. IInv => RoundTrip
  BY DEF IInv
<1> QED
  BY <1>1, Invariance, PTL

\* Whoever is given all openings can resolve the whole token, decoys included
\* (core.py:470-496, 551-559, report.py:38).
THEOREM HashesCorrect == Spec => []EveryHashOpens
<1>1. IInv => EveryHashOpens
  BY AllOpeningsOpen DEF IInv, TokenInv, TokenIsComplete, PathsAreChecked, EveryHashOpens, Done
<1> QED
  BY <1>1, Invariance, PTL

\* With slots to spare the number of hashes says nothing of the number of claims
\* redacted (core.py:25-26, 547-550).
THEOREM SlotsCorrect == Spec => []SlotsHideCount
<1>1. IInv => SlotsHideCount
  <2> SUFFICES ASSUME IInv, status = "issued", padTo # None,
                      Cardinality({n \in requested : Parent[n] = Root}) <= padTo
               PROVE  Cardinality(hidden[Root]) = padTo
    BY DEF SlotsHideCount
  <2>1. /\ TypeOK /\ TokenInv /\ requested \subseteq Made /\ requested \subseteq Entries /\ Padded
    BY DEF IInv, TokenInv, PathsAreChecked, TokenIsComplete, Done
  <2>2. padTo \in Nat
    BY <2>1 DEF TypeOK
  <2>3. Cardinality(hidden[Root]) >= padTo
    BY <2>1 DEF Padded
  <2>4. hidden[Root] \subseteq Claims \cup Decoys
    BY <2>1 DEF TypeOK, Entries
  <2>5. Cardinality(hidden[Root]) \in Nat
    BY <2>4, FS_Union, FS_Subset, FS_CardinalityType
  <2>6. CASE Made \cap Decoys = {}
    <3>1. requested = Made \cap Entries
      BY <2>1, HashesOfToken
    <3>2. {d \in Made \cap Entries : Parent[d] = Root} = {n \in requested : Parent[n] = Root}
      BY <3>1
    <3>3. hidden[Root] = {n \in requested : Parent[n] = Root}
      BY <2>1, <2>6, <3>2 DEF TokenInv, HashesAreOfMade
    <3> QED
      BY <2>2, <2>3, <2>5, <3>3
  <2>7. CASE Made \cap Decoys # {}
    BY <2>1, <2>2, <2>3, <2>5, <2>7 DEF TokenInv, DecoysFillSlots
  <2> QED
    BY <2>6, <2>7
<1> QED
  BY <1>1, Invariance, PTL
=============================================================================
