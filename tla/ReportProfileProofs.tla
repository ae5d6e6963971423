------------------------- MODULE ReportProfileProofs -------------------------
(***************************************************************************)
(* Proofs about ReportProfile, for any profile, any size of a chunk and    *)
(* any reports: what was entered comes through redaction, the authority's  *)
(* check, any selection and the verifier's view as it was, in its place.   *)
(***************************************************************************)
EXTENDS ReportProfile, FiniteSetTheorems, SequenceTheorems, WellFoundedInduction, TLAPS

\* A set of naturals that has a member has a least one.
LEMMA LeastNatural ==
    ASSUME NEW S \in SUBSET Nat, S # {}
    PROVE  \E i \in S : \A j \in S : i <= j
<1>1. IsWellFoundedOn(OpToRel(<, Nat), Nat)
  BY NatLessThanWellFounded
<1>2. PICK i \in S : \A j \in S : ~(<<j, i>> \in OpToRel(<, Nat))
  BY <1>1, WFMin
<1>3. \A j \in S : ~(j < i)
  BY <1>2 DEF OpToRel
<1> QED
  BY <1>3

-----------------------------------------------------------------------------
(* Places in their order *)

\* The places of a list in their order: as many as there are, and each is preceded by
\* those below it.
LEMMA PlacesInTurn ==
    ASSUME NEW m \in Nat, NEW S \in SUBSET (1..m)
    PROVE  /\ IsFiniteSet(S) /\ Cardinality(S) \in Nat
           /\ DOMAIN InTurn(S) = 1..Cardinality(S) /\ Len(InTurn(S)) = Cardinality(S)
           /\ \A k \in 1..Cardinality(S) : InTurn(S)[k] \in S
           /\ \A i \in S : /\ Cardinality(S \cap 1..i) \in 1..Cardinality(S)
                           /\ InTurn(S)[Cardinality(S \cap 1..i)] = i
<1> DEFINE n == Cardinality(S)
           rank == [i \in S |-> Cardinality(S \cap 1..i)]
<1>1. IsFiniteSet(S) /\ n \in Nat
  <2>1. IsFiniteSet(1..m)
    BY FS_Interval
  <2>2. IsFiniteSet(S)
    BY <2>1, FS_Subset
  <2> QED
    BY <2>2, FS_CardinalityType
<1>2. ASSUME NEW i \in S PROVE rank[i] \in 1..n
  <2>1. S \cap 1..i \subseteq S /\ i \in S \cap 1..i
    OBVIOUS
  <2>2. IsFiniteSet(S \cap 1..i) /\ Cardinality(S \cap 1..i) <= n /\ Cardinality(S \cap 1..i) \in Nat
    BY <1>1, <2>1, FS_Subset, FS_CardinalityType
  <2>3. Cardinality(S \cap 1..i) # 0
    BY <2>1, <2>2, FS_EmptySet
  <2> QED
    BY <1>1, <2>2, <2>3
<1>3. ASSUME NEW i \in S, NEW j \in S, i < j PROVE rank[i] < rank[j]
  <2>1. S \cap 1..i \subseteq S \cap 1..j /\ j \in S \cap 1..j /\ j \notin S \cap 1..i
    BY <1>3
  <2>2. IsFiniteSet(S \cap 1..j)
    BY <1>1, FS_Subset
  <2>3. Cardinality(S \cap 1..i) <= Cardinality(S \cap 1..j)
        /\ (Cardinality(S \cap 1..i) = Cardinality(S \cap 1..j) => S \cap 1..i = S \cap 1..j)
    BY <2>1, <2>2, FS_Subset
  <2> QED
    BY <1>2, <2>1, <2>3
<1>4. rank \in Injection(S, 1..n)
  <2>1. \A i, j \in S : rank[i] = rank[j] => i = j
    <3> SUFFICES ASSUME NEW i \in S, NEW j \in S, i # j PROVE rank[i] # rank[j]
      OBVIOUS
    <3>1. rank[i] \in 1..n /\ rank[j] \in 1..n /\ (i < j \/ j < i)
      BY <1>2
    <3> QED
      BY <1>3, <3>1
  <2>2. rank \in [S -> 1..n]
    BY <1>2
  <2> HIDE DEF rank
  <2> QED
    BY <2>1, <2>2 DEF Injection, IsInjective
<1>5. rank \in Surjection(S, 1..n)
  <2>1. IsFiniteSet(1..n) /\ Cardinality(1..n) = n
    BY <1>1, FS_Interval
  <2> QED
    BY <1>1, <1>4, <2>1, FS_Injection
<1>6. \A k \in 1..n : \E i \in S : Cardinality(S \cap 1..i) = k
  BY <1>5 DEF Surjection
<1>7. \A i, j \in S : Cardinality(S \cap 1..i) = Cardinality(S \cap 1..j) => i = j
  BY <1>4 DEF Injection, IsInjective
<1>8. \A k \in 1..n : InTurn(S)[k] \in S /\ Cardinality(S \cap 1..InTurn(S)[k]) = k
  BY <1>6 DEF InTurn
<1>9. ASSUME NEW i \in S PROVE InTurn(S)[Cardinality(S \cap 1..i)] = i
  <2>1. Cardinality(S \cap 1..i) \in 1..n
    BY <1>2
  <2> QED
    BY <1>7, <1>8, <2>1
<1>10. DOMAIN InTurn(S) = 1..n /\ Len(InTurn(S)) = n
  BY <1>1 DEF InTurn
<1> QED
  BY <1>1, <1>2, <1>8, <1>9, <1>10

\* All the places of a list in their order are 1, 2 and so on.
LEMMA AllInTurn ==
    ASSUME NEW m \in Nat
    PROVE  InTurn(1..m) = [i \in 1..m |-> i]
<1>1. Cardinality(1..m) = m
  BY FS_Interval
<1>2. \A i \in 1..m : (1..m) \cap (1..i) = 1..i /\ Cardinality(1..i) = i
  BY FS_Interval
<1>3. \A i \in 1..m : InTurn(1..m)[Cardinality((1..m) \cap (1..i))] = i
  <2>1. 1..m \in SUBSET (1..m)
    OBVIOUS
  <2> QED
    BY <2>1, PlacesInTurn, Zenon
<1>4. \A i \in 1..m : InTurn(1..m)[i] = i
  BY <1>2, <1>3
<1> QED
  BY <1>1, <1>4 DEF InTurn

-----------------------------------------------------------------------------
(* A text and its chunks *)

\* Sequences one after the other are what any function is that adds them up.
LEMMA FlattenIs ==
    ASSUME NEW s, NEW n \in Nat \ {0}, Len(s) = n, NEW F,
           \A i \in 1..n : F[i] = IF i = 1 THEN s[i] ELSE F[i - 1] \o s[i]
    PROVE  FlattenSeq(s) = F[n]
<1> DEFINE Adds(f) == f = [i \in 1..n |-> IF i = 1 THEN s[i] ELSE f[i - 1] \o s[i]]
           g == CHOOSE f : Adds(f)
<1>1. Adds(g)
  <2>1. Adds([i \in 1..n |-> F[i]])
    OBVIOUS
  <2> QED
    BY <2>1
<1>2. FlattenSeq(s) = g[n]
  BY DEF FlattenSeq
<1> HIDE DEF g
<1>3. g[n] = F[n]
  <2> SUFFICES ASSUME g[n] # F[n] PROVE FALSE
    OBVIOUS
  <2> DEFINE D == {i \in 1..n : g[i] # F[i]}
  <2>1. n \in D /\ D \in SUBSET Nat
    OBVIOUS
  <2>2. PICK i \in D : \A j \in D : i <= j
    BY <2>1, LeastNatural
  <2>3. g[i] = (IF i = 1 THEN s[i] ELSE g[i - 1] \o s[i])
    BY <1>1
  <2>4. F[i] = (IF i = 1 THEN s[i] ELSE F[i - 1] \o s[i])
    OBVIOUS
  <2>5. i # 1
    BY <2>3, <2>4
  <2>6. i - 1 \in 1..n /\ i - 1 \notin D
    BY <2>2, <2>5
  <2> QED
    BY <2>3, <2>4, <2>6
<1> QED
  BY <1>2, <1>3

\* Two parts of a text that meet are the part from the first's start to the second's end.
LEMMA PartsThatMeet ==
    ASSUME NEW R, NEW t \in Seq(R), NEW a \in Nat, NEW b \in Nat, a <= b, b <= Len(t)
    PROVE  SubSeq(t, 1, a) \o SubSeq(t, a + 1, b) = SubSeq(t, 1, b)
<1> DEFINE x == SubSeq(t, 1, a)
           y == SubSeq(t, a + 1, b)
           z == SubSeq(t, 1, b)
<1>1. x \in Seq(R) /\ Len(x) = a /\ \A i \in 1..a : x[i] = t[i]
  BY SubSeqProperties
<1>2. y \in Seq(R) /\ Len(y) = b - a /\ \A i \in 1..(b - a) : y[i] = t[a + i]
  BY SubSeqProperties
<1>3. z \in Seq(R) /\ Len(z) = b /\ \A i \in 1..b : z[i] = t[i]
  BY SubSeqProperties
<1> HIDE DEF x, y, z
<1>4. /\ x \o y \in Seq(R) /\ Len(x \o y) = b
      /\ \A i \in 1..b : (x \o y)[i] = IF i <= a THEN x[i] ELSE y[i - a]
  <2>1. /\ x \o y \in Seq(R) /\ Len(x \o y) = Len(x) + Len(y)
        /\ \A i \in 1..(Len(x) + Len(y)) :
               (x \o y)[i] = IF i <= Len(x) THEN x[i] ELSE y[i - Len(x)]
    BY <1>1, <1>2, ConcatProperties, Zenon
  <2>2. Len(x) = a /\ Len(x) + Len(y) = b
    BY <1>1, <1>2
  <2> QED
    BY <2>1, <2>2, Zenon
<1>5. ASSUME NEW i \in 1..b PROVE (x \o y)[i] = z[i]
  <2>1. CASE i <= a
    BY <1>1, <1>3, <1>4, <2>1
  <2>2. CASE i > a
    <3>1. i - a \in 1..(b - a) /\ a + (i - a) = i
      BY <2>2
    <3>2. (x \o y)[i] = y[i - a]
      <4>1. ~(i <= a)
        BY <2>2
      <4> QED
        BY <1>4, <4>1, Zenon
    <3> QED
      BY <1>2, <1>3, <3>1, <3>2
  <2>3. i <= a \/ i > a
    OBVIOUS
  <2> QED
    BY <2>1, <2>2, <2>3
<1> QED
  BY <1>3, <1>4, <1>5, SeqEqual DEF x, y, z

USE ProfileAssumption

\* A text is as many chunks as it takes, and they make it up again.
LEMMA ChunksComeTogether ==
    ASSUME NEW R, NEW t \in Seq(R)
    PROVE  /\ \E m \in Nat : DOMAIN Chunks(t) = 1..m
           /\ FlattenSeq(Chunks(t)) = t
<1> DEFINE C == ChunkSize
           L == Len(t)
           k == (L + C - 1) \div C
           End(i) == IF i * C < L THEN i * C ELSE L
           F == [i \in 1..k |-> SubSeq(t, 1, End(i))]
<1>1. C \in Nat \ {0} /\ L \in Nat
  OBVIOUS
<1>2. k \in Nat /\ k * C >= L /\ (k - 1) * C < L
  BY <1>1
<1>3. Chunks(t) = [i \in 1..k |-> SubSeq(t, (i - 1) * C + 1, End(i))]
  BY DEF Chunks
<1>4. Len(Chunks(t)) = k
  BY <1>2, <1>3
<1> HIDE DEF k
<1>5. CASE k = 0
  <2>1. L = 0
    BY <1>1, <1>2, <1>5
  <2>2. t = <<>> /\ Chunks(t) = <<>>
    BY <1>3, <1>5, <2>1
  <2>3. FlattenSeq(Chunks(t)) = Chunks(t)
    BY <1>4, <1>5 DEF FlattenSeq
  <2> QED
    BY <1>2, <1>3, <2>2, <2>3
<1>6. CASE k # 0
  <2>1. ASSUME NEW i \in 1..k, i # 1
        PROVE  /\ i - 1 \in 1..k /\ (i - 1) * C \in Nat
               /\ End(i - 1) = (i - 1) * C /\ (i - 1) * C <= End(i) /\ End(i) \in Nat /\ End(i) <= L
    <3>1. i - 1 \in Nat /\ i - 1 <= k - 1 /\ k - 1 \in Nat
      BY <1>2, <1>6
    <3>2. (i - 1) * C <= (k - 1) * C /\ (i - 1) * C \in Nat
      BY <1>1, <3>1
    <3>3. (i - 1) * C < L
      BY <1>1, <1>2, <3>1, <3>2
    <3>4. i * C = (i - 1) * C + C /\ i * C \in Nat
      BY <1>1, <1>2
    <3> QED
      BY <1>1, <1>2, <2>1, <3>2, <3>3, <3>4
  <2>2. ASSUME NEW i \in 1..k, i # 1 PROVE F[i] = F[i - 1] \o Chunks(t)[i]
    <3>1. /\ F[i - 1] = SubSeq(t, 1, (i - 1) * C)
          /\ Chunks(t)[i] = SubSeq(t, (i - 1) * C + 1, End(i))
          /\ F[i] = SubSeq(t, 1, End(i))
      BY <1>3, <2>1, <2>2
    <3> HIDE DEF F, End
    <3>2. SubSeq(t, 1, (i - 1) * C) \o SubSeq(t, (i - 1) * C + 1, End(i)) = SubSeq(t, 1, End(i))
      BY <2>1, <2>2, PartsThatMeet
    <3> QED
      BY <3>1, <3>2
  <2>3. F[1] = Chunks(t)[1]
    BY <1>1, <1>2, <1>3, <1>6
  <2>4. \A i \in 1..k : F[i] = IF i = 1 THEN Chunks(t)[i] ELSE F[i - 1] \o Chunks(t)[i]
    BY <2>2, <2>3
  <2>5. F[k] = t
    <3>1. F[k] = SubSeq(t, 1, L)
      BY <1>1, <1>2, <1>6
    <3>2. SubSeq(t, 1, L) = t
      BY SubSeqFull
    <3> QED
      BY <3>1, <3>2
  <2> HIDE DEF F
  <2>6. FlattenSeq(Chunks(t)) = F[k]
    <3>1. k \in Nat \ {0}
      BY <1>2, <1>6
    <3> DEFINE s == Chunks(t)
    <3>2. Len(s) = k /\ \A i \in 1..k : F[i] = IF i = 1 THEN s[i] ELSE F[i - 1] \o s[i]
      BY <1>4, <2>4
    <3> HIDE DEF s
    <3>3. FlattenSeq(s) = F[k]
      BY <3>1, <3>2, FlattenIs
    <3> QED
      BY <3>3 DEF s
  <2> QED
    BY <1>2, <1>3, <2>5, <2>6
<1> QED
  BY <1>5, <1>6

-----------------------------------------------------------------------------
(* The openings of a report *)

\* Every field has its opening, and each of its parts one inside it.
LEMMA OpeningsOfReport ==
    ASSUME report \in Reports, openings = Issued, NEW n \in Names
    PROVE  /\ <<n, 0>> \in DOMAIN openings /\ Top(n) = Value(n)
           /\ Places(n) = DOMAIN Parts(n)
           /\ \E m \in Nat : DOMAIN Parts(n) = 1..m
           /\ \A i \in DOMAIN Parts(n) :
                  <<n, i>> \in DOMAIN openings /\ openings[<<n, i>>] = Parts(n)[i]
<1>1. \E m \in Nat : DOMAIN Parts(n) = 1..m
  <2>1. CASE Absent(n) \/ n \notin {Body, References}
    <3>1. Parts(n) = <<>> /\ DOMAIN <<>> = 1..0
      BY <2>1 DEF Parts
    <3> QED
      BY <3>1
  <2>2. CASE ~Absent(n) /\ n = Body
    <3>1. report[n] \in Seq(Range(report[n]))
      BY <2>2 DEF Absent
    <3>2. Parts(n) = Chunks(report[n])
      BY <2>2 DEF Parts
    <3> QED
      BY <3>1, <3>2, ChunksComeTogether
  <2>3. CASE ~Absent(n) /\ n = References
    <3>1. report[n] \in Seq(Range(report[n]))
      BY <2>3 DEF Absent
    <3>2. Parts(n) = report[n]
      BY <2>3 DEF Parts
    <3> QED
      BY <3>1, <3>2, LenProperties
  <2> QED
    BY <2>1, <2>2, <2>3
<1>2. <<n, 0>> \in DOMAIN openings /\ openings[<<n, 0>>] = Value(n)
  BY DEF Issued
<1>3. ASSUME NEW i \in DOMAIN Parts(n)
      PROVE  <<n, i>> \in DOMAIN openings /\ openings[<<n, i>>] = Parts(n)[i]
  <2>1. i # 0
    BY <1>1
  <2>2. <<n, i>> \in {<<n, j>> : j \in DOMAIN Parts(n)}
    OBVIOUS
  <2>3. <<n, i>> \in DOMAIN Issued
    BY <2>2 DEF Issued
  <2> QED
    BY <2>1, <2>3 DEF Issued
<1>4. Places(n) = DOMAIN Parts(n)
  <2>1. CASE Absent(n)
    BY <1>2, <2>1 DEF Places, Top, Value, Parts
  <2>2. CASE ~Absent(n) /\ n \in {Body, References}
    BY <1>2, <2>2 DEF Places, Top, Value
  <2>3. CASE ~Absent(n) /\ n \notin {Body, References}
    BY <1>2, <2>3 DEF Places, Top, Value, Parts
  <2> QED
    BY <2>1, <2>2, <2>3
<1> QED
  BY <1>1, <1>2, <1>3, <1>4 DEF Top

\* Of all the openings of a report the authority makes the body that was entered.
LEMMA BodyOfReport ==
    ASSUME report \in Reports, openings = Issued
    PROVE  /\ AllMatched(DOMAIN openings)
           /\ Matched(Body, DOMAIN openings) = 1..Cardinality(Matched(Body, DOMAIN openings))
           /\ report[Body] = IF Top(Body).type = "bytes" THEN None
                             ELSE FlattenSeq(Listed(Body, DOMAIN openings))
<1> DEFINE P == DOMAIN openings
<1>1. \A n \in Names : Matched(n, P) = Places(n)
  BY OpeningsOfReport DEF Matched
<1>2. AllMatched(P)
  BY <1>1, OpeningsOfReport DEF AllMatched
<1>3. PICK m \in Nat : DOMAIN Parts(Body) = 1..m
  BY OpeningsOfReport
<1>4. Matched(Body, P) = 1..m /\ Cardinality(1..m) = m
  <2>1. Cardinality(1..m) = m
    BY FS_Interval
  <2>2. Matched(Body, P) = 1..m
    BY <1>1, <1>3, OpeningsOfReport
  <2> QED
    BY <2>1, <2>2
<1>5. report[Body] = IF Top(Body).type = "bytes" THEN None ELSE FlattenSeq(Listed(Body, P))
  <2>1. Top(Body) = Value(Body)
    BY OpeningsOfReport
  <2>2. CASE Absent(Body)
    BY <2>1, <2>2 DEF Value, Absent
  <2>3. CASE ~Absent(Body)
    <3>1. report[Body] \in Seq(Range(report[Body]))
      BY <2>3 DEF Absent
    <3>2. Top(Body).type = "body" /\ Parts(Body) = Chunks(report[Body])
      BY <2>1, <2>3 DEF Value, Parts
    <3>3. InTurn(1..m) = [i \in 1..m |-> i]
      BY AllInTurn
    <3>4. Listed(Body, P) = [i \in 1..m |-> openings[<<Body, i>>]]
      BY <1>4, <3>3 DEF Listed
    <3>5. \A i \in 1..m : openings[<<Body, i>>] = Chunks(report[Body])[i]
      <4>1. \A i \in DOMAIN Parts(Body) : openings[<<Body, i>>] = Parts(Body)[i]
        BY OpeningsOfReport
      <4> QED
        BY <1>3, <3>2, <4>1
    <3>6. Listed(Body, P) = Chunks(report[Body])
      BY <1>3, <3>2, <3>4, <3>5 DEF Chunks
    <3>7. FlattenSeq(Chunks(report[Body])) = report[Body]
      BY <3>1, ChunksComeTogether
    <3> QED
      BY <3>2, <3>6, <3>7
  <2> QED
    BY <2>2, <2>3
<1> QED
  BY <1>2, <1>4, <1>5

-----------------------------------------------------------------------------
(* The way of a report *)

\* What is known of a report at each stage.
IInv ==
    /\ report \in Reports
    /\ status \in {"form", "raised", "issued", "accepted", "signed", "shown"}
    /\ status \notin {"form", "raised"} => openings = Issued
    /\ status \in {"accepted", "signed", "shown"} => body = report[Body]
    /\ status \in {"signed", "shown"} => selected \subseteq Selectable
    /\ status = "shown" => view = Described

LEMMA Invariance == Spec => []IInv
<1>1. Init => IInv
  BY DEF Init, IInv
<1>2. IInv /\ [Next]_vars => IInv'
  <2> SUFFICES ASSUME IInv, [Next]_vars PROVE IInv'
    OBVIOUS
  <2>1. CASE RedactReport
    BY <2>1 DEF IInv, RedactReport, Issued, Parts, Value, Absent
  <2>2. CASE ResolveAll
    <3>1. status' = "accepted" /\ body' = report[Body]
      BY <2>2, BodyOfReport DEF IInv, ResolveAll
    <3> QED
      BY <2>2, <3>1 DEF IInv, ResolveAll, Issued, Parts, Value, Absent
  <2>3. CASE Sign
    BY <2>3 DEF IInv, Sign, Issued, Parts, Value, Absent, Selectable, Offered, Matched, Places, Top
  <2>4. CASE DescribeSelected
    BY <2>4 DEF IInv, DescribeSelected, Issued, Parts, Value, Absent, Selectable, Offered, Matched,
                Places, Top, Described, BodyView, Listed, Presented, Fields
  <2>5. CASE UNCHANGED vars
    <3>1. Issued' = Issued
      BY <2>5 DEF vars, Issued, Parts, Value, Absent
    <3>2. Selectable' = Selectable
      BY <2>5 DEF vars, Selectable, Offered, Matched, Places, Top
    <3>3. Described' = Described
      BY <2>5 DEF vars, Described, BodyView, Listed, Matched, Places, Top, Presented
    <3> QED
      BY <2>5, <3>1, <3>2, <3>3 DEF vars, IInv
  <2> QED
    BY <2>1, <2>2, <2>3, <2>4, <2>5 DEF Next
<1> QED
  BY <1>1, <1>2, PTL DEF Spec

\* The authority accepts every report that a form can issue, and has put its body together
\* as it was entered, to the last character, from chunks redacted one by one
\* (report-profile.js:19-26, report.py:41-47).
THEOREM BodyCorrect == Spec => []BodyComesTogether
<1>1. IInv => BodyComesTogether
  BY DEF IInv, BodyComesTogether
<1> QED
  BY <1>1, Invariance, PTL

\* What is selected is a field by itself or a part of the body or of the references, and
\* with parts the opening of their field is presented.
LEMMA SelectedAre ==
    ASSUME report \in Reports, openings = Issued, selected \subseteq Selectable
    PROVE  /\ \A n \in Fields : <<n, 0>> \in Presented <=> <<n, 0>> \in selected
           /\ \A n \in {Body, References} :
                  /\ Chosen(n) \subseteq Places(n)
                  /\ <<n, 0>> \in Presented <=> Chosen(n) # {}
                  /\ \A i \in Places(n) : <<n, i>> \in Presented <=> i \in Chosen(n)
<1>1. \A n \in Names : /\ Places(n) = DOMAIN Parts(n)
                       /\ \E m \in Nat : DOMAIN Parts(n) = 1..m
  BY OpeningsOfReport
<1>2. \A n \in Names : 0 \notin Places(n)
  BY <1>1
<1>3. \A c \in selected :
          \/ \E n \in Fields : c = <<n, 0>>
          \/ \E n \in {Body, References} : \E i \in Places(n) : c = <<n, i>>
  <2> SUFFICES ASSUME NEW c \in selected
               PROVE  \/ \E n \in Fields : c = <<n, 0>>
                      \/ \E n \in {Body, References} : \E i \in Places(n) : c = <<n, i>>
    OBVIOUS
  <2>1. c \in Offered
    BY DEF Selectable
  <2>2. \/ c \in {<<n, 0>> : n \in Fields}
        \/ \E n \in {Body, References} : c \in {<<n, i>> : i \in Matched(n, DOMAIN openings)}
    BY <2>1 DEF Offered
  <2>3. \A n : Matched(n, DOMAIN openings) \subseteq Places(n)
    BY DEF Matched
  <2> QED
    BY <2>2, <2>3
<1>4. \A n \in Fields : n \in Names /\ n # Body /\ n # References
  BY DEF Fields
<1>5. ASSUME NEW n \in Fields PROVE <<n, 0>> \in Presented <=> <<n, 0>> \in selected
  <2>1. ASSUME NEW c \in selected, <<c[1], 0>> = <<n, 0>> PROVE <<n, 0>> \in selected
    BY <1>3, <1>4, <2>1
  <2> QED
    BY <2>1 DEF Presented
<1>6. ASSUME NEW n \in {Body, References}
      PROVE  /\ Chosen(n) \subseteq Places(n)
             /\ <<n, 0>> \in Presented <=> Chosen(n) # {}
             /\ \A i \in Places(n) : <<n, i>> \in Presented <=> i \in Chosen(n)
  <2>1. n \in Names
    OBVIOUS
  <2>2. \A c \in selected : c[1] = n => c[2] \in Places(n) /\ c = <<n, c[2]>>
    BY <1>3, <1>4
  <2>3. <<n, 0>> \notin selected
    BY <1>2, <2>1, <2>2
  <2>4. \A i \in Places(n) : <<n, i>> \in Presented <=> <<n, i>> \in selected
    BY <1>2, <2>1 DEF Presented
  <2>5. \A i : i \in Chosen(n) <=> \E c \in selected : c[1] = n /\ c[2] = i
    BY DEF Chosen
  <2>6. \A i : i \in Chosen(n) <=> <<n, i>> \in selected
    BY <2>2, <2>5
  <2>7. <<n, 0>> \in Presented <=> \E c \in selected : c[1] = n
    BY <2>3 DEF Presented
  <2> QED
    BY <2>2, <2>4, <2>5, <2>6, <2>7
<1> QED
  BY <1>5, <1>6

\* Of a field of text the verifier is shown what was entered, if it was selected and only
\* then; one that was not given cannot be selected (report-profile.js:150, report.py:63-68).
THEOREM FieldsCorrect == Spec => []FieldsAreAsEntered
<1>1. IInv => FieldsAreAsEntered
  <2> SUFFICES ASSUME IInv, status = "shown", NEW n \in Fields, Type[n] # "hex"
               PROVE  view.fields[n] = IF <<n, 0>> \in selected THEN report[n] ELSE None
    BY DEF FieldsAreAsEntered
  <2>1. n \in Names /\ n \notin {Body, References}
    BY DEF Fields
  <2>2. Top(n) = Value(n)
    BY <2>1, OpeningsOfReport DEF IInv
  <2>3. view.fields[n] = IF <<n, 0>> \in Presented THEN Top(n).of ELSE None
    BY DEF IInv, Described
  <2>4. <<n, 0>> \in Presented <=> <<n, 0>> \in selected
    BY SelectedAre DEF IInv
  <2>5. CASE <<n, 0>> \in selected
    <3>1. ~(Top(n).type = "bytes" /\ Type[n] # "hex")
      BY <2>5 DEF IInv, Selectable
    <3>2. ~Absent(n)
      BY <2>2, <3>1 DEF Value
    <3>3. Top(n).of = report[n]
      BY <2>1, <2>2, <3>2 DEF Value
    <3> QED
      BY <2>3, <2>4, <2>5, <3>3
  <2>6. CASE <<n, 0>> \notin selected
    BY <2>3, <2>4, <2>6
  <2> QED
    BY <2>5, <2>6
<1> QED
  BY <1>1, Invariance, PTL

\* A chunk is shown in its place and nowhere else, and where one was withheld a gap
\* shows (report.py:70-81); references close up, in their order (core.py:685-698).
THEOREM PartsCorrect == Spec => []PartsAreInPlace
<1>1. IInv => PartsAreInPlace
  <2> SUFFICES ASSUME IInv, status = "shown"
               PROVE  /\ Chosen(Body) # {} =>
                             view.body = [i \in DOMAIN Chunks(report[Body]) |->
                                   IF i \in Chosen(Body) THEN Chunks(report[Body])[i] ELSE None]
                      /\ Chosen(References) # {} =>
                             /\ Len(view.references) = Cardinality(Chosen(References))
                             /\ \A i \in Chosen(References) :
                                    view.references[Cardinality(Chosen(References) \cap 1..i)]
                                        = report[References][i]
                      /\ Chosen(Body) = {} => view.body = None
                      /\ Chosen(References) = {} => view.references = None
    BY DEF PartsAreInPlace
  <2>1. \A n \in {Body, References} :
            /\ Chosen(n) \subseteq Places(n)
            /\ <<n, 0>> \in Presented <=> Chosen(n) # {}
            /\ \A i \in Places(n) : <<n, i>> \in Presented <=> i \in Chosen(n)
    BY SelectedAre DEF IInv
  <2>2. \A n \in {Body, References} :
            /\ Places(n) = DOMAIN Parts(n)
            /\ \E m \in Nat : DOMAIN Parts(n) = 1..m
            /\ \A i \in Places(n) : openings[<<n, i>>] = Parts(n)[i]
    BY OpeningsOfReport DEF IInv
  <2>3. \A n \in {Body, References} :
            Chosen(n) # {} => Parts(n) = IF n = Body THEN Chunks(report[n]) ELSE report[n]
    <3> SUFFICES ASSUME NEW n \in {Body, References}, Chosen(n) # {}
                 PROVE  Parts(n) = IF n = Body THEN Chunks(report[n]) ELSE report[n]
      OBVIOUS
    <3>1. Parts(n) # <<>>
      BY <2>1, <2>2
    <3> QED
      BY <3>1 DEF Parts
  <2>4. /\ view.body = BodyView(Presented)
        /\ view.references = IF <<References, 0>> \in Presented
                             THEN Listed(References, Presented) ELSE None
    BY DEF IInv, Described
  <2>5. ASSUME Chosen(Body) # {}
        PROVE  view.body = [i \in DOMAIN Chunks(report[Body]) |->
                               IF i \in Chosen(Body) THEN Chunks(report[Body])[i] ELSE None]
    <3>1. view.body = [i \in Places(Body) |->
                          IF <<Body, i>> \in Presented THEN openings[<<Body, i>>] ELSE None]
      BY <2>1, <2>4, <2>5 DEF BodyView
    <3>2. Parts(Body) = Chunks(report[Body])
      BY <2>3, <2>5
    <3>3. \A i \in Places(Body) : /\ openings[<<Body, i>>] = Chunks(report[Body])[i]
                                  /\ <<Body, i>> \in Presented <=> i \in Chosen(Body)
      BY <2>1, <2>2, <3>2
    <3>4. Places(Body) = DOMAIN Chunks(report[Body])
      BY <2>2, <3>2
    <3>5. view.body = [i \in Places(Body) |->
                          IF i \in Chosen(Body) THEN Chunks(report[Body])[i] ELSE None]
      BY <3>1, <3>3
    <3> QED
      BY <3>4, <3>5
  <2>6. ASSUME Chosen(References) # {}
        PROVE  /\ Len(view.references) = Cardinality(Chosen(References))
               /\ \A i \in Chosen(References) :
                      view.references[Cardinality(Chosen(References) \cap 1..i)]
                          = report[References][i]
    <3> DEFINE S == Chosen(References)
    <3>1. view.references = Listed(References, Presented)
      BY <2>1, <2>4, <2>6
    <3>2. Matched(References, Presented) = S
      BY <2>1 DEF Matched
    <3>3. PICK m \in Nat : DOMAIN Parts(References) = 1..m
      BY <2>2
    <3>4. S \in SUBSET (1..m)
      BY <2>1, <2>2, <3>3
    <3> HIDE DEF S
    <3>5. /\ Cardinality(S) \in Nat /\ DOMAIN InTurn(S) = 1..Cardinality(S)
          /\ \A i \in S : /\ Cardinality(S \cap 1..i) \in 1..Cardinality(S)
                          /\ InTurn(S)[Cardinality(S \cap 1..i)] = i
      BY <3>4, PlacesInTurn
    <3>6. view.references = [k \in 1..Cardinality(S) |-> openings[<<References, InTurn(S)[k]>>]]
      BY <3>1, <3>2, <3>5 DEF Listed
    <3>7. Len(view.references) = Cardinality(S)
      BY <3>5, <3>6
    <3>8. ASSUME NEW i \in S
          PROVE  view.references[Cardinality(S \cap 1..i)] = report[References][i]
      <4>1. view.references[Cardinality(S \cap 1..i)] = openings[<<References, i>>]
        BY <3>5, <3>6
      <4>2. i \in Places(References) /\ Parts(References) = report[References]
        BY <2>1, <2>3, <2>6 DEF S
      <4> QED
        BY <2>2, <4>1, <4>2
    <3> QED
      BY <3>7, <3>8 DEF S
  <2>7. Chosen(Body) = {} => view.body = None
    BY <2>1, <2>4 DEF BodyView
  <2>8. Chosen(References) = {} => view.references = None
    BY <2>1, <2>4
  <2> QED
    BY <2>5, <2>6, <2>7, <2>8
<1> QED
  BY <1>1, Invariance, PTL
=============================================================================
