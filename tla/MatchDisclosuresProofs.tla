----------------------- MODULE MatchDisclosuresProofs -----------------------
(***************************************************************************)
(* Proofs about the disclosure matcher, for any payload and any openings,  *)
(* finite or not and cyclic or not: if the walk ends, its verdict is that  *)
(* of the declarative definition.  The invariant is that what the walk has *)
(* resolved or still has to resolve is reachable, and that nothing inside  *)
(* what it has resolved escapes it; when nothing is pending, the resolved  *)
(* nodes are therefore the least closed set.                               *)
(***************************************************************************)
EXTENDS MatchDisclosures, TLAPS

\* What the walk has done so far (core.py:658-699).
WalkInv ==
    /\ Root \in resolved \cup pending
    /\ resolved \cup pending \subseteq Reachable(presented)
    /\ \A n \in resolved : /\ Inside(n, presented) \subseteq resolved \cup pending
                           /\ ~Clashes(n, presented)
                           /\ requireAll => Missing(n, presented) = {}
    /\ \A d \in Digests : d \in consumed <=> \E n \in resolved : d \in Opened(n, presented)

\* What is known when it has ended (core.py:665-705).
EndInv == /\ VerdictIsExact
          /\ verdict = "accepted" => pending = {}

IInv == TypeOK /\ WalkInv /\ EndInv

\* Hashes lead to nodes and openings (the types of the payload).
LEMMA NodesType ==
    ASSUME NEW n \in Nodes, NEW P \in SUBSET Digests
    PROVE  /\ Inside(n, P) \subseteq Nodes
           /\ Opened(n, P) \subseteq P
<1>1. Opened(n, P) \subseteq P
  BY DEF Opened
<1>2. Inside(n, P) \subseteq Nodes
  BY <1>1, OpeningsAssumption DEF Inside
<1> QED
  BY <1>1, <1>2

\* What the walk opens of a node is what hangs on it, and where it clashes or misses an
\* opening, two claims have one key or a hash has no opening.
LEMMA WalkOfANode ==
    ASSUME NEW n \in Nodes, NEW P \in SUBSET Digests
    PROVE  /\ \A d \in P : d \in Opened(n, P) <=> HangsOn(d, n)
           /\ Clashes(n, P) <=> ~KeysAreDistinct(n, P)
           /\ Missing(n, P) = {} <=> \A d \in HashesIn(n) \cup Tagged[n] : d \in P /\ HangsOn(d, n)
<1>1. \A d \in P : d \in Opened(n, P) <=> HangsOn(d, n)
  BY OpeningsAssumption DEF Opened, HangsOn
<1>2. Missing(n, P) = {} <=> \A d \in HashesIn(n) \cup Tagged[n] : d \in P /\ HangsOn(d, n)
  BY <1>1, NodesType DEF Missing
<1> DEFINE S == {j \in 1..Len(Hashes[n]) : Hashes[n][j] \in P /\ Form[Hashes[n][j]] = "map"}
           opens(i) == [at |-> i, key |-> Key[Hashes[n][i]]]
           clear(c) == [at |-> 0, key |-> c.key]
<1>3. ASSUME Clashes(n, P) PROVE ~KeysAreDistinct(n, P)
  <2>1. PICK i \in S : \/ \E j \in S : i # j /\ Key[Hashes[n][i]] = Key[Hashes[n][j]]
                       \/ \E c \in Clear[n] : c.key = Key[Hashes[n][i]]
    BY <1>3 DEF Clashes
  <2>2. opens(i) \in ClaimsOf(n, P) /\ opens(i).at # 0
    BY <2>1 DEF ClaimsOf
  <2>3. ASSUME NEW j \in S, i # j, Key[Hashes[n][i]] = Key[Hashes[n][j]] PROVE ~KeysAreDistinct(n, P)
    <3>1. opens(j) \in ClaimsOf(n, P) /\ opens(j) # opens(i) /\ opens(j).key = opens(i).key
      BY <2>3 DEF ClaimsOf
    <3> QED
      BY <2>2, <3>1 DEF KeysAreDistinct
  <2>4. ASSUME NEW c \in Clear[n], c.key = Key[Hashes[n][i]] PROVE ~KeysAreDistinct(n, P)
    <3>1. clear(c) \in ClaimsOf(n, P) /\ clear(c) # opens(i) /\ clear(c).key = opens(i).key
      BY <2>2, <2>4 DEF ClaimsOf
    <3> QED
      BY <2>2, <3>1 DEF KeysAreDistinct
  <2> QED
    BY <2>1, <2>3, <2>4
<1>4. ASSUME ~KeysAreDistinct(n, P) PROVE Clashes(n, P)
  <2>1. PICK c, e \in ClaimsOf(n, P) : c.key = e.key /\ c # e
    BY <1>4 DEF KeysAreDistinct
  <2>2. CASE \E i \in S : c = opens(i)
    BY <2>1, <2>2 DEF ClaimsOf, Clashes
  <2>3. CASE \E i \in S : e = opens(i)
    BY <2>1, <2>3 DEF ClaimsOf, Clashes
  <2>4. CASE \E b, f \in Clear[n] : c = clear(b) /\ e = clear(f)
    BY <2>1, <2>4
  <2> QED
    BY <2>1, <2>2, <2>3, <2>4 DEF ClaimsOf
<1> QED
  BY <1>1, <1>2, <1>3, <1>4

\* Hence what a presentation must satisfy, in the terms of the walk.
LEMMA InTermsOfTheWalk ==
    ASSUME NEW N \in SUBSET Nodes, NEW P \in SUBSET Digests, NEW all \in BOOLEAN
    PROVE  /\ Closed(N, P) <=> Root \in N /\ \A n \in N : Inside(n, P) \subseteq N
           /\ ValidFor(N, P, all) <=>
                 /\ \A n \in N : ~Clashes(n, P)
                 /\ all => \A n \in N : Missing(n, P) = {}
                 /\ \A d \in P : \E n \in N : d \in Opened(n, P)
<1>1. Closed(N, P) <=> Root \in N /\ \A n \in N : Inside(n, P) \subseteq N
  <2>1. ASSUME NEW n \in N
        PROVE  Inside(n, P) \subseteq N
                   <=> /\ \A c \in Clear[n] : c.node \in N
                       /\ \A d \in P : HangsOn(d, n) /\ Form[d] # "decoy" => Value[d] \in N
    BY WalkOfANode, NodesType DEF Inside
  <2> QED
    BY <2>1 DEF Closed
<1> QED
  BY <1>1, WalkOfANode DEF ValidFor

\* The reachable nodes are closed under what the walk goes into, and the least such set.
LEMMA ReachableIsLeast ==
    ASSUME NEW P \in SUBSET Digests
    PROVE  /\ Reachable(P) \subseteq Nodes /\ Root \in Reachable(P)
           /\ \A n \in Reachable(P) : Inside(n, P) \subseteq Reachable(P)
           /\ \A N \in SUBSET Nodes :
                  Root \in N /\ (\A n \in N : Inside(n, P) \subseteq N) => Reachable(P) \subseteq N
<1>1. Reachable(P) \subseteq Nodes /\ Root \in Reachable(P)
  BY OpeningsAssumption DEF Reachable, Closed
<1>2. \A N \in SUBSET Nodes :
          Closed(N, P) <=> Root \in N /\ \A n \in N : Inside(n, P) \subseteq N
  BY InTermsOfTheWalk
<1>3. ASSUME NEW n \in Reachable(P), NEW m \in Inside(n, P)
      PROVE  m \in Reachable(P)
  <2>1. n \in Nodes /\ m \in Nodes
    BY <1>3, NodesType DEF Reachable
  <2>2. ASSUME NEW N \in SUBSET Nodes, Closed(N, P) PROVE m \in N
    BY <1>2, <1>3, <2>2 DEF Reachable
  <2> QED
    BY <2>1, <2>2 DEF Reachable
<1> QED
  BY <1>1, <1>2, <1>3 DEF Reachable

\* And validity is a matter of the reachable nodes.
LEMMA ValidInTermsOfTheWalk ==
    ASSUME NEW P \in SUBSET Digests, NEW all \in BOOLEAN
    PROVE  Valid(P, all) <=>
               /\ \A n \in Reachable(P) : ~Clashes(n, P)
               /\ all => \A n \in Reachable(P) : Missing(n, P) = {}
               /\ \A d \in P : \E n \in Reachable(P) : d \in Opened(n, P)
BY InTermsOfTheWalk, ReachableIsLeast DEF Valid

\* A walk starts at the payload.
LEMMA InitIInv == Init => IInv
<1> SUFFICES ASSUME Init PROVE IInv
  OBVIOUS
<1>1. TypeOK
  BY OpeningsAssumption DEF Init, TypeOK
<1>2. WalkInv
  BY ReachableIsLeast DEF Init, WalkInv
<1>3. EndInv
  BY DEF Init, EndInv, VerdictIsExact
<1> QED
  BY <1>1, <1>2, <1>3 DEF IInv

\* Resolving one node.
LEMMA ResolveIInv ==
    ASSUME IInv, NEW n \in Nodes, Resolve(n)
    PROVE  IInv'
<1> USE DEF IInv, Resolve
<1>1. presented \in SUBSET Digests /\ n \in Reachable(presented)
  BY DEF TypeOK, WalkInv
<1>2. /\ Inside(n, presented) \subseteq Nodes
      /\ Inside(n, presented) \subseteq Reachable(presented)
      /\ Opened(n, presented) \subseteq Digests
  BY <1>1, NodesType, ReachableIsLeast
<1>3. TypeOK'
  BY <1>2 DEF TypeOK
<1>4. WalkInv'
  <2>1. Root \in (resolved \cup pending)'
    BY DEF WalkInv
  <2>2. (resolved \cup pending)' \subseteq Reachable(presented)
    BY <1>1, <1>2 DEF WalkInv
  <2>3. ASSUME NEW m \in resolved'
        PROVE  /\ Inside(m, presented) \subseteq (resolved \cup pending)'
               /\ ~Clashes(m, presented)
               /\ requireAll => Missing(m, presented) = {}
    BY <2>3 DEF WalkInv
  <2>4. ASSUME NEW d \in Digests
        PROVE  d \in consumed' <=> \E m \in resolved' : d \in Opened(m, presented)
    BY <2>4 DEF WalkInv
  <2> QED
    BY <2>1, <2>2, <2>3, <2>4 DEF WalkInv
<1>5. EndInv'
  BY DEF EndInv, VerdictIsExact
<1> QED
  BY <1>3, <1>4, <1>5

\* Raising at a reachable node: the presentation is not valid.
LEMMA RaiseIInv ==
    ASSUME IInv, NEW n \in Nodes, Raise(n)
    PROVE  IInv'
<1> USE DEF IInv, Raise
<1>1. n \in Reachable(presented)
  BY DEF WalkInv
<1>2. ~Valid(presented, requireAll)
  BY <1>1, ValidInTermsOfTheWalk DEF TypeOK
<1>3. TypeOK' /\ WalkInv'
  BY DEF TypeOK, WalkInv
<1>4. EndInv'
  BY <1>2 DEF EndInv, VerdictIsExact
<1> QED
  BY <1>3, <1>4

\* With nothing pending, the resolved nodes are the reachable ones.
LEMMA WalkIsComplete ==
    ASSUME TypeOK, WalkInv, pending = {}
    PROVE  resolved = Reachable(presented)
<1>1. Root \in resolved /\ \A n \in resolved : Inside(n, presented) \subseteq resolved
  BY DEF WalkInv
<1> QED
  BY <1>1, ReachableIsLeast DEF WalkInv, TypeOK

\* The end of the walk: what is left over decides.
LEMMA FinishIInv ==
    ASSUME IInv, Finish
    PROVE  IInv'
<1> USE DEF IInv, Finish
<1>1. resolved = Reachable(presented)
  BY WalkIsComplete
<1>2. presented \ consumed = {} <=> \A d \in presented : \E n \in resolved : d \in Opened(n, presented)
  BY DEF WalkInv, TypeOK
<1>3. Valid(presented, requireAll) <=> presented \ consumed = {}
  BY <1>1, <1>2, ValidInTermsOfTheWalk DEF WalkInv, TypeOK
<1>4. TypeOK' /\ WalkInv'
  BY DEF TypeOK, WalkInv
<1>5. EndInv'
  BY <1>3 DEF EndInv, VerdictIsExact
<1> QED
  BY <1>4, <1>5

\* Every step of the matcher preserves the inductive invariant.
LEMMA NextIInv ==
    ASSUME IInv, [Next]_vars
    PROVE  IInv'
<1>1. CASE UNCHANGED vars
  BY <1>1 DEF vars, IInv, TypeOK, WalkInv, EndInv, VerdictIsExact
<1> QED
  BY <1>1, ResolveIInv, RaiseIInv, FinishIInv DEF Next

\* The matcher keeps its inductive invariant (core.py:638-705).
THEOREM Invariance == Spec => []IInv
  BY InitIInv, NextIInv, PTL DEF Spec

\* Types, for any payload (core.py:638-656).
THEOREM TypeCorrect == Spec => []TypeOK
<1>1. IInv => TypeOK
  BY DEF IInv
<1> QED
  BY <1>1, Invariance, PTL

\* The matcher never accepts a presentation it must refuse, nor refuses one it
\* must accept, whatever the payload and the openings (core.py:607-715).
THEOREM VerdictCorrect == Spec => []VerdictIsExact
<1>1. IInv => VerdictIsExact
  BY DEF IInv, EndInv
<1> QED
  BY <1>1, Invariance, PTL

\* No value surfaces that was not opened all the way down from the payload, and
\* none that was is lost (core.py:626-628, the ancestor-disclosure rule).
THEOREM ResultCorrect == Spec => []ResultIsReachable
<1>1. ASSUME IInv PROVE ResultIsReachable
  <2>1. resolved \subseteq Reachable(presented)
    BY <1>1 DEF IInv, WalkInv
  <2>2. verdict = "accepted" => resolved = Reachable(presented)
    BY <1>1, WalkIsComplete DEF IInv, EndInv
  <2> QED
    BY <2>1, <2>2 DEF ResultIsReachable
<1> QED
  BY <1>1, Invariance, PTL

-----------------------------------------------------------------------------
(* What the review page composes *)

\* Fewer openings make no more clashes, and each stays open where it was.
LEMMA FewerOpenings ==
    ASSUME NEW Q, NEW P \in SUBSET Q, NEW n
    PROVE  /\ Clashes(n, P) => Clashes(n, Q)
           /\ \A d \in P : d \in Opened(n, Q) => d \in Opened(n, P)
BY DEF Clashes, Opened

\* Openings of a report that come with the fields they are in are valid.
LEMMA ClosedSelectionsAreValid ==
    ASSUME NEW P \in SUBSET (DOMAIN Parents), \A d \in P : Parents[d] \subseteq P
    PROVE  Valid(P, FALSE)
<1>1. P \in SUBSET Digests
  BY MatchAssumption
<1>2. Root \in Reachable(P) /\ Root \in Nodes
  BY <1>1, ReachableIsLeast, OpeningsAssumption
<1>3. ASSUME NEW n \in Reachable(P) PROVE ~Clashes(n, P)
  BY <1>3, FewerOpenings, ReportAssumption DEF Reachable
<1>4. ASSUME NEW d \in P PROVE \E n \in Reachable(P) : d \in Opened(n, P)
  <2>1. CASE d \in Opened(Root, DOMAIN Parents)
    BY <1>2, <2>1, FewerOpenings
  <2>2. ASSUME NEW b \in Parents[d], b \in Opened(Root, DOMAIN Parents), Form[b] # "decoy",
               d \in Opened(Value[b], DOMAIN Parents)
        PROVE  \E n \in Reachable(P) : d \in Opened(n, P)
    <3>1. b \in P
      BY <2>2
    <3>2. b \in Opened(Root, P) /\ d \in Opened(Value[b], P)
      BY <2>2, <3>1, FewerOpenings
    <3>3. Value[b] \in Inside(Root, P)
      BY <2>2, <3>2 DEF Inside
    <3>4. Value[b] \in Reachable(P)
      BY <1>1, <1>2, <3>3, ReachableIsLeast
    <3> QED
      BY <3>2, <3>4
  <2> QED
    BY <2>1, <2>2, ReportAssumption
<1> QED
  BY <1>1, <1>3, <1>4, ValidInTermsOfTheWalk

\* What the review page composes of a report is never refused by the matcher
\* (review-model.js:80-92, core.py:607-715).
THEOREM ClosedSelectionsCorrect == Spec => []ClosedSelectionsPass
<1>1. IInv => ClosedSelectionsPass
  BY ClosedSelectionsAreValid DEF IInv, TypeOK, EndInv, VerdictIsExact, ClosedSelectionsPass
<1> QED
  BY <1>1, Invariance, PTL
=============================================================================
