------------------------------ MODULE Openings ------------------------------
(***************************************************************************)
(* The payload of an SD-CWT as its hashes see it, and what a set of        *)
(* openings makes of it (sd_cwt/core.py).  A node stands for one map,      *)
(* array or plain value, an opening for its own digest.                    *)
(***************************************************************************)
EXTENDS Naturals, Sequences, FiniteSets

CONSTANTS Nodes, Root,
          Digests,  \* of all openings there are, presented or not
          Form,     \* "map" (salt, value, key), "elem" (salt, value) or "decoy" (salt)
          Key,      \* the claim key of a map opening
          Value,    \* the node a map or element opening holds
          Hashes,   \* the hashes at a map's redacted key, in order
          Tagged,   \* the hashes in an array's redacted elements
          Clear     \* the entries in the clear: records of a key and a node

ASSUME OpeningsAssumption ==
    /\ Root \in Nodes
    /\ Form \in [Digests -> {"map", "elem", "decoy"}]
    /\ DOMAIN Key = Digests
    /\ Value \in [Digests -> Nodes]
    /\ Hashes \in [Nodes -> Seq(Digests)]
    /\ Tagged \in [Nodes -> SUBSET Digests]
    /\ DOMAIN Clear = Nodes
    /\ \A n \in Nodes : \A c \in Clear[n] : c.node \in Nodes

HashesIn(n) == {Hashes[n][i] : i \in 1..Len(Hashes[n])}

\* The hashes of a node that an opening of the right form was presented for: a
\* decoy fits everywhere, any other opening only where its form belongs.
Opened(n, P) == {d \in HashesIn(n) \cap P : Form[d] \in {"map", "decoy"}}
                \cup {d \in Tagged[n] \cap P : Form[d] \in {"elem", "decoy"}}

Missing(n, P) == (HashesIn(n) \cup Tagged[n]) \ Opened(n, P)

\* Mutant: claims in the clear are not looked at.
Clashes_AmongOpened(n, P) ==
    \E i, j \in {k \in 1..Len(Hashes[n]) : Hashes[n][k] \in P /\ Form[Hashes[n][k]] = "map"} :
        i # j /\ Key[Hashes[n][i]] = Key[Hashes[n][j]]

\* Two claims of one map come to have the same key.
Clashes(n, P) ==
    LET opens(i) == Hashes[n][i] \in P /\ Form[Hashes[n][i]] = "map" IN
    \E i \in 1..Len(Hashes[n]) :
        /\ opens(i)
        /\ \/ \E j \in 1..Len(Hashes[n]) :
                  i # j /\ opens(j) /\ Key[Hashes[n][i]] = Key[Hashes[n][j]]
           \/ \E c \in Clear[n] : c.key = Key[Hashes[n][i]]

Inside(n, P) == {c.node : c \in Clear[n]}
                \cup {Value[d] : d \in {e \in Opened(n, P) : Form[e] # "decoy"}}

-----------------------------------------------------------------------------
(* What a presentation must satisfy, stated without a walk and in terms of its own. *)

\* An opening belongs to one of the hashes of a node.
HangsOn(d, n) == \/ d \in HashesIn(n) /\ Form[d] # "elem"
                 \/ d \in Tagged[n] /\ Form[d] # "map"

Closed(N, P) ==
    /\ Root \in N
    /\ \A n \in N :
          /\ \A c \in Clear[n] : c.node \in N
          /\ \A d \in P : HangsOn(d, n) /\ Form[d] # "decoy" => Value[d] \in N

\* The values that can be reached through presented openings: the least closed set.
Reachable(P) == {n \in Nodes : \A N \in SUBSET Nodes : Closed(N, P) => n \in N}

\* The claims a map comes to have: one for each hash that is opened, by its place, and
\* those in the clear.
ClaimsOf(n, P) ==
    {[at |-> i, key |-> Key[Hashes[n][i]]] :
        i \in {j \in 1..Len(Hashes[n]) : Hashes[n][j] \in P /\ Form[Hashes[n][j]] = "map"}}
    \cup {[at |-> 0, key |-> c.key] : c \in Clear[n]}

KeysAreDistinct(n, P) == \A c, e \in ClaimsOf(n, P) : c.key = e.key => c = e

\* Of the values N that are reached: no key is there twice, every opening hangs on
\* one of them and, with all, every hash in them has an opening.
ValidFor(N, P, all) ==
    /\ \A n \in N : KeysAreDistinct(n, P)
    /\ \A d \in P : \E n \in N : HangsOn(d, n)
    /\ all => \A n \in N : \A d \in HashesIn(n) \cup Tagged[n] : d \in P /\ HangsOn(d, n)

Valid(P, all) == ValidFor(Reachable(P), P, all)

-----------------------------------------------------------------------------
(* What the walk makes of a presentation, layer by layer, for payloads whose *)
(* nesting ends.                                                             *)

Layers(P) ==
    LET R[i \in Nat] == IF i = 0 THEN {Root}
                        ELSE LET N == R[i - 1] IN N \cup UNION {Inside(n, P) : n \in N}
    IN  R

Reached(P) == Layers(P)[Cardinality(Nodes)]
=============================================================================
