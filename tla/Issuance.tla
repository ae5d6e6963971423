------------------------------ MODULE Issuance ------------------------------
(***************************************************************************)
(* Issuing an SD-CWT with redactions, presenting it with some of the       *)
(* openings and validating it again (sd_cwt/core.py: issue, present,       *)
(* validate).  The claim set is a tree; a redaction path is the node it    *)
(* leads to.  Signatures are ideal; a salt makes every digest unique, so   *)
(* an opening is named by the node it hides.                               *)
(***************************************************************************)
EXTENDS Integers, SequencesExt

CONSTANTS Claims, Root,
          Parent,    \* the map or array an entry is in
          Shape,     \* "map", "list" or "value"
          Nowhere,   \* a path that resolves to no entry
          Requests,  \* bound: the sets of paths issue is called with
          PadTos,    \* its pad_to argument, or None
          Decoys,
          MaxDepth,  \* 16
          None

Entries == Claims \ {Root}
\* The maps and arrays that an entry is in, one around the other.
Outward(S) == \A n \in S \ {Root} : Parent[n] \in S
Above == [n \in Claims |->
             {m \in Claims \ {n} : \A S \in SUBSET Claims : n \in S /\ Outward(S) => m \in S}]
Level(n) == Cardinality(Above[n])
Within(n) == {m \in Claims : n \in Above[m] \cup {m}}

ASSUME IssuanceAssumption ==
    /\ IsFiniteSet(Claims) /\ IsFiniteSet(Decoys) /\ Claims \cap Decoys = {}
    /\ Shape \in [Claims -> {"map", "list", "value"}]
    /\ Root \in Claims /\ Shape[Root] = "map"
    /\ Parent \in [Entries -> Claims]
    /\ \A n \in Entries : Shape[Parent[n]] # "value" /\ Root \in Above[n]
    /\ \A p \in PadTos \ {None} : p \in Nat /\ p <= Cardinality(Decoys)
    /\ Requests \subseteq SUBSET (Claims \cup {Nowhere})
    /\ MaxDepth \in Nat /\ MaxDepth >= 2

VARIABLES requested, padTo,
          hidden,    \* the hashes that stand in each map or array of the output so far
          openings,  \* of each opening made, what was hidden inside its value then
          status,    \* where the caller is, or its verdict
          header,    \* the openings presented
          result     \* the claims that validate returns

vars == <<requested, padTo, hidden, openings, status, header, result>>

Made == DOMAIN openings

-----------------------------------------------------------------------------
(* The token as its recipient gets it *)

\* What a node is serialised in: the payload or the innermost opening around it.
Container(n) ==
    LET around == (Above[n] \cup {n}) \cap Made
    IN  IF around = {} THEN Root ELSE CHOOSE m \in around : around \subseteq Above[m] \cup {m}

HashesAt(n) == IF Container(n) = Root THEN hidden[n] ELSE openings[Container(n)][n]

\* A hash is named by what it hides, decoys hide nothing.
Hidable == Entries \cup Decoys
FormOf == [d \in Hidable |->
              IF d \in Decoys THEN "decoy" ELSE IF Shape[Parent[d]] = "map" THEN "map" ELSE "elem"]
KeyOf == [d \in Hidable |-> d]
ValueOf == [d \in Hidable |-> IF d \in Decoys THEN Root ELSE d]

ListedHashes == [n \in Claims |-> IF Shape[n] = "map" THEN SetToSeq(HashesAt(n)) ELSE <<>>]
TaggedHashes == [n \in Claims |-> IF Shape[n] = "list" THEN HashesAt(n) ELSE {}]
ClearEntries == [n \in Claims |->
                    {[key |-> c, node |-> c] : c \in {e \in Entries \ HashesAt(n) : Parent[e] = n}}]

O == INSTANCE Openings WITH Nodes <- Claims, Digests <- Hidable, Form <- FormOf, Key <- KeyOf,
                            Value <- ValueOf, Hashes <- ListedHashes, Tagged <- TaggedHashes,
                            Clear <- ClearEntries

\* The deepest item written for a node: hashes of a map are in an array of their
\* own, the tag around one in an array is no level, an opening is an array.
Depth(n) == (IF Container(n) = Root THEN 0 ELSE 1) + Level(n) - Level(Container(n))
            + (IF HashesAt(n) = {} THEN 0 ELSE IF Shape[n] = "map" THEN 2 ELSE 1)

CheckedDepth(c) == \A n \in Claims : Container(n) = c => Depth(n) <= MaxDepth

-----------------------------------------------------------------------------
Init == /\ requested \in Requests
        /\ padTo \in PadTos
        /\ hidden = [n \in Claims |-> {}]
        /\ openings = [d \in {} |-> {}]
        /\ status = "checking"
        /\ header = {}
        /\ result = {}

\* Every path has to lead to an entry before any is redacted.
ValidatePaths ==
    /\ status = "checking"
    /\ status' = IF requested \subseteq Entries THEN "redacting" ELSE "raised"
    /\ UNCHANGED <<requested, padTo, hidden, openings, header, result>>

Hide(d, at, inside) ==
    /\ hidden' = [hidden EXCEPT ![at] = @ \cup {d}]
    /\ openings' = [x \in Made \cup {d} |-> IF x = d THEN inside ELSE openings[x]]
    /\ UNCHANGED <<requested, padTo, status, header, result>>

\* Mutant: an entry is hidden before what is redacted inside it.
RedactNode_ParentFirst(n) ==
    /\ status = "redacting"
    /\ n \in requested \ Made
    /\ Above[n] \cap requested \subseteq Made
    /\ Hide(n, Parent[n], [m \in Within(n) |-> hidden[m]])

\* Mutant: an opening is said to hold its map or array.
RedactNode_Container(n) ==
    /\ status = "redacting"
    /\ n \in requested \ Made
    /\ (Within(n) \ {n}) \cap requested \subseteq Made
    /\ Hide(n, Parent[n], [m \in Within(Parent[n]) |-> hidden[m]])

\* Mutant: paths that go on below a redacted entry are dropped.
RedactNode_OnlyDirect(n) ==
    /\ status = "redacting"
    /\ n \in requested \ Made
    /\ (Within(n) \ {n}) \cap requested \subseteq Made
    /\ Hide(n, Parent[n], [m \in Within(n) |-> {}])

RedactNode(n) ==
    /\ status = "redacting"
    /\ n \in requested \ Made
    /\ (Within(n) \ {n}) \cap requested \subseteq Made
    /\ Hide(n, Parent[n], [m \in Within(n) |-> hidden[m]])

Redacted == status = "redacting" /\ requested \subseteq Made

Padded == padTo # None => Cardinality(hidden[Root]) >= padTo

\* Mutant: one decoy too many.
Pad_Inclusive == /\ Redacted /\ padTo # None /\ Cardinality(hidden[Root]) <= padTo
                 /\ \E d \in Decoys \ Made : Hide(d, Root, None)

\* Mutant: the decoy's opening is not returned.
Pad_Silent == /\ Redacted /\ ~Padded
              /\ \E d \in Decoys \ hidden[Root] : hidden' = [hidden EXCEPT ![Root] = @ \cup {d}]
              /\ UNCHANGED <<requested, padTo, openings, status, header, result>>

Pad == /\ Redacted /\ ~Padded
       /\ \E d \in Decoys \ Made : Hide(d, Root, None)

Sign == /\ Redacted /\ Padded
        /\ status' = "issued"
        /\ UNCHANGED <<requested, padTo, hidden, openings, header, result>>

Present(P) == /\ status = "issued"
              /\ status' = "presented"
              /\ header' = P
              /\ UNCHANGED <<requested, padTo, hidden, openings, result>>

Acceptable == /\ \A c \in {Root} \cup (header \cap Entries) : CheckedDepth(c)
              /\ O!ValidFor(O!Reached(header), header, FALSE)

Validate == /\ status = "presented"
            /\ status' = IF Acceptable THEN "valid" ELSE "refused"
            /\ result' = IF Acceptable THEN O!Reached(header) ELSE {}
            /\ UNCHANGED <<requested, padTo, hidden, openings, header>>

Issue == ValidatePaths \/ (\E n \in Entries : RedactNode(n)) \/ Pad \/ Sign

Next == Issue \/ (\E P \in SUBSET Made : Present(P)) \/ Validate

Spec == Init /\ [][Next]_vars

-----------------------------------------------------------------------------
\* Types of the locals of issue and _redact_node (core.py:544-559, 464-499).
TypeOK == /\ requested \in Requests /\ padTo \in PadTos
          /\ hidden \in [Claims -> SUBSET (Entries \cup Decoys)]
          /\ Made \subseteq Entries \cup Decoys
          /\ \A d \in Made \cap Entries : openings[d] \in [Within(d) -> SUBSET Entries]
          /\ status \in {"checking", "redacting", "raised", "issued", "presented", "valid", "refused"}
          /\ header \subseteq Made /\ result \subseteq Claims

Validated == status \in {"valid", "refused"}

\* A level for the hashes remains in the claim set.
HasRoom == \A n \in Claims : Level(n) < MaxDepth

\* A presentation of issued openings is accepted exactly if with each opening come
\* those of the redacted maps and arrays it is in (core.py:450-453, 624-627).
ClosedPresentationsVerify ==
    Validated /\ HasRoom =>
        (status = "valid" <=> \A d \in header \cap Entries : requested \cap Above[d] \subseteq header)

\* What validate returns is the claim set without the entries whose own opening, or
\* that of one around them, was not presented: nothing requested shows through.
RoundTrip ==
    status = "valid" =>
        result = {n \in Claims : requested \cap (Above[n] \cup {n}) \subseteq header}

\* The openings issue returns, decoys included, open every hash it wrote: they
\* are what resolve_all demands (report.py:38).
EveryHashOpens == status = "issued" => O!Valid(Made, TRUE)

\* Padding hides how many top-level claims were redacted (core.py:25-26): with
\* enough slots their number is always pad_to.
SlotsHideCount ==
    status = "issued" /\ padTo # None
        /\ Cardinality({n \in requested : Parent[n] = Root}) <= padTo
    => Cardinality(hidden[Root]) = padTo
=============================================================================
