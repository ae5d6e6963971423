--------------------------- MODULE MCPresentation ---------------------------
EXTENDS Presentation, TLC

\* A report of a hidden field, a title, a body of two chunks and a reference,
\* and an opening that belongs to none of its hashes.  One node stands for all
\* values that have no hashes inside.
MCNodes == {"payload", "body", "refs", "text"}
MCDigests == {"parent", "title", "body", "refs", "c0", "c1", "r0", "stray"}
MCIssued == MCDigests \ {"stray"}
MCForm == [d \in MCDigests |-> IF d = "r0" THEN "elem" ELSE "map"]
MCKey == [d \in MCDigests |->
    CASE d = "parent" -> 1000 [] d = "title" -> 1001 [] d = "body" -> 1002 [] d = "refs" -> 1006
      [] d = "c0" -> 0 [] d = "c1" -> 1 [] OTHER -> 1001]
MCValue == [d \in MCDigests |-> IF d \in {"body", "refs"} THEN d ELSE "text"]
MCHashes == [n \in MCNodes |->
    CASE n = "payload" -> <<"body", "parent", "refs", "title">> [] n = "body" -> <<"c1", "c0">>
      [] OTHER -> <<>>]
MCTagged == [n \in MCNodes |-> IF n = "refs" THEN {"r0"} ELSE {}]
MCClear == [n \in MCNodes |-> {}]

MCSelections == {{}, {"body", "c1"}, {"refs", "r0", "title"}, {"parent", "body"},
                 {"stray", "title"}}
MCAudiences == {"", "a", "a "}
MCTrim == ("" :> "") @@ ("a" :> "a") @@ ("a " :> "a")
MCSkews == {-2, 1}
=============================================================================
