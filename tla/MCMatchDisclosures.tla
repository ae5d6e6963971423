------------------------- MODULE MCMatchDisclosures -------------------------
EXTENDS MatchDisclosures, TLC

\* A report as issued, a body of two chunks and a reference, among what no issuer
\* of this repository makes but the matcher must judge: a second opening of a
\* chunk's key, one of a clear key, a hash listed twice, a decoy in a map and in a
\* list, a hash in the place of the other form, an element that holds a map, and a
\* chunk hashed in two places.
MCNodes == {"payload", "iss", "body", "refs", "inner", "leaf"}
ReportDigests == {"body", "refs", "c0", "c1", "r0"}
MCDigests == ReportDigests \cup {"again", "iss", "twice", "decoy", "astray", "nested"}
MCForm == [d \in MCDigests |->
    CASE d \in {"r0", "nested"} -> "elem" [] d = "decoy" -> "decoy" [] OTHER -> "map"]
MCKey == [d \in MCDigests |-> IF d = "again" THEN "c0" ELSE d]
MCValue == [d \in MCDigests |->
    CASE d \in {"body", "refs"} -> d [] d = "nested" -> "inner" [] OTHER -> "leaf"]
MCHashes == [n \in MCNodes |->
    CASE n = "payload" -> <<"body", "refs", "iss", "twice", "twice", "decoy">>
      [] n = "body" -> <<"c1", "c0", "again">>
      [] n = "inner" -> <<"c0">> [] OTHER -> <<>>]
MCTagged == [n \in MCNodes |->
    IF n = "refs" THEN {"r0", "nested", "astray", "decoy"} ELSE {}]
MCClear == [n \in MCNodes |->
    CASE n = "payload" -> {[key |-> "iss", node |-> "iss"]}
      [] n = "refs" -> {[key |-> 0, node |-> "leaf"]} [] OTHER -> {}]
MCParents == [d \in ReportDigests |->
    CASE d \in {"c0", "c1"} -> {"body"} [] d = "r0" -> {"refs"} [] OTHER -> {}]

\* The values reached layer by layer are the least closed set.
ASSUME \A P \in SUBSET Digests : Reached(P) = Reachable(P)
=============================================================================
