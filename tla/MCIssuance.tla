----------------------------- MODULE MCIssuance -----------------------------
EXTENDS Issuance

\* A map in which there is a plain claim and a map with a plain claim and an
\* array of a plain element and a map.
MCClaims == {"root", "sub", "region", "license", "dates", "first", "second", "year"}
MCParent == [n \in MCClaims \ {"root"} |->
    CASE n \in {"sub", "license"} -> "root" [] n \in {"region", "dates"} -> "license"
      [] n \in {"first", "second"} -> "dates" [] n = "year" -> "second"]
MCShape == [n \in MCClaims |->
    CASE n \in {"root", "license", "second"} -> "map" [] n = "dates" -> "list" [] OTHER -> "value"]

\* Every set of paths that resolve, and some with one that does not: the last of
\* them also has the empty path.
MCRequests == SUBSET (MCClaims \ {"root"})
              \cup {{"nowhere"}, {"nowhere", "year"}, {"root", "nowhere", "sub"}}
=============================================================================
