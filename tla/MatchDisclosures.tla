-------------------------- MODULE MatchDisclosures --------------------------
(***************************************************************************)
(* The disclosure matcher (sd_cwt/core.py, match_disclosures).  A signed   *)
(* payload holds hashes; whoever presents it adds openings.  The matcher   *)
(* walks the payload, replaces every hash whose opening it was given, goes *)
(* on inside the opened value, and refuses openings it found no hash for.  *)
(*                                                                         *)
(* The recursion is a set of nodes still to be resolved, taken in any      *)
(* order.                                                                  *)
(***************************************************************************)
EXTENDS Openings

CONSTANT Parents   \* for the openings of a report, those to be presented along with each

ASSUME MatchAssumption == /\ DOMAIN Parents \subseteq Digests
                          /\ Parents \in [DOMAIN Parents -> SUBSET (DOMAIN Parents)]

\* In a report every opening belongs to a hash of the payload, or to one in the value
\* of an opening that does, and no value has two claims under one key.
ASSUME ReportAssumption ==
    LET issued == DOMAIN Parents IN
    /\ \A d \in issued :
           \/ d \in Opened(Root, issued)
           \/ \E b \in Parents[d] : /\ b \in Opened(Root, issued) /\ Form[b] # "decoy"
                                   /\ d \in Opened(Value[b], issued)
    /\ \A n \in Nodes : ~Clashes(n, issued)

VARIABLES presented,   \* the openings in the header, as by_map, by_elem and by_decoy
          requireAll,
          pending,     \* nodes on which resolve has been called
          resolved,    \* nodes whose value is part of the result
          consumed,
          verdict      \* "open", "accepted", or "rejected" (ValueError)

vars == <<presented, requireAll, pending, resolved, consumed, verdict>>

-----------------------------------------------------------------------------
Init == /\ presented \in SUBSET Digests
        /\ requireAll \in BOOLEAN
        /\ pending = {Root}
        /\ resolved = {}
        /\ consumed = {}
        /\ verdict = "open"

\* Mutant: nothing inside an opened value is resolved.
Resolve_Flat(n) ==
    /\ verdict = "open"
    /\ n \in pending
    /\ ~Clashes(n, presented)
    /\ ~(requireAll /\ Missing(n, presented) # {})
    /\ resolved' = resolved \cup {n}
    /\ consumed' = consumed \cup Opened(n, presented)
    /\ pending' = (pending \ {n}) \cup {c.node : c \in Clear[n]}
    /\ UNCHANGED <<presented, requireAll, verdict>>

\* Mutant: every presented value is resolved, referenced or not.
Resolve_Everything(n) ==
    /\ verdict = "open"
    /\ n \in pending
    /\ ~Clashes(n, presented)
    /\ ~(requireAll /\ Missing(n, presented) # {})
    /\ resolved' = resolved \cup {n} \cup {Value[d] : d \in presented}
    /\ consumed' = consumed \cup Opened(n, presented)
    /\ pending' = (pending \ {n}) \cup Inside(n, presented)
    /\ UNCHANGED <<presented, requireAll, verdict>>

\* Mutant: what is counted as used is the value, not the hash that led to it.
Resolve_CountsValues(n) ==
    /\ verdict = "open"
    /\ n \in pending
    /\ ~Clashes(n, presented)
    /\ ~(requireAll /\ Missing(n, presented) # {})
    /\ resolved' = resolved \cup {n}
    /\ consumed' = consumed \cup {n}
    /\ pending' = (pending \ {n}) \cup Inside(n, presented)
    /\ UNCHANGED <<presented, requireAll, verdict>>

Resolve(n) == /\ verdict = "open"
              /\ n \in pending
              /\ ~Clashes(n, presented)
              /\ ~(requireAll /\ Missing(n, presented) # {})
              /\ resolved' = resolved \cup {n}
              /\ consumed' = consumed \cup Opened(n, presented)
              /\ pending' = (pending \ {n}) \cup Inside(n, presented)
              /\ UNCHANGED <<presented, requireAll, verdict>>

Raise(n) == /\ verdict = "open"
            /\ n \in pending
            /\ Clashes(n, presented) \/ (requireAll /\ Missing(n, presented) # {})
            /\ verdict' = "rejected"
            /\ UNCHANGED <<presented, requireAll, pending, resolved, consumed>>

\* The walk is over; an opening it did not consume matches no redacted hash.
Finish == /\ verdict = "open"
          /\ pending = {}
          /\ verdict' = IF presented \ consumed = {} THEN "accepted" ELSE "rejected"
          /\ UNCHANGED <<presented, requireAll, pending, resolved, consumed>>

Next == (\E n \in Nodes : Resolve(n) \/ Raise(n)) \/ Finish

Spec == Init /\ [][Next]_vars

-----------------------------------------------------------------------------
\* Types of the matcher's locals (core.py:638-656).
TypeOK == /\ presented \in SUBSET Digests
          /\ requireAll \in BOOLEAN
          /\ pending \in SUBSET Nodes
          /\ resolved \in SUBSET Nodes
          /\ consumed \in SUBSET Digests
          /\ verdict \in {"open", "accepted", "rejected"}

\* The matcher accepts exactly the valid presentations: every opening hangs on a
\* reachable hash, no level has a key twice and, with require_all, no reachable
\* hash stays closed (the docstring of match_disclosures).
VerdictIsExact == verdict # "open" => (verdict = "accepted" <=> Valid(presented, requireAll))

\* No value gets into the result whose ancestors were not all opened, and an
\* accepted result has every value that is reachable.
ResultIsReachable ==
    /\ resolved \subseteq Reachable(presented)
    /\ verdict = "accepted" => resolved = Reachable(presented)

\* What the review page composes (review-model.js:80-92), openings of the report
\* together with those of the fields they are nested in, is never refused.
ClosedSelectionsPass ==
    /\ ~requireAll
    /\ presented \subseteq DOMAIN Parents
    /\ \A d \in presented : Parents[d] \subseteq presented
    => verdict # "rejected"
=============================================================================
