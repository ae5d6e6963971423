--------------------------- MODULE DisclosureDraft ---------------------------
(***************************************************************************)
(* What the MSRC review page promises, with no requests in it: there is a  *)
(* draft disclosure, editing it withdraws whatever was signed before, and  *)
(* signing signs the draft as it stands, in one step.                      *)
(***************************************************************************)
CONSTANTS Drafts,    \* the disclosures that can be composed
          Signable,  \* those with a report, an opening and an audience
          NoToken    \* nothing is signed

VARIABLES draft,  \* what the reviewer has composed
          token   \* what a signed disclosure says, NoToken when there is none

vars == <<draft, token>>

Init == draft \in Drafts /\ token = NoToken

Edit == draft' \in Drafts /\ token' = NoToken

Sign == /\ draft \in Signable
        /\ token' = draft
        /\ UNCHANGED draft

Next == Edit \/ Sign

Spec == Init /\ [][Next]_vars

\* What is exported is what the page shows: a token says what the draft says.
TokenIsDraft == token # NoToken => token = draft
=============================================================================
