--------------------------- MODULE CompletionGate ---------------------------
(***************************************************************************)
(* What the researcher is promised ("Researcher completion gate" in the    *)
(* README): a report is registered before it is delivered, and delivered   *)
(* before it is called complete.  A submission may be called failed at any *)
(* time, whatever became of the report.                                    *)
(***************************************************************************)
CONSTANT Submissions

VARIABLES registered,  \* submissions the transparency service gave a receipt
          delivered,   \* those that reached the inbox of the authority
          outcome      \* what the page says of each: "open", "done" or "failed"

vars == <<registered, delivered, outcome>>

Init == /\ registered = {}
        /\ delivered = {}
        /\ outcome = [s \in Submissions |-> "open"]

Register(s) == /\ registered' = registered \cup {s}
               /\ UNCHANGED <<delivered, outcome>>

Deliver(s) == /\ s \in registered
              /\ delivered' = delivered \cup {s}
              /\ UNCHANGED <<registered, outcome>>

Complete(s) == /\ s \in delivered
               /\ outcome[s] = "open"
               /\ outcome' = [outcome EXCEPT ![s] = "done"]
               /\ UNCHANGED <<registered, delivered>>

\* One cause may fail several submissions at once.
Fail(S) == /\ \A s \in S : outcome[s] = "open"
           /\ outcome' = [s \in Submissions |-> IF s \in S THEN "failed" ELSE outcome[s]]
           /\ UNCHANGED <<registered, delivered>>

Next == \/ \E s \in Submissions : Register(s) \/ Deliver(s) \/ Complete(s)
        \/ \E S \in SUBSET Submissions : Fail(S)

Spec == Init /\ [][Next]_vars
=============================================================================
