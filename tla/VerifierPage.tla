---------------------------- MODULE VerifierPage ----------------------------
(***************************************************************************)
(* The verifier's page (webapp/static/verify.js): one file, one audience   *)
(* and one area for results, with nothing that ties an answer to the       *)
(* inputs it is for.  Reading a file and asking the verifier both suspend, *)
(* and the form can be used meanwhile as long as it is shown.              *)
(***************************************************************************)
EXTENDS Naturals, FiniteSets

CONSTANTS Files,
          Audiences,
          MaxEvents,  \* bound: what the user does
          None

ASSUME PageAssumption == MaxEvents \in Nat /\ None \notin Files

VARIABLES token,      \* the file that was read last
          audience,   \* the text in the field
          formHidden, resultsHidden,
          enabled,    \* the verify button
          reading,    \* loads suspended at file.arrayBuffer()
          asking,     \* submissions suspended at verify()
          shown,      \* what the results are of
          late,       \* history: the file read last was picked before an answer
          events

page == <<token, audience, formHidden, resultsHidden, enabled>>
vars == <<page, reading, asking, shown, late, events>>

\* A load, and whether an answer was shown since its file was picked (history).
Loads == [id : 1..MaxEvents, file : Files, answered : BOOLEAN]

\* A submission, and whether the inputs stayed as they were since (history).
Requests == [id : 1..MaxEvents, token : Files \cup {None}, audience : Audiences, same : BOOLEAN]

\* The inputs changed under the requests that are out.
Outdated(requests) == {[r EXCEPT !.same = FALSE] : r \in requests}

\* An answer came under the loads that are out.
Answered(loads) == {[r EXCEPT !.answered = TRUE] : r \in loads}

Does == events < MaxEvents /\ events' = events + 1

-----------------------------------------------------------------------------
Init == /\ token = None
        /\ audience \in Audiences
        /\ formHidden = FALSE /\ resultsHidden = TRUE
        /\ enabled = FALSE
        /\ reading = {} /\ asking = {}
        /\ shown = None
        /\ late = FALSE
        /\ events = 0

\* By choosing or dropping a file.
PickFile(f) == /\ Does
               /\ ~formHidden
               /\ reading' = reading \cup {[id |-> events + 1, file |-> f, answered |-> FALSE]}
               /\ UNCHANGED <<page, asking, shown, late>>

\* Mutant: the results of the file before stay.
LoadFile_Keeps(r) ==
    /\ r \in reading
    /\ reading' = reading \ {r}
    /\ token' = r.file
    /\ enabled' = TRUE
    /\ asking' = Outdated(asking)
    /\ late' = r.answered
    /\ UNCHANGED <<audience, formHidden, resultsHidden, shown, events>>

\* Mutant: the bytes are used before they are there.
LoadFile_NoAwait(r) == /\ r \in reading
                       /\ reading' = reading \ {r}
                       /\ token' = r
                       /\ enabled' = TRUE
                       /\ resultsHidden' = TRUE
                       /\ asking' = Outdated(asking)
                       /\ late' = r.answered
                       /\ UNCHANGED <<audience, formHidden, shown, events>>

LoadFile(r) == /\ r \in reading
               /\ reading' = reading \ {r}
               /\ token' = r.file
               /\ enabled' = TRUE
               /\ resultsHidden' = TRUE
               /\ asking' = Outdated(asking)
               /\ late' = r.answered
               /\ UNCHANGED <<audience, formHidden, shown, events>>

EditAudience(a) == /\ Does
                   /\ ~formHidden
                   /\ a # audience
                   /\ audience' = a
                   /\ resultsHidden' = TRUE
                   /\ asking' = Outdated(asking)
                   /\ UNCHANGED <<token, formHidden, enabled, reading, shown, late>>

Submit == /\ Does
          /\ ~formHidden /\ enabled
          /\ enabled' = FALSE
          /\ asking' = asking \cup {[id |-> events + 1, token |-> token, audience |-> audience, same |-> TRUE]}
          /\ UNCHANGED <<token, audience, formHidden, resultsHidden, reading, shown, late>>

ShowAnswer(r) == /\ r \in asking
                 /\ asking' = asking \ {r}
                 /\ shown' = r
                 /\ formHidden' = TRUE /\ resultsHidden' = FALSE
                 /\ enabled' = TRUE
                 /\ reading' = Answered(reading)
                 /\ UNCHANGED <<token, audience, late, events>>

\* Mutant: the button is enabled on success only.
ShowError_StaysDisabled(r) == /\ r \in asking
                              /\ asking' = asking \ {r}
                              /\ UNCHANGED <<page, reading, shown, late, events>>

ShowError(r) == /\ r \in asking
                /\ asking' = asking \ {r}
                /\ enabled' = TRUE
                /\ UNCHANGED <<token, audience, formHidden, resultsHidden, reading, shown, late, events>>

VerifyAnother == /\ Does
                 /\ ~resultsHidden
                 /\ resultsHidden' = TRUE /\ formHidden' = FALSE
                 /\ token' = None
                 /\ enabled' = FALSE
                 /\ asking' = Outdated(asking)
                 /\ UNCHANGED <<audience, reading, shown, late>>

Next == \/ \E f \in Files : PickFile(f)
        \/ \E r \in reading : LoadFile(r)
        \/ \E a \in Audiences : EditAudience(a)
        \/ Submit
        \/ \E r \in asking : ShowAnswer(r) \/ ShowError(r)
        \/ VerifyAnother

Spec == Init /\ [][Next]_vars

-----------------------------------------------------------------------------
\* Types of the page's module variable, its elements' state and its suspended calls.
TypeOK == /\ token \in Files \cup {None} /\ audience \in Audiences
          /\ formHidden \in BOOLEAN /\ resultsHidden \in BOOLEAN /\ enabled \in BOOLEAN
          /\ reading \subseteq Loads
          /\ asking \subseteq Requests
          /\ shown \in Requests \cup {None}
          /\ late \in BOOLEAN
          /\ events \in 0..MaxEvents

\* Results on the page are of the file and the audience that are in its form, unless
\* one of them changed while the verifier was asked (verify.js:88, 116-118).
ResultsAreOfInputs ==
    ~resultsHidden /\ shown.same => shown.token = token /\ shown.audience = audience

\* There is always a way on, the form's button once nothing is out or the results'
\* "Verify another file" (verify.js:112-115, 120-125; verify.html:36), but for one dead
\* end: a file picked before an answer hid the form and read after it hides the results
\* as well (verify.js:88, 109), and is loaded with nothing left to verify it by.
CanVerifyAgain ==
    /\ ~formHidden /\ token # None /\ asking = {} => enabled
    /\ formHidden /\ resultsHidden => late
=============================================================================
