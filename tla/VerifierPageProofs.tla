-------------------------- MODULE VerifierPageProofs --------------------------
(* For any files and audiences, and any number of things the user does.     *)
EXTENDS VerifierPage, TLAPS

\* A verification that is out, and during which nothing changed, is of these inputs.
RequestsAreOfInputs == \A r \in asking : r.same => r.token = token /\ r.audience = audience

\* While the form is hidden no file is picked, so a load that is out is from before.
LoadsAreFromBefore == formHidden => \A r \in reading : r.answered

IInv == /\ TypeOK /\ RequestsAreOfInputs /\ LoadsAreFromBefore
        /\ ResultsAreOfInputs /\ CanVerifyAgain

\* A request changed under is a request that says so.
LEMMA OutdatedRequests ==
    ASSUME NEW requests \in SUBSET Requests
    PROVE  /\ Outdated(requests) \subseteq Requests
           /\ \A r \in Outdated(requests) : ~r.same
           /\ Outdated(requests) = {} => requests = {}
BY DEF Outdated, Requests

\* A load under which an answer came is a load that says so.
LEMMA AnsweredLoads ==
    ASSUME NEW loads \in SUBSET Loads
    PROVE  Answered(loads) \subseteq Loads /\ \A r \in Answered(loads) : r.answered
BY DEF Answered, Loads

\* The page as it opens satisfies the invariant.
LEMMA Begins == Init => IInv
<1> SUFFICES ASSUME Init PROVE IInv
    OBVIOUS
<1>1. TypeOK
    <2>1. /\ formHidden \in BOOLEAN /\ resultsHidden \in BOOLEAN
          /\ enabled \in BOOLEAN /\ late \in BOOLEAN
        BY Zenon DEF Init
    <2>. QED  BY <2>1, PageAssumption DEF Init, TypeOK
<1>2. RequestsAreOfInputs /\ LoadsAreFromBefore /\ CanVerifyAgain
    BY DEF Init, RequestsAreOfInputs, LoadsAreFromBefore, CanVerifyAgain
<1>3. ResultsAreOfInputs
    BY DEF Init, ResultsAreOfInputs
<1>. QED  BY <1>1, <1>2, <1>3 DEF IInv

\* What any event, or the end of any suspended call, keeps of the invariant.
LEMMA Keeps == IInv /\ [Next]_vars => IInv'
<1> SUFFICES ASSUME IInv, [Next]_vars PROVE IInv'
    OBVIOUS
<1> USE PageAssumption DEF IInv
<1>1. ASSUME NEW f \in Files, PickFile(f) PROVE IInv'
    <2>1. TypeOK'
        <3>1. events' \in 1..MaxEvents /\ events' = events + 1
            BY <1>1 DEF PickFile, Does, TypeOK
        <3>2. [id |-> events', file |-> f, answered |-> FALSE] \in Loads
            BY <3>1 DEF Loads
        <3>3. reading' \subseteq Loads
            BY <1>1, <3>1, <3>2 DEF PickFile, TypeOK
        <3>4. UNCHANGED <<token, audience, formHidden, resultsHidden, enabled, asking, shown, late>>
            BY <1>1 DEF PickFile, page
        <3>. QED  BY <3>1, <3>3, <3>4 DEF TypeOK
    <2>. QED  BY <1>1, <2>1 DEF PickFile, page, RequestsAreOfInputs, LoadsAreFromBefore,
                               ResultsAreOfInputs, CanVerifyAgain
<1>2. ASSUME NEW r \in reading, LoadFile(r) PROVE IInv'
    <2>1. r.file \in Files /\ r.answered \in BOOLEAN
        BY DEF TypeOK, Loads
    <2>2. TypeOK'
        BY <1>2, <2>1, OutdatedRequests DEF LoadFile, TypeOK
    <2>3. RequestsAreOfInputs'
        BY <1>2, OutdatedRequests DEF LoadFile, TypeOK, RequestsAreOfInputs
    <2>4. formHidden => late'
        BY <1>2 DEF LoadFile, LoadsAreFromBefore
    <2>. QED  BY <1>2, <2>2, <2>3, <2>4 DEF LoadFile, LoadsAreFromBefore, ResultsAreOfInputs, CanVerifyAgain
<1>3. ASSUME NEW a \in Audiences, EditAudience(a) PROVE IInv'
    <2>1. TypeOK'
        BY <1>3, OutdatedRequests DEF EditAudience, Does, TypeOK
    <2>2. RequestsAreOfInputs'
        BY <1>3, OutdatedRequests DEF EditAudience, TypeOK, RequestsAreOfInputs
    <2>3. CanVerifyAgain'
        BY <1>3, OutdatedRequests DEF EditAudience, TypeOK, CanVerifyAgain
    <2>. QED  BY <1>3, <2>1, <2>2, <2>3 DEF EditAudience, LoadsAreFromBefore, ResultsAreOfInputs
<1>4. ASSUME Submit PROVE IInv'
    <2>1. TypeOK'
        <3>1. enabled' \in BOOLEAN
            BY <1>4, Zenon DEF Submit
        <3>2. events' \in 1..MaxEvents /\ events' = events + 1
            BY <1>4 DEF Submit, Does, TypeOK
        <3>3. [id |-> events', token |-> token, audience |-> audience, same |-> TRUE] \in Requests
            BY <3>2 DEF TypeOK, Requests
        <3>4. asking' \subseteq Requests
            BY <1>4, <3>2, <3>3 DEF Submit, TypeOK
        <3>5. UNCHANGED <<token, audience, formHidden, resultsHidden, reading, shown, late>>
            BY <1>4 DEF Submit
        <3>. QED  BY <3>1, <3>2, <3>4, <3>5 DEF TypeOK
    <2>2. RequestsAreOfInputs'
        BY <1>4 DEF Submit, RequestsAreOfInputs
    <2>3. CanVerifyAgain'
        BY <1>4 DEF Submit, CanVerifyAgain
    <2>. QED  BY <1>4, <2>1, <2>2, <2>3 DEF Submit, LoadsAreFromBefore, ResultsAreOfInputs
<1>5. ASSUME NEW r \in asking, ShowAnswer(r) PROVE IInv'
    <2>1. TypeOK'
        BY <1>5, AnsweredLoads DEF ShowAnswer, TypeOK
    <2>2. LoadsAreFromBefore'
        BY <1>5, AnsweredLoads DEF ShowAnswer, TypeOK, LoadsAreFromBefore
    <2>. QED  BY <1>5, <2>1, <2>2 DEF ShowAnswer, RequestsAreOfInputs, ResultsAreOfInputs, CanVerifyAgain
<1>6. ASSUME NEW r \in asking, ShowError(r) PROVE IInv'
    BY <1>6 DEF ShowError, TypeOK, RequestsAreOfInputs, LoadsAreFromBefore, ResultsAreOfInputs, CanVerifyAgain
<1>7. ASSUME VerifyAnother PROVE IInv'
    <2>1. TypeOK'
        <3>1. formHidden' \in BOOLEAN /\ resultsHidden' \in BOOLEAN /\ enabled' \in BOOLEAN
            BY <1>7, Zenon DEF VerifyAnother
        <3>2. events' \in 0..MaxEvents
            BY <1>7 DEF VerifyAnother, Does, TypeOK
        <3>3. asking' \subseteq Requests
            BY <1>7, OutdatedRequests DEF VerifyAnother, TypeOK
        <3>4. token' = None /\ UNCHANGED <<audience, reading, shown, late>>
            BY <1>7 DEF VerifyAnother
        <3>. QED  BY <3>1, <3>2, <3>3, <3>4 DEF TypeOK
    <2>2. RequestsAreOfInputs'
        BY <1>7, OutdatedRequests DEF VerifyAnother, TypeOK, RequestsAreOfInputs
    <2>. QED  BY <1>7, <2>1, <2>2 DEF VerifyAnother, LoadsAreFromBefore, ResultsAreOfInputs, CanVerifyAgain
<1>8. ASSUME UNCHANGED vars PROVE IInv'
    BY <1>8 DEF vars, page, TypeOK, RequestsAreOfInputs, LoadsAreFromBefore,
                ResultsAreOfInputs, CanVerifyAgain
<1>. QED  BY <1>1, <1>2, <1>3, <1>4, <1>5, <1>6, <1>7, <1>8 DEF Next

\* The page keeps to the invariant.
THEOREM Invariant == Spec => []IInv
BY Begins, Keeps, PTL DEF Spec

\* The page's state and its suspended calls keep their types (verify.js:3, 83-128).
THEOREM TypeCorrect == Spec => []TypeOK
BY Invariant, PTL DEF IInv

\* Results on the page are of its file and audience unless one of them was changed
\* while the verifier was asked, in whatever order files are read and answers come.
THEOREM ResultsCorrect == Spec => []ResultsAreOfInputs
BY Invariant, PTL DEF IInv

\* Once nothing is out the form, where it is shown, verifies a loaded file; and form and
\* results are hidden together by nothing but a file picked before an answer and read
\* after it (verify.js:84-88, 109-115).
THEOREM ButtonCorrect == Spec => []CanVerifyAgain
BY Invariant, PTL DEF IInv
=============================================================================
